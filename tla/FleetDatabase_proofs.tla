-------------------------- MODULE FleetDatabase_proofs --------------------------
(***************************************************************************)
(* What FleetDatabase promises, for any number of commands, schema         *)
(* versions, kept backups and faults: backups, schema and transactions are *)
(* sound, and a damaged database is not written.                           *)
(***************************************************************************)
EXTENDS FleetDatabase, FiniteSetTheorems, TLAPS

USE DEF vars, diskVars, processVars, serveVars, historyVars

Listening == {"listen", "listenStream"}

\* What holds of the file and of every copy of it, at a time.
DbOk(db, now) ==
  /\ db \in Db
  /\ db.tables = 1 .. db.version
  /\ \A c \in Command : <<c, "state">> \in db.rows <=> <<c, "result">> \in db.rows
  /\ IsFiniteSet(db.rows) /\ 2 * db.seq = Cardinality(db.rows)
  /\ db.backedUp <= db.seq /\ db.lastBackup <= now

\* The disk, and what history knows of it.
DiskInv ==
  /\ DbOk(file, clock) /\ \A i \in DOMAIN backups : DbOk(backups[i], clock)
  /\ backups \in Seq(Db)
  /\ verified => \E i \in DOMAIN backups : backups[i].good
  /\ oldest # 0 => file.present /\ file.seq > file.backedUp /\ oldest >= file.lastBackup
  /\ aside > 0 => restored
  /\ ~restored => \A c \in told : <<c, "result">> \in file.rows

\* How far the process is, and what it has found on its way.
OpenInv ==
  /\ pc \notin {"down", "open", "check"} \union Listening \union Serving => file.good
  /\ pc \notin {"down", "open"} \union Listening \union Serving => file.present
  /\ pc \in {"copy", "verify"} /\ purpose = "migrate" => file = safe
  /\ pc \in {"copy", "verify"} /\ purpose = "roll" => file.version >= build
  /\ pc \in {"recheck", "roll", "mark", "stamp", "opened"} => file.version >= build
  /\ pc = "verify" => backups # <<>>
  /\ pc \in {"migrate", "recheck"} => \E i \in DOMAIN backups : backups[i] = safe
  /\ pc \in {"mark", "stamp"} => oldest = 0
  /\ pc = "opened" /\ file.lastBackup > 0 => oldest = 0 \/ clock - oldest < Interval
  /\ pc \in Listening \union Serving /\ mode = "ready" => file.present /\ file.good /\ file.version >= build

\* A transaction is a connected client's, and holds the rows of one command that has none
\* yet.
TxInv ==
  /\ tx.pc # "none" => conn /\ mode = "ready" /\ pc \in Serving /\ ~Done(tx.cmd)
  /\ tx.pc \in {"inner", "outer"} => tx.rows = {<<tx.cmd, "state">>}
  /\ tx.pc = "recorded" => tx.rows = {<<tx.cmd, "state">>, <<tx.cmd, "result">>}

\* Sockets are bound by the process that listens, and by no other.
SockInv ==
  /\ pc \notin {"listenStream", "up"} => \A s \in Socket : sock[s] # "bound"
  /\ pc = "listenStream" => sock["control"] = "bound" /\ sock["stream"] # "bound"
  /\ pc = "up" => \A s \in Socket : sock[s] = "bound"

Typed ==
  /\ aside \in Nat /\ sock \in [Socket -> {"absent", "bound", "stale"}]
  /\ build \in Version /\ clock \in 1 .. MaxTime + 1 /\ faults \in 0 .. MaxFaults
  /\ pc \in {"down"} \union Starting \union Serving
  /\ mode \in {"none", "ready", "recovery"}
  /\ from \in {0} \union Version /\ purpose \in {"migrate", "roll"}
  /\ tx \in [pc : {"none", "inner", "outer", "recorded"}, cmd : Command, rows : SUBSET Row]
  /\ conn \in BOOLEAN /\ told \subseteq Command
  /\ safe \in Db /\ verified \in BOOLEAN /\ oldest \in Nat /\ restored \in BOOLEAN

Inv == Typed /\ DiskInv /\ OpenInv /\ TxInv /\ SockInv

LEMMA NoTxIs == NoTx \in [pc : {"none", "inner", "outer", "recorded"}, cmd : Command, rows : SUBSET Row]
                /\ NoTx.pc = "none"
BY DatabaseBounds DEF NoTx

LEMMA NoDbIs == /\ \A now \in Nat : DbOk(NoDb, now)
                /\ NoDb \in Db /\ NoDb.rows = {} /\ ~NoDb.present
<1>1. NoDb \in Db
  BY DEF NoDb, Db
<1>2. NoDb.tables = 1 .. NoDb.version
  BY DEF NoDb
<1>3. IsFiniteSet(NoDb.rows) /\ 2 * NoDb.seq = Cardinality(NoDb.rows)
  BY FS_EmptySet DEF NoDb
<1> QED
  BY <1>1, <1>2, <1>3 DEF NoDb, DbOk

LEMMA InitInv == Init => Inv
<1> SUFFICES ASSUME Init PROVE Inv
  OBVIOUS
<1>1. DbOk(file, clock) /\ backups \in Seq(Db) /\ DOMAIN backups = {}
  BY NoDbIs DEF Init
<1>2. Typed
  <2>1. /\ 0 \in Nat /\ 1 \in Version /\ 1 \in 1 .. MaxTime + 1 /\ 0 \in 0 .. MaxFaults
    BY DatabaseBounds DEF Version
  <2> QED
    BY <2>1, NoTxIs, NoDbIs DEF Init, Typed, Starting
<1>3. DiskInv
  BY <1>1 DEF Init, DiskInv
<1> QED
  BY <1>2, <1>3, NoTxIs DEF Init, Inv, OpenInv, TxInv, SockInv, Listening, Serving

-----------------------------------------------------------------------------
(* The file and its copies.                                                 *)

LEMMA SameDbOk ==
  ASSUME NEW db, NEW now, DbOk(db, now), NEW new \in Db, NEW later,
         new.tables = db.tables, new.version = db.version, new.rows = db.rows, new.seq = db.seq,
         new.backedUp <= db.seq, new.lastBackup <= later
  PROVE  DbOk(new, later)
BY DEF DbOk

\* What the steps do to a database leaves it sound.
LEMMA ChangedDbOk ==
  ASSUME NEW db, NEW now \in Nat, DbOk(db, now)
  PROVE  /\ DbOk([db EXCEPT !.present = TRUE], now)
         /\ DbOk([db EXCEPT !.good = FALSE], now)
         /\ DbOk([db EXCEPT !.backedUp = db.seq], now)
         /\ DbOk([db EXCEPT !.lastBackup = now], now)
         /\ DbOk(db, now + 1)
<1>1. db \in Db
  BY DEF DbOk
<1>2. /\ [db EXCEPT !.present = TRUE] \in Db /\ [db EXCEPT !.good = FALSE] \in Db
      /\ [db EXCEPT !.backedUp = db.seq] \in Db /\ [db EXCEPT !.lastBackup = now] \in Db
  BY <1>1 DEF Db
<1>3. db.lastBackup \in Nat /\ db.seq \in Nat
  BY <1>1 DEF Db
<1>5. DbOk([db EXCEPT !.present = TRUE], now) /\ DbOk([db EXCEPT !.good = FALSE], now)
  BY <1>1, <1>2, SameDbOk DEF DbOk, Db
<1>6. DbOk([db EXCEPT !.backedUp = db.seq], now)
  <2> DEFINE new == [db EXCEPT !.backedUp = db.seq]
  <2>1. /\ new.tables = db.tables /\ new.version = db.version /\ new.rows = db.rows /\ new.seq = db.seq
        /\ new.backedUp = db.seq
        /\ new.lastBackup = db.lastBackup
    BY <1>1 DEF Db
  <2>2. new.backedUp <= db.seq /\ new.lastBackup <= now
    BY <1>3, <2>1 DEF DbOk
  <2>3. new \in Db
    BY <1>2
  <2> HIDE DEF new
  <2>4. DbOk(new, now)
    BY <2>1, <2>2, <2>3, SameDbOk
  <2> QED
    BY <2>4 DEF new
<1>7. DbOk([db EXCEPT !.lastBackup = now], now)
  <2> DEFINE new == [db EXCEPT !.lastBackup = now]
  <2>1. /\ new.tables = db.tables /\ new.version = db.version /\ new.rows = db.rows /\ new.seq = db.seq
        /\ new.lastBackup = now
        /\ new.backedUp = db.backedUp
    BY <1>1 DEF Db
  <2>2. new.backedUp <= db.seq /\ new.lastBackup <= now
    BY <1>3, <2>1 DEF DbOk
  <2>3. new \in Db
    BY <1>2
  <2> HIDE DEF new
  <2>4. DbOk(new, now)
    BY <2>1, <2>2, <2>3, SameDbOk
  <2> QED
    BY <2>4 DEF new
<1>8. DbOk(db, now + 1)
  BY <1>1, <1>3, SameDbOk DEF DbOk
<1> QED
  BY <1>5, <1>6, <1>7, <1>8

\* A writable connection may leave its mark on a damaged file, and nothing else.
LEMMA TouchedIs ==
  ASSUME NEW db, NEW now, DbOk(db, now), NEW new \in Touched(db)
  PROVE  /\ DbOk(new, now)
         /\ new = db \/ (~db.good /\ new = [db EXCEPT !.written = TRUE])
         /\ new.present = db.present /\ new.good = db.good /\ new.version = db.version
         /\ new.rows = db.rows /\ new.seq = db.seq /\ new.backedUp = db.backedUp
         /\ new.lastBackup = db.lastBackup
<1>1. db \in Db /\ db.seq \in Nat /\ db.backedUp <= db.seq /\ db.lastBackup <= now
  BY DEF DbOk, Db
<1>2. new = db \/ (~db.good /\ new = [db EXCEPT !.written = TRUE])
  BY DEF Touched
<1>3. /\ new.present = db.present /\ new.good = db.good /\ new.version = db.version
      /\ new.rows = db.rows /\ new.seq = db.seq /\ new.backedUp = db.backedUp
      /\ new.lastBackup = db.lastBackup /\ new.tables = db.tables
  BY <1>1, <1>2 DEF Db
<1>4. new \in Db
  BY <1>1, <1>2 DEF Db
<1>5. DbOk(new, now)
  BY <1>1, <1>3, <1>4, SameDbOk
<1> QED
  BY <1>2, <1>3, <1>5

LEMMA MigratedDbOk ==
  ASSUME NEW db, NEW now \in Nat, DbOk(db, now), db.version + 1 \in Version
  PROVE  DbOk(Migrated(db, db.version + 1), now)
<1>1. db \in Db
  BY DEF DbOk
<1>2. db.version \in Nat /\ db.tables \subseteq Version
  BY <1>1, DatabaseBounds DEF Db, Version
<1>3. Migrated(db, db.version + 1) \in Db
  BY <1>1, <1>2 DEF Migrated, Db
<1>4. 1 .. db.version + 1 = (1 .. db.version) \union {db.version + 1}
  BY <1>2
<1> QED
  BY <1>1, <1>3, <1>4 DEF DbOk, Migrated, Db

\* The rows of one command are added together.
LEMMA CommittedDbOk ==
  ASSUME NEW db, NEW now \in Nat, DbOk(db, now), NEW c \in Command, <<c, "result">> \notin db.rows
  PROVE  DbOk([db EXCEPT !.rows = @ \union {<<c, "state">>, <<c, "result">>}, !.seq = @ + 1, !.lastChange = now], now)
<1> DEFINE added == {<<c, "state">>, <<c, "result">>}
           new == [db EXCEPT !.rows = @ \union added, !.seq = @ + 1, !.lastChange = now]
<1>1. db \in Db /\ db.seq \in Nat /\ added \subseteq Row
  BY DEF DbOk, Db, Row
<1>2. /\ new \in Db /\ new.tables = db.tables /\ new.version = db.version /\ new.backedUp = db.backedUp
      /\ new.lastBackup = db.lastBackup /\ new.rows = db.rows \union added /\ new.seq = db.seq + 1
  <2> DEFINE r == db.rows \union added
             n == db.seq + 1
  <2>1. r \subseteq Row /\ n \in Nat
    BY <1>1 DEF Db
  <2>2. new = [db EXCEPT !.rows = r, !.seq = n, !.lastChange = now]
    BY <1>1 DEF Db
  <2> HIDE DEF r, n, new
  <2>3. new \in Db
    BY <1>1, <2>1, <2>2 DEF Db
  <2>4. /\ new.tables = db.tables /\ new.version = db.version /\ new.backedUp = db.backedUp
        /\ new.lastBackup = db.lastBackup /\ new.rows = r /\ new.seq = n
    BY <1>1, <2>2 DEF Db
  <2> QED
    BY <2>3, <2>4 DEF r, n
<1>3. <<c, "state">> \notin db.rows /\ <<c, "state">> # <<c, "result">>
  BY DEF DbOk
<1>4. /\ IsFiniteSet(db.rows \union {<<c, "state">>})
      /\ Cardinality(db.rows \union {<<c, "state">>}) = Cardinality(db.rows) + 1
  BY <1>3, FS_AddElement DEF DbOk
<1>5. new.rows = (db.rows \union {<<c, "state">>}) \union {<<c, "result">>}
  BY <1>2
<1>6. IsFiniteSet(new.rows) /\ Cardinality(new.rows) = Cardinality(db.rows) + 2
  <2>1. <<c, "result">> \notin db.rows \union {<<c, "state">>}
    BY <1>3
  <2>2. Cardinality(db.rows) \in Nat
    BY FS_CardinalityType DEF DbOk
  <2> DEFINE half == db.rows \union {<<c, "state">>}
  <2>3. IsFiniteSet(half) /\ Cardinality(half) = Cardinality(db.rows) + 1 /\ <<c, "result">> \notin half
        /\ new.rows = half \union {<<c, "result">>}
    BY <1>4, <1>5, <2>1
  <2> HIDE DEF new, half
  <2>4. IsFiniteSet(new.rows) /\ Cardinality(new.rows) = Cardinality(half) + 1
    BY <2>3, FS_AddElement
  <2> QED
    BY <2>2, <2>3, <2>4
<1>7. \A d \in Command : <<d, "state">> \in new.rows <=> <<d, "result">> \in new.rows
  <2> HIDE DEF new
  <2> QED
    BY <1>2 DEF DbOk
<1>8. db.backedUp \in Nat
  BY <1>1 DEF Db
<1> HIDE DEF new
<1>9. 2 * new.seq = Cardinality(new.rows)
  BY <1>1, <1>2, <1>6 DEF DbOk
<1>10. new.backedUp <= new.seq /\ new.lastBackup <= now /\ new.tables = 1 .. new.version
  BY <1>1, <1>2, <1>8 DEF DbOk
<1> QED
  BY <1>2, <1>6, <1>7, <1>9, <1>10 DEF DbOk, new

\* pruneBackups keeps the newest, and so the one that was just verified.
LEMMA KeptIs ==
  ASSUME NEW files \in Seq(Db), files # <<>>
  PROVE  /\ Kept(files) \in Seq(Db) /\ Kept(files) # <<>>
         /\ \A i \in DOMAIN Kept(files) : \E j \in DOMAIN files : Kept(files)[i] = files[j]
         /\ \E i \in DOMAIN Kept(files) : Kept(files)[i] = files[Len(files)]
<1> DEFINE m == IF Len(files) > Keep THEN Len(files) - Keep + 1 ELSE 1
<1>1. m \in 1 .. Len(files) /\ Len(files) \in Nat /\ Len(files) > 0
  BY DatabaseBounds
<1>2. Kept(files) = SubSeq(files, m, Len(files))
  BY DEF Kept
<1> HIDE DEF m
<1>3. /\ Kept(files) \in Seq(Db) /\ Len(Kept(files)) = Len(files) - m + 1
      /\ \A i \in 1 .. Len(files) - m + 1 : Kept(files)[i] = files[m + i - 1]
  BY <1>1, <1>2
<1>4. \A i \in DOMAIN Kept(files) : m + i - 1 \in DOMAIN files /\ Kept(files)[i] = files[m + i - 1]
  BY <1>1, <1>3
<1>5. Len(files) - m + 1 \in DOMAIN Kept(files) /\ Kept(files)[Len(files) - m + 1] = files[Len(files)]
  BY <1>1, <1>3
<1> QED
  BY <1>3, <1>4, <1>5

-----------------------------------------------------------------------------
(* openDatabase.                                                            *)

LEMMA Facts ==
  ASSUME Inv
  PROVE  /\ clock \in Nat /\ clock > 0 /\ oldest \in Nat /\ build \in Version /\ build \in Nat
         /\ DbOk(file, clock) /\ file \in Db /\ file.version \in Nat /\ file.lastBackup \in Nat
         /\ file.seq \in Nat /\ file.backedUp \in Nat /\ file.rows \subseteq Row
<1>1. clock \in Nat /\ clock > 0 /\ oldest \in Nat /\ build \in Version /\ build \in Nat
  BY DatabaseBounds DEF Inv, Typed, Version
<1>2. DbOk(file, clock) /\ file \in Db
  BY DEF Inv, DiskInv, DbOk
<1>3. /\ file.version \in Nat /\ file.lastBackup \in Nat /\ file.seq \in Nat /\ file.backedUp \in Nat
      /\ file.rows \subseteq Row
  BY <1>2, DatabaseBounds DEF Db, Version
<1> QED
  BY <1>1, <1>2, <1>3

servingVars == <<aside, sock, build, clock, serveVars, restored>>

\* No step of openDatabase touches what is served, and none is taken while it is.
LEMMA OpeningKeeps ==
  ASSUME Inv, UNCHANGED servingVars, pc \notin Listening \union Serving \union {"down"},
         pc' \in Starting, pc' # "listenStream"
  PROVE  TxInv' /\ SockInv'
<1>1. tx.pc = "none" /\ \A s \in Socket : sock[s] # "bound"
  BY DEF Inv, TxInv, SockInv, Listening, Serving
<1> QED
  BY <1>1 DEF TxInv, SockInv, servingVars, Starting

\* The disk as it was, or with the file changed where nobody has looked.
LEMMA DiskUnchanged ==
  DiskInv /\ UNCHANGED <<diskVars, clock, told, verified, oldest, restored>> => DiskInv'
BY DEF DiskInv

LEMMA FileChanges ==
  ASSUME DiskInv, UNCHANGED <<backups, aside, clock, told, verified, oldest, restored>>,
         DbOk(file', clock), file'.rows = file.rows,
         oldest # 0 => file'.present /\ file'.seq > file'.backedUp /\ oldest >= file'.lastBackup
  PROVE  DiskInv'
BY DEF DiskInv

\* The ways to read-only recovery: the file is closed, and keeps what it holds.
LEMMA OpenFailsKeeps ==
  ASSUME Inv,
         \/ OpenFails
         \/ IntegrityCheck /\ ~IntegrityOk(file)
         \/ Recheck /\ ~IntegrityOk(file)
         \/ OpenWritable /\ file' \in Touched(file) /\ Recovery
  PROVE  Inv'
<1>1. /\ UNCHANGED <<backups, verified, oldest>> /\ UNCHANGED servingVars /\ Recovery
      /\ pc \in {"open", "check", "copy", "verify", "migrate", "recheck", "mark", "stamp"}
      /\ faults' \in 0 .. MaxFaults /\ file' \in Touched(file)
  BY DatabaseBounds DEF OpenFails, IntegrityCheck, Recheck, OpenWritable, Opening, Fault,
     Inv, Typed, servingVars
<1>2. pc' = "listen" /\ mode' = "recovery" /\ UNCHANGED <<from, purpose, safe>>
  BY <1>1 DEF Recovery, ServeRecovery
<1>3. /\ DbOk(file', clock) /\ file'.present = file.present /\ file'.rows = file.rows
      /\ file'.seq = file.seq /\ file'.backedUp = file.backedUp
      /\ file'.lastBackup = file.lastBackup
  BY <1>1, Facts, TouchedIs
<1>4. DiskInv'
  BY <1>1, <1>3, FileChanges DEF Inv, DiskInv, servingVars
<1>5. TxInv' /\ SockInv'
  BY <1>1, <1>2, OpeningKeeps DEF Starting, Listening, Serving
<1>6. OpenInv'
  BY <1>2 DEF OpenInv, Listening, Serving
<1>7. Typed'
  BY <1>1, <1>2 DEF Inv, Typed, servingVars, Starting
<1> QED
  BY <1>4, <1>5, <1>6, <1>7 DEF Inv

LEMMA LaunchKeeps == ASSUME Inv, Launch PROVE Inv'
<1>1. DiskInv'
  BY DiskUnchanged DEF Inv, Launch
<1> QED
  BY <1>1 DEF Launch, Inv, Typed, OpenInv, TxInv, SockInv, Starting, Serving, Listening

LEMMA OpenWritableKeeps == ASSUME Inv, OpenWritable PROVE Inv'
<1> DEFINE there == [file EXCEPT !.present = TRUE]
<1>1. CASE file' \in Touched(file) /\ Recovery
  BY <1>1, OpenFailsKeeps
<1>2. CASE file' \in Touched(there) /\ pc' = "check" /\ UNCHANGED <<mode, from, purpose, safe>>
  <2>1. UNCHANGED servingVars /\ UNCHANGED <<backups, verified, oldest, faults>> /\ pc = "open"
    BY DEF OpenWritable, Opening, servingVars
  <2>2. DbOk(there, clock) /\ file \in Db
    BY Facts, ChangedDbOk
  <2>6. /\ there.present /\ there.rows = file.rows /\ there.seq = file.seq
        /\ there.backedUp = file.backedUp /\ there.lastBackup = file.lastBackup
    BY <2>2 DEF Db
  <2> HIDE DEF there
  <2>7. DbOk(file', clock)
    BY <1>2, <2>2, TouchedIs
  <2>3. /\ file'.present /\ file'.rows = file.rows /\ file'.seq = file.seq /\ file'.backedUp = file.backedUp
        /\ file'.lastBackup = file.lastBackup
    BY <1>2, <2>2, <2>6, TouchedIs
  <2>4. DiskInv'
    BY <2>1, <2>7, <2>3, FileChanges DEF Inv, DiskInv, servingVars
  <2>5. TxInv' /\ SockInv'
    BY <1>2, <2>1, OpeningKeeps DEF Starting, Listening, Serving
  <2>8. OpenInv'
    BY <1>2, <2>3 DEF OpenInv, Listening, Serving
  <2>9. Typed'
    BY <1>2, <2>1 DEF Inv, Typed, servingVars, Starting
  <2> QED
    BY <2>4, <2>5, <2>8, <2>9 DEF Inv
<1> QED
  BY <1>1, <1>2 DEF OpenWritable

LEMMA CheckKeeps == ASSUME Inv, IntegrityCheck PROVE Inv'
<1>1. CASE ~IntegrityOk(file)
  BY <1>1, OpenFailsKeeps
<1>2. CASE IntegrityOk(file)
  <2>1. /\ UNCHANGED servingVars /\ UNCHANGED <<file, backups, verified, oldest, faults, mode>> /\ pc = "check"
        /\ from' = file.version /\ file.good
        /\ IF file.version < build
           THEN pc' = "copy" /\ purpose' = "migrate" /\ safe' = file
           ELSE pc' = "roll" /\ UNCHANGED <<purpose, safe>>
    BY <1>2 DEF IntegrityCheck, IntegrityOk, Opening, Disk, servingVars
  <2>2. DiskInv'
    BY <2>1, DiskUnchanged DEF Inv, servingVars
  <2>3. TxInv' /\ SockInv'
    BY <2>1, OpeningKeeps DEF Starting, Listening, Serving
  <2>4. file \in Db /\ file.version \in Nat /\ build \in Nat /\ file.version \in {0} \union Version
    <3>1. file \in Db /\ file.version \in Nat /\ build \in Nat
      BY Facts
    <3> QED
      BY <3>1 DEF Db
  <2>5. OpenInv'
    BY <2>1, <2>4 DEF Inv, OpenInv, servingVars, Listening, Serving
  <2>6. Typed'
    BY <2>1, <2>4 DEF Inv, Typed, servingVars, Starting
  <2> QED
    BY <2>2, <2>3, <2>5, <2>6 DEF Inv
<1> QED
  BY <1>1, <1>2

LEMMA CopyKeeps == ASSUME Inv, CopyFile PROVE Inv'
<1>1. /\ UNCHANGED servingVars /\ UNCHANGED <<file, verified, oldest, mode, from, purpose, safe, faults>>
      /\ pc = "copy" /\ pc' = "verify" /\ backups' = Append(backups, [file EXCEPT !.good = FALSE])
  BY DEF CopyFile, Opening, servingVars
<1>2. DbOk([file EXCEPT !.good = FALSE], clock) /\ [file EXCEPT !.good = FALSE] \in Db
  BY Facts, ChangedDbOk DEF DbOk
<1>3. /\ backups' \in Seq(Db) /\ backups' # <<>>
      /\ \A i \in DOMAIN backups' : DbOk(backups'[i], clock)
      /\ \A i \in DOMAIN backups : i \in DOMAIN backups' /\ backups'[i] = backups[i]
  <2> DEFINE copy == [file EXCEPT !.good = FALSE]
  <2>1. backups \in Seq(Db) /\ copy \in Db /\ backups' = Append(backups, copy)
    BY <1>1, <1>2 DEF Inv, DiskInv
  <2>2. DbOk(copy, clock)
    BY <1>2
  <2> HIDE DEF copy
  <2>3. /\ backups' \in Seq(Db) /\ backups' # <<>> /\ DOMAIN backups' = DOMAIN backups \union {Len(backups) + 1}
        /\ backups'[Len(backups) + 1] = copy
        /\ \A i \in DOMAIN backups : i \in DOMAIN backups' /\ backups'[i] = backups[i]
    BY <2>1
  <2> QED
    BY <2>2, <2>3 DEF Inv, DiskInv
<1>4. DiskInv'
  BY <1>1, <1>3 DEF Inv, DiskInv, servingVars
<1>5. TxInv' /\ SockInv'
  BY <1>1, OpeningKeeps DEF Starting, Listening, Serving
<1>6. OpenInv'
  BY <1>1, <1>3 DEF Inv, OpenInv, servingVars, Listening, Serving
<1> QED
  BY <1>1, <1>4, <1>5, <1>6 DEF Inv, Typed, servingVars, Starting

LEMMA VerifyKeeps == ASSUME Inv, VerifyBackup PROVE Inv'
<1>1. /\ UNCHANGED servingVars /\ UNCHANGED <<file, mode, from, purpose, safe, faults>>
      /\ pc = "verify" /\ pc' = (IF purpose = "migrate" THEN "migrate" ELSE "mark")
      /\ verified' = TRUE /\ oldest' = 0
      /\ backups' = Kept([backups EXCEPT ![Len(backups)] = file])
  BY DEF VerifyBackup, Opening, servingVars
<1>2. backups \in Seq(Db) /\ backups # <<>> /\ file \in Db /\ file.good
  BY <1>1 DEF Inv, DiskInv, DbOk, OpenInv, Listening, Serving
<1> DEFINE files == [backups EXCEPT ![Len(backups)] = file]
<1>3. /\ files \in Seq(Db) /\ files # <<>> /\ files[Len(files)] = file
      /\ \A i \in DOMAIN files : files[i] = file \/ (i \in DOMAIN backups /\ files[i] = backups[i])
  BY <1>2
<1> HIDE DEF files
<1>4. /\ backups' \in Seq(Db)
      /\ \A i \in DOMAIN backups' : \E j \in DOMAIN files : backups'[i] = files[j]
      /\ \E i \in DOMAIN backups' : backups'[i] = file
  <2>1. backups' = Kept(files)
    BY <1>1 DEF files
  <2> QED
    BY <1>3, <2>1, KeptIs
<1>5. DiskInv'
  <2>1. \A i \in DOMAIN files : DbOk(files[i], clock)
    BY <1>3, Facts DEF Inv, DiskInv
  <2>2. \A i \in DOMAIN backups' : DbOk(backups'[i], clock)
    BY <1>4, <2>1
  <2>3. \E i \in DOMAIN backups' : backups'[i].good
    BY <1>2, <1>4
  <2> QED
    BY <1>1, <1>4, <2>2, <2>3, Facts DEF Inv, DiskInv, servingVars
<1>6. TxInv' /\ SockInv'
  BY <1>1, OpeningKeeps DEF Starting, Listening, Serving
<1>7. OpenInv'
  BY <1>1, <1>2, <1>4 DEF Inv, OpenInv, Typed, servingVars, Listening, Serving
<1>8. Typed'
  BY <1>1 DEF Inv, Typed, servingVars, Starting
<1> QED
  BY <1>5, <1>6, <1>7, <1>8 DEF Inv

LEMMA MigrateKeeps == ASSUME Inv, Migrate PROVE Inv'
<1>1. /\ UNCHANGED servingVars /\ UNCHANGED <<backups, verified, oldest, mode, from, purpose, safe, faults>>
      /\ pc = "migrate"
      /\ \/ file.version < build /\ pc' = pc /\ file' = Migrated(file, file.version + 1)
         \/ file.version >= build /\ pc' = "recheck" /\ file' = file
  BY DEF Migrate, Opening, servingVars
<1>2. file \in Db /\ file.version \in Nat /\ build \in Version /\ file.good /\ DbOk(file, clock) /\ clock \in Nat
  <2>1. file.good
    BY <1>1 DEF Inv, OpenInv, Listening, Serving
  <2> QED
    BY <2>1, Facts
<1>3. DbOk(file', clock)
  <2>1. file.version < build => file.version + 1 \in Version
    BY <1>2, DatabaseBounds DEF Version
  <2> QED
    BY <1>1, <1>2, <2>1, MigratedDbOk
<1>4. /\ file'.rows = file.rows /\ file'.seq = file.seq /\ file'.backedUp = file.backedUp
      /\ file'.lastBackup = file.lastBackup /\ file'.present = file.present /\ file'.good
  BY <1>1, <1>2 DEF Migrated, Db
<1>5. DiskInv'
  BY <1>1, <1>3, <1>4, FileChanges DEF Inv, DiskInv, servingVars
<1>6. TxInv' /\ SockInv'
  BY <1>1, OpeningKeeps DEF Starting, Listening, Serving
<1>7. OpenInv'
  <2>1. file'.present
    BY <1>1, <1>4 DEF Inv, OpenInv, Listening, Serving
  <2> QED
    BY <1>1, <1>4, <2>1 DEF Inv, OpenInv, servingVars, Listening, Serving
<1>8. Typed'
  BY <1>1 DEF Inv, Typed, servingVars, Starting
<1> QED
  BY <1>5, <1>6, <1>7, <1>8 DEF Inv

LEMMA RecheckKeeps == ASSUME Inv, Recheck PROVE Inv'
<1>1. CASE ~IntegrityOk(file)
  BY <1>1, OpenFailsKeeps
<1>2. CASE IntegrityOk(file)
  <2>1. UNCHANGED servingVars /\ UNCHANGED <<file, backups, verified, oldest, faults>> /\ pc = "recheck"
    BY <1>2 DEF Recheck, Opening, servingVars
  <2>4. pc' = "roll" /\ UNCHANGED <<mode, from, purpose, safe>>
    BY <1>2 DEF Recheck
  <2>2. DiskInv'
    BY <2>1, DiskUnchanged DEF Inv, servingVars
  <2>3. TxInv' /\ SockInv'
    BY <2>1, <2>4, OpeningKeeps DEF Starting, Listening, Serving
  <2> QED
    BY <2>1, <2>2, <2>3, <2>4 DEF Inv, Typed, OpenInv, servingVars, Starting, Serving, Listening
<1> QED
  BY <1>1, <1>2

\* When no backup is due, the oldest commit in no backup is no older than the last one.
LEMMA RollKeeps == ASSUME Inv, MaybeRollBackup PROVE Inv'
<1>1. /\ UNCHANGED servingVars /\ UNCHANGED <<file, backups, verified, oldest, from, safe, faults, mode>> /\ pc = "roll"
      /\ \/ RollDue /\ pc' = "copy" /\ purpose' = "roll"
         \/ ~RollDue /\ pc' = "opened" /\ UNCHANGED purpose
  BY DEF MaybeRollBackup, Opening, Disk, servingVars
<1>2. DiskInv'
  BY <1>1, DiskUnchanged DEF Inv, servingVars
<1>3. TxInv' /\ SockInv'
  BY <1>1, OpeningKeeps DEF Starting, Listening, Serving
<1>4. file.present /\ file.good /\ file.version >= build
  BY <1>1 DEF Inv, OpenInv, Listening, Serving
<1>5. ~RollDue /\ file.lastBackup > 0 /\ oldest # 0 => clock - oldest < Interval
  <2>1. oldest # 0 => file.seq > file.backedUp /\ oldest >= file.lastBackup
    BY DEF Inv, DiskInv
  <2>2. file.lastBackup \in Nat /\ oldest \in Nat /\ clock \in Nat /\ Interval \in Nat
    BY DatabaseBounds DEF Inv, DiskInv, DbOk, Db, Typed
  <2> QED
    BY <2>1, <2>2 DEF RollDue, Baseline
<1>6. OpenInv'
  BY <1>1, <1>4, <1>5 DEF OpenInv, servingVars, Listening, Serving
<1>7. Typed'
  BY <1>1 DEF Inv, Typed, servingVars, Starting
<1> QED
  BY <1>2, <1>3, <1>6, <1>7 DEF Inv

LEMMA RolledKeeps == ASSUME Inv, MarkRolled \/ StampRolled PROVE Inv'
<1>1. /\ UNCHANGED servingVars /\ UNCHANGED <<backups, verified, oldest, mode, from, purpose, safe, faults>>
      /\ \/ pc = "mark" /\ pc' = "stamp" /\ file' = [file EXCEPT !.backedUp = file.seq]
         \/ pc = "stamp" /\ pc' = "opened" /\ file' = [file EXCEPT !.lastBackup = clock]
  BY DEF MarkRolled, StampRolled, Opening, servingVars
<1>2. oldest = 0 /\ file.present /\ file.good /\ file.version >= build
  BY <1>1 DEF Inv, OpenInv, Listening, Serving
<1>3. DbOk(file', clock) /\ file'.rows = file.rows /\ file'.present /\ file'.good /\ file'.version = file.version
  <2>1. DbOk([file EXCEPT !.backedUp = file.seq], clock) /\ DbOk([file EXCEPT !.lastBackup = clock], clock)
    BY Facts, ChangedDbOk
  <2>2. file'.rows = file.rows /\ file'.present = file.present /\ file'.good = file.good
        /\ file'.version = file.version
    BY <1>1, Facts DEF Db
  <2> QED
    BY <1>1, <1>2, <2>1, <2>2
<1>4. DiskInv'
  BY <1>1, <1>2, <1>3, FileChanges DEF Inv, servingVars
<1>5. TxInv' /\ SockInv'
  BY <1>1, OpeningKeeps DEF Starting, Listening, Serving
<1>6. OpenInv'
  BY <1>1, <1>2, <1>3 DEF OpenInv, servingVars, Listening, Serving
<1>7. Typed'
  BY <1>1 DEF Inv, Typed, servingVars, Starting
<1> QED
  BY <1>4, <1>5, <1>6, <1>7 DEF Inv

LEMMA OpenedKeeps == ASSUME Inv, Opened PROVE Inv'
<1>1. /\ UNCHANGED servingVars /\ UNCHANGED <<file, backups, verified, oldest, from, purpose, safe, faults>>
      /\ pc = "opened" /\ pc' = "listen" /\ mode' = "ready"
  BY DEF Opened, Opening, Disk, servingVars
<1>2. DiskInv'
  BY <1>1, DiskUnchanged DEF Inv, servingVars
<1>3. TxInv' /\ SockInv'
  BY <1>1, OpeningKeeps DEF Starting, Listening, Serving
<1>4. file.present /\ file.good /\ file.version >= build
  BY <1>1 DEF Inv, OpenInv, Listening, Serving
<1>5. OpenInv'
  BY <1>1, <1>4 DEF OpenInv, servingVars, Listening, Serving
<1> QED
  BY <1>1, <1>2, <1>3, <1>5 DEF Inv, Typed, servingVars, Starting

LEMMA OpenDatabaseKeeps == ASSUME Inv, OpenDatabase PROVE Inv'
BY OpenWritableKeeps, CheckKeeps, CopyKeeps, VerifyKeeps, MigrateKeeps, RecheckKeeps, RollKeeps,
   RolledKeeps, OpenFailsKeeps, OpenedKeeps DEF OpenDatabase

-----------------------------------------------------------------------------
(* startServer and the commands.                                            *)

\* The two listens: nothing is bound by another process.
LEMMA ListenKeeps == ASSUME Inv, Listen PROVE Inv'
<1>1. /\ UNCHANGED <<diskVars, build, clock, faults, mode, from, purpose, historyVars, serveVars>>
      /\ pc \in Listening /\ tx.pc = "none"
  BY DEF Listen, ServeOnly, Inv, TxInv, Listening, Serving
<1>2. sock \in [Socket -> {"absent", "bound", "stale"}]
  BY DEF Inv, Typed
<1>3. /\ sock' \in [Socket -> {"absent", "bound", "stale"}]
      /\ \/ pc = "listen" /\ pc' = "listenStream" /\ sock' = [sock EXCEPT !["control"] = "bound"]
         \/ pc = "listenStream" /\ pc' = "up" /\ sock' = [sock EXCEPT !["stream"] = "bound"]
         \/ pc' = "down" /\ sock' = Gone
  BY <1>2 DEF Listen, Gone, Socket
<1>4. DiskInv'
  BY <1>1, DiskUnchanged DEF Inv
<1>5. SockInv'
  BY <1>2, <1>3 DEF Inv, SockInv, Socket, Gone
<1>6. OpenInv'
  BY <1>1, <1>3 DEF Inv, OpenInv, Listening, Serving
<1> QED
  BY <1>1, <1>3, <1>4, <1>5, <1>6 DEF Inv, Typed, TxInv, Starting, Serving

LEMMA ServeOnlyKeeps ==
  ASSUME Inv, Connect \/ Disconnect \/ Close \/ Exit
  PROVE  Inv'
<1>1. /\ UNCHANGED <<diskVars, build, clock, faults, mode, from, purpose, historyVars, tx, told>>
      /\ pc \in Serving /\ conn' \in BOOLEAN /\ (tx.pc # "none" => conn')
      /\ \/ UNCHANGED <<sock, pc>>
         \/ tx.pc = "none" /\ pc' = "closing" /\ sock' = [s \in Socket |-> "absent"]
         \/ pc = "closing" /\ pc' = "down" /\ UNCHANGED sock /\ ~conn
  BY DEF Connect, Disconnect, Close, Exit, ServeOnly, Serving, Inv, Typed, TxInv
<1>2. DiskInv'
  BY <1>1, DiskUnchanged DEF Inv
<1>3. OpenInv'
  BY <1>1 DEF Inv, OpenInv, Listening, Serving
<1>4. TxInv'
  BY <1>1 DEF Inv, TxInv, Serving, Done
<1>5. SockInv'
  BY <1>1 DEF Inv, SockInv, Serving
<1>6. Typed'
  BY <1>1 DEF Inv, Typed, Starting, Serving
<1> QED
  BY <1>2, <1>3, <1>4, <1>5, <1>6 DEF Inv

\* Until COMMIT a transaction is the process's own.
LEMMA TransactionKeeps ==
  ASSUME Inv, NEW c \in Command, ReplayCommand(c) \/ BeginCommand(c) \/ ReleaseSavepoint \/ RecordResult \/ Rollback
  PROVE  Inv'
<1>1. /\ pc \in Serving /\ UNCHANGED <<diskVars, sock, build, clock, processVars, conn, historyVars>>
      /\ faults' \in 0 .. MaxFaults /\ (told' = told \/ (told' = told \union {c} /\ Done(c)))
      /\ \/ UNCHANGED tx
         \/ conn /\ mode = "ready" /\ ~Done(c) /\ tx' = [pc |-> "inner", cmd |-> c, rows |-> {<<c, "state">>}]
         \/ tx.pc = "inner" /\ tx' = [tx EXCEPT !.pc = "outer"]
         \/ tx.pc = "outer" /\ tx' = [tx EXCEPT !.pc = "recorded", !.rows = @ \union {<<tx.cmd, "result">>}]
         \/ tx' = NoTx
  BY DatabaseBounds DEF ReplayCommand, BeginCommand, ReleaseSavepoint, RecordResult, Rollback, TxOnly, SameFile,
     Released, Routable, Fault, Inv, Typed
<1>2. DiskInv'
  BY <1>1 DEF Inv, DiskInv, Done
<1>3. OpenInv'
  BY <1>1 DEF Inv, OpenInv
<1>4. tx \in [pc : {"none", "inner", "outer", "recorded"}, cmd : Command, rows : SUBSET Row]
  BY DEF Inv, Typed
<1> DEFINE Goal == /\ tx' \in [pc : {"none", "inner", "outer", "recorded"}, cmd : Command, rows : SUBSET Row]
                   /\ TxInv'
<1>5. Goal
  <2>1. <<c, "state">> \in Row /\ <<tx.cmd, "result">> \in Row /\ <<tx.cmd, "state">> \in Row
    BY <1>4 DEF Row
  <2>2. ASSUME UNCHANGED tx PROVE Goal
    BY <1>1, <1>4, <2>2 DEF Inv, TxInv, Done
  <2>3. ASSUME conn, mode = "ready", ~Done(c), tx' = [pc |-> "inner", cmd |-> c, rows |-> {<<c, "state">>}]
        PROVE  Goal
    <3>1. tx'.pc = "inner" /\ tx'.cmd = c /\ tx'.rows = {<<c, "state">>}
      BY <2>3
    <3>2. TxInv'
      BY <1>1, <2>3, <3>1 DEF TxInv, Done
    <3> QED
      BY <2>1, <2>3, <3>2
  <2>4. ASSUME tx.pc = "inner", tx' = [tx EXCEPT !.pc = "outer"] PROVE Goal
    <3>1. tx'.pc = "outer" /\ tx'.cmd = tx.cmd /\ tx'.rows = tx.rows
      BY <1>4, <2>4
    <3>2. TxInv'
      BY <1>1, <2>4, <3>1 DEF Inv, TxInv, Done
    <3> QED
      BY <1>4, <2>4, <3>2
  <2>5. ASSUME tx.pc = "outer", tx' = [tx EXCEPT !.pc = "recorded", !.rows = @ \union {<<tx.cmd, "result">>}]
        PROVE  Goal
    <3>1. tx'.pc = "recorded" /\ tx'.cmd = tx.cmd /\ tx'.rows = {<<tx.cmd, "state">>, <<tx.cmd, "result">>}
      BY <1>4, <2>5 DEF Inv, TxInv
    <3>2. TxInv'
      BY <1>1, <2>5, <3>1 DEF Inv, TxInv, Done
    <3>3. tx.rows \union {<<tx.cmd, "result">>} \in SUBSET Row
      BY <1>4, <2>1
    <3> QED
      BY <1>4, <2>5, <3>2, <3>3
  <2>6. ASSUME tx' = NoTx PROVE Goal
    BY <1>1, <2>6, NoTxIs DEF TxInv
  <2> QED
    BY <1>1, <2>2, <2>3, <2>4, <2>5, <2>6
<1>6. SockInv' /\ Typed'
  BY <1>1, <1>5 DEF Inv, SockInv, Typed
<1> QED
  BY <1>2, <1>3, <1>5, <1>6 DEF Inv

\* COMMIT brings both rows of the command.
LEMMA CommitKeeps == ASSUME Inv, Commit PROVE Inv'
<1> DEFINE added == {<<tx.cmd, "state">>, <<tx.cmd, "result">>}
<1>1. /\ pc \in Serving /\ UNCHANGED <<sock, build, clock, backups, aside, processVars, conn, safe, verified, restored, faults>>
      /\ tx.pc = "recorded" /\ tx' = NoTx
      /\ file' = [file EXCEPT !.rows = @ \union tx.rows, !.seq = @ + 1, !.lastChange = clock]
      /\ oldest' = (IF oldest = 0 THEN clock ELSE oldest)
      /\ told' \in {told, told \union {tx.cmd}}
  BY DEF Commit, TxOnly
<1>2. tx.rows = added /\ tx.cmd \in Command /\ ~Done(tx.cmd) /\ mode = "ready"
  BY <1>1 DEF Inv, TxInv, Typed
<1>3. file' = [file EXCEPT !.rows = @ \union added, !.seq = @ + 1, !.lastChange = clock]
  BY <1>1, <1>2
<1>4. DbOk(file', clock)
  BY <1>2, <1>3, Facts, CommittedDbOk DEF Done
<1>5. /\ file'.rows = file.rows \union added /\ file'.seq = file.seq + 1 /\ file'.present = file.present
      /\ file'.good = file.good /\ file'.version = file.version /\ file'.backedUp = file.backedUp
      /\ file'.lastBackup = file.lastBackup
  BY <1>3, Facts DEF Db
<1>6. file.present /\ file.good /\ file.version >= build
  BY <1>1, <1>2 DEF Inv, OpenInv
<1>7. DiskInv'
  <2>1. oldest' # 0 => file'.present /\ file'.seq > file'.backedUp /\ oldest' >= file'.lastBackup
    BY <1>1, <1>5, <1>6, Facts DEF DbOk, Inv, DiskInv
  <2>2. ~restored' => \A c \in told' : <<c, "result">> \in file'.rows
    <3> HIDE DEF added
    <3>1. ~restored => \A c \in told : <<c, "result">> \in file.rows
      BY DEF Inv, DiskInv
    <3>2. <<tx.cmd, "result">> \in added
      BY DEF added
    <3>3. restored' = restored /\ \A c \in told' : c \in told \/ c = tx.cmd
      BY <1>1
    <3> QED
      BY <1>5, <3>1, <3>2, <3>3
  <2> QED
    BY <1>1, <1>4, <2>1, <2>2 DEF Inv, DiskInv
<1>8. OpenInv'
  BY <1>1, <1>5, <1>6 DEF Inv, OpenInv, Listening, Serving
<1>9. oldest' \in Nat /\ told' \subseteq Command
  BY <1>1, <1>2, Facts DEF Inv, Typed
<1>10. TxInv' /\ SockInv' /\ Typed'
  BY <1>1, <1>9, NoTxIs DEF Inv, TxInv, SockInv, Typed
<1> QED
  BY <1>7, <1>8, <1>10 DEF Inv

LEMMA ServeKeeps == ASSUME Inv, Serve PROVE Inv'
<1>1. \E c \in Command : TRUE
  BY DatabaseBounds
<1> QED
  BY <1>1, ListenKeeps, ServeOnlyKeeps, TransactionKeeps, CommitKeeps DEF Serve

-----------------------------------------------------------------------------
(* The world outside.                                                       *)

LEMMA CrashKeeps == ASSUME Inv, Crash PROVE Inv'
<1>1. /\ UNCHANGED <<diskVars, build, clock, mode, from, purpose, told, historyVars>> /\ faults' \in 0 .. MaxFaults
      /\ pc' = "down" /\ tx' = NoTx /\ conn' = FALSE /\ sock' = Gone
  BY DatabaseBounds DEF Crash, Fault, Inv, Typed
<1>2. sock' \in [Socket -> {"absent", "bound", "stale"}] /\ \A s \in Socket : sock'[s] # "bound"
  BY <1>1 DEF Gone, Inv, Typed
<1>3. DiskInv'
  BY <1>1, DiskUnchanged DEF Inv
<1> QED
  BY <1>1, <1>2, <1>3, NoTxIs DEF Inv, Typed, OpenInv, TxInv, SockInv, Listening, Serving, Starting

LEMMA TickKeeps == ASSUME Inv, Tick PROVE Inv'
<1>1. /\ UNCHANGED <<diskVars, sock, build, faults, processVars, serveVars, historyVars>>
      /\ clock' = clock + 1 /\ clock' \in 1 .. MaxTime + 1 /\ pc # "opened"
  BY Facts, DatabaseBounds DEF Tick, Listening, Serving
<1>2. DbOk(file, clock + 1) /\ \A i \in DOMAIN backups : DbOk(backups[i], clock + 1)
  BY Facts, ChangedDbOk DEF Inv, DiskInv
<1>3. DiskInv'
  BY <1>1, <1>2 DEF Inv, DiskInv
<1> QED
  BY <1>1, <1>3 DEF Inv, Typed, OpenInv, TxInv, SockInv, Done

LEMMA UpgradeKeeps == ASSUME Inv, Upgrade PROVE Inv'
<1>1. /\ UNCHANGED <<diskVars, sock, clock, faults, processVars, serveVars, historyVars>>
      /\ pc = "down" /\ build' \in Version
  BY Facts, DatabaseBounds DEF Upgrade, Version
<1>2. DiskInv'
  BY <1>1, DiskUnchanged DEF Inv
<1> QED
  BY <1>1, <1>2 DEF Inv, Typed, OpenInv, TxInv, SockInv, Done, Listening, Serving

LEMMA FileDamagedOrRestored ==
  ASSUME Inv, Damage \/ RestoreAside \/ RestoreCopy
  PROVE  Inv'
<1>1. /\ UNCHANGED <<backups, sock, build, clock, processVars, serveVars, safe, verified>> /\ pc = "down"
      /\ faults' \in 0 .. MaxFaults /\ aside' \in Nat
  BY DatabaseBounds DEF Damage, RestoreAside, RestoreCopy, Fault, Inv, Typed
<1>2. CASE Damage
  <2>1. DbOk(file', clock) /\ UNCHANGED <<aside, restored, oldest>> /\ file' = [file EXCEPT !.good = FALSE]
    BY <1>2, Facts, ChangedDbOk DEF Damage
  <2>2. /\ file'.rows = file.rows /\ file'.seq = file.seq /\ file'.backedUp = file.backedUp
        /\ file'.lastBackup = file.lastBackup /\ file'.present = file.present
    BY <2>1, Facts DEF Db
  <2> QED
    BY <1>1, <2>1, <2>2 DEF Inv, DiskInv, Typed, OpenInv, TxInv, SockInv, Listening, Serving
<1>3. CASE RestoreAside
  <2>1. DbOk(file', clock) /\ oldest' = 0 /\ restored' = TRUE
    BY <1>3, Facts, NoDbIs DEF RestoreAside
  <2> QED
    BY <1>1, <2>1 DEF Inv, DiskInv, Typed, OpenInv, TxInv, SockInv, Listening, Serving
<1>4. CASE RestoreCopy
  <2>1. UNCHANGED <<aside, restored, oldest>> /\ restored /\ oldest = 0
    BY <1>4 DEF RestoreCopy, Inv, DiskInv, Typed
  <2>2. DbOk(file', clock)
    BY <1>4 DEF RestoreCopy, Inv, DiskInv
  <2> QED
    BY <1>1, <2>1, <2>2 DEF Inv, DiskInv, Typed, OpenInv, TxInv, SockInv, Listening, Serving
<1> QED
  BY <1>2, <1>3, <1>4

LEMMA RemoveSocketsKeeps == ASSUME Inv, RemoveSockets PROVE Inv'
<1>1. /\ UNCHANGED <<diskVars, build, clock, faults, processVars, serveVars, historyVars>>
      /\ pc = "down" /\ sock' = [s \in Socket |-> "absent"]
  BY DEF RemoveSockets
<1>2. DiskInv'
  BY <1>1, DiskUnchanged DEF Inv
<1> QED
  BY <1>1, <1>2 DEF Inv, Typed, OpenInv, TxInv, SockInv, Done

LEMMA StutterKeeps == ASSUME Inv, UNCHANGED vars PROVE Inv'
<1>1. DiskInv'
  BY DiskUnchanged DEF Inv
<1> QED
  BY <1>1 DEF Inv, Typed, OpenInv, TxInv, SockInv, Done

LEMMA NextInv == Inv /\ [Next]_vars => Inv'
BY LaunchKeeps, OpenDatabaseKeeps, ServeKeeps, CrashKeeps, TickKeeps, UpgradeKeeps, FileDamagedOrRestored,
   RemoveSocketsKeeps, StutterKeeps DEF Next, Outside

-----------------------------------------------------------------------------
(* What the invariant shows.                                                *)

LEMMA InvHolds == Spec => []Inv
BY InitInv, NextInv, PTL DEF Spec

\* Every variable has its type, the sockets are bound while a process listens and no
\* longer, and only a Daemon that serves has a transaction, for every value of the
\* constants.
THEOREM DatabaseIsTyped == Spec => []TypeOK
<1>1. Inv => TypeOK
  <2> SUFFICES ASSUME Inv PROVE TypeOK
    OBVIOUS
  <2>1. file \in Db /\ backups \in Seq(Db)
    BY Facts DEF Inv, DiskInv
  <2>2. Typed /\ SockInv /\ TxInv
    BY DEF Inv
  <2> QED
    BY <2>1, <2>2 DEF Typed, SockInv, TxInv, TypeOK, Listening
<1> QED
  BY <1>1, InvHolds, PTL

\* Backups, schema and transactions hold together over any number of crashes, failures,
\* upgrades and restores (openDatabase, verifiedBackup, migrate, transact).
THEOREM DatabaseIsSound == Spec => []DatabaseSound
<1>1. Inv => DatabaseSound
  <2> SUFFICES ASSUME Inv PROVE DatabaseSound
    OBVIOUS
  <2>1. BackupSound
    BY DEF Inv, DiskInv, OpenInv, BackupSound
  <2>2. SchemaSound
    BY Facts DEF Inv, OpenInv, DbOk, SchemaSound
  <2>3. TransactionsSound
    BY Facts DEF Inv, DiskInv, DbOk, TransactionsSound
  <2> QED
    BY <2>1, <2>2, <2>3 DEF DatabaseSound
<1> QED
  BY <1>1, InvHolds, PTL

\* A damaged file is written by the connection that finds it damaged, as it opens and closes
\* it, and by no other step; read-only recovery writes none at all (openDatabase,
\* ReadOnlyRecoveryCommandRouter).
THEOREM RecoveryIsReadOnly == Spec => RecoveryPreserves
<1> DEFINE Moved == ~file'.present /\ aside' = aside + 1
           Marked == pc \in {"open", "check"} /\ file' = [file EXCEPT !.written = TRUE]
           Damaged == file.present /\ ~file.good /\ file' # file => Moved \/ Marked
           ReadOnly == pc \in Serving /\ mode = "recovery" => file' = file /\ tx'.pc = "none"
<1>1. ASSUME Inv, Next PROVE Damaged
  <2>1. CASE Launch
    BY <2>1 DEF Launch
  <2>2. CASE OpenDatabase
    <3>1. CASE OpenWritable \/ IntegrityCheck
      <4>1. SUFFICES ASSUME file.present, file' # file PROVE file.good \/ Marked
        OBVIOUS
      <4>2. [file EXCEPT !.present = TRUE] = file
        BY <4>1, Facts, <1>1 DEF Db
      <4>3. file' \in Touched(file) /\ pc \in {"open", "check"}
        BY <3>1, <4>1, <4>2 DEF OpenWritable, IntegrityCheck, Opening
      <4> QED
        BY <4>1, <4>3 DEF Touched
    <3>2. CASE OpenFails \/ Recheck
      <4>1. file' \in Touched(file) /\ pc \in Starting \ {"open", "opened", "listen", "listenStream"}
        BY <3>2 DEF OpenFails, Recheck, Opening, Touched, Starting
      <4>2. pc # "check" => file.good
        BY <1>1, <4>1 DEF Inv, OpenInv, Listening, Serving, Starting
      <4> QED
        BY <4>1, <4>2 DEF Touched
    <3>3. CASE CopyFile \/ VerifyBackup \/ Migrate \/ MaybeRollBackup \/ MarkRolled \/ StampRolled
               \/ Opened
      BY <1>1, <3>3 DEF Inv, OpenInv, CopyFile, VerifyBackup, Migrate, MaybeRollBackup,
         MarkRolled, StampRolled, Opened, Opening, Disk, Listening, Serving
    <3> QED
      BY <2>2, <3>1, <3>2, <3>3 DEF OpenDatabase
  <2>3. CASE Serve
    <3>1. file' = file \/ Commit
      BY <2>3 DEF Serve, Listen, Connect, Disconnect, Close, Exit, ServeOnly, ReplayCommand, BeginCommand, SameFile,
         ReleaseSavepoint, Released, RecordResult, Rollback
    <3>2. Commit => file.good
      BY <1>1 DEF Commit, TxOnly, Inv, TxInv, OpenInv
    <3> QED
      BY <3>1, <3>2
  <2>4. CASE Outside
    <3>1. file' = file \/ ~file.present \/ file.good \/ RestoreAside
      BY <2>4 DEF Outside, Crash, Tick, Upgrade, Damage, RestoreCopy, RemoveSockets
    <3>2. RestoreAside => ~file'.present /\ aside' = aside + 1
      BY NoDbIs DEF RestoreAside
    <3> QED
      BY <3>1, <3>2
  <2> QED
    BY <1>1, <2>1, <2>2, <2>3, <2>4 DEF Next
<1>2. ASSUME Inv, Next PROVE ReadOnly
  <2> SUFFICES ASSUME pc \in Serving, mode = "recovery" PROVE file' = file /\ tx'.pc = "none"
    OBVIOUS
  <2>1. tx.pc = "none"
    BY <1>2 DEF Inv, TxInv
  <2>2. ~Launch /\ ~OpenDatabase
    BY DEF Launch, OpenDatabase, OpenWritable, IntegrityCheck, CopyFile, VerifyBackup, Migrate, Recheck,
       MaybeRollBackup, MarkRolled, StampRolled, OpenFails, Opened, Opening, Serving
  <2>3. CASE Serve
    BY <2>1, <2>3 DEF Serve, Listen, Connect, Disconnect, Close, Exit, ServeOnly, ReplayCommand, BeginCommand, Routable,
       ReleaseSavepoint, RecordResult, Commit, Rollback
  <2>4. CASE Outside
    BY <2>1, <2>4, NoTxIs DEF Outside, Crash, Tick, Upgrade, Damage, RestoreAside, RestoreCopy, RemoveSockets, Serving
  <2> QED
    BY <1>2, <2>2, <2>3, <2>4 DEF Next
<1>3. ASSUME Inv, [Next]_vars PROVE [Damaged /\ ReadOnly]_vars
  BY <1>1, <1>2, <1>3
<1> QED
  BY <1>3, InvHolds, PTL DEF Spec, RecoveryPreserves

\* Without a restore the rows only grow and the schema only moves forward.
Forward == file.rows \subseteq file'.rows /\ file'.version >= file.version

LEMMA FileForward == ASSUME Inv, [Next]_vars PROVE restored' \/ Forward
<1>0. file \in Db /\ file.version \in Nat
  BY Facts
<1>1. ASSUME file' = file PROVE Forward
  BY <1>0, <1>1 DEF Forward
<1>2. CASE OpenDatabase
  <2>1. CASE OpenWritable \/ OpenFails \/ IntegrityCheck \/ Recheck
    <3>1. file' \in Touched(file) \/ file' \in Touched([file EXCEPT !.present = TRUE])
      BY <2>1 DEF OpenWritable, OpenFails, IntegrityCheck, Recheck, Touched
    <3> DEFINE there == [file EXCEPT !.present = TRUE]
    <3>2. there.rows = file.rows /\ there.version = file.version /\ there \in Db
      BY <1>0 DEF Db
    <3>3. \A db \in Db : \A new \in Touched(db) : new.rows = db.rows /\ new.version = db.version
      <4> SUFFICES ASSUME NEW db \in Db, NEW new \in Touched(db)
                   PROVE  new.rows = db.rows /\ new.version = db.version
        OBVIOUS
      <4>1. new = db \/ new = [db EXCEPT !.written = TRUE]
        BY DEF Touched
      <4> QED
        BY <4>1 DEF Db
    <3> HIDE DEF there
    <3>4. file'.rows = file.rows /\ file'.version = file.version
      BY <1>0, <3>1, <3>2, <3>3 DEF there
    <3> QED
      BY <1>0, <3>4 DEF Forward
  <2>2. CASE Migrate
    <3>1. /\ Migrated(file, file.version + 1).rows = file.rows
          /\ Migrated(file, file.version + 1).version = file.version + 1
      BY <1>0 DEF Migrated, Db
    <3>2. file' = file \/ file' = Migrated(file, file.version + 1)
      BY <2>2 DEF Migrate
    <3>3. file.version + 1 >= file.version
      BY <1>0
    <3> QED
      BY <1>1, <3>1, <3>2, <3>3 DEF Forward
  <2>3. CASE MarkRolled \/ StampRolled
    BY <1>0, <2>3 DEF MarkRolled, StampRolled, Forward, Db
  <2>4. CASE CopyFile \/ VerifyBackup \/ MaybeRollBackup \/ Opened
    BY <1>1, <2>4 DEF CopyFile, VerifyBackup, MaybeRollBackup, Opened, Disk
  <2> QED
    BY <1>2, <2>1, <2>2, <2>3, <2>4 DEF OpenDatabase
<1>3. CASE Serve
  <2>1. CASE Commit
    BY <1>0, <2>1 DEF Commit, Forward, Db
  <2>2. CASE ~Commit
    BY <1>1, <1>3, <2>2 DEF Serve, Listen, Connect, Disconnect, Close, Exit, ServeOnly, ReplayCommand,
       BeginCommand, SameFile, ReleaseSavepoint, Released, RecordResult, Rollback
  <2> QED
    BY <2>1, <2>2
<1>4. CASE Outside
  <2>1. CASE Damage
    BY <1>0, <2>1 DEF Damage, Forward, Db
  <2>2. CASE RestoreAside \/ RestoreCopy
    BY <2>2 DEF RestoreAside, RestoreCopy, Inv, DiskInv
  <2>3. CASE Crash \/ Tick \/ Upgrade \/ RemoveSockets
    BY <1>1, <2>3 DEF Crash, Tick, Upgrade, RemoveSockets
  <2> QED
    BY <1>4, <2>1, <2>2, <2>3 DEF Outside
<1>5. CASE Launch \/ UNCHANGED vars
  BY <1>1, <1>5 DEF Launch
<1> QED
  BY <1>2, <1>3, <1>4, <1>5 DEF Next

LEMMA RestoredStays == ASSUME [Next]_vars, restored PROVE restored'
<1>1. CASE Launch \/ OpenDatabase
  BY <1>1 DEF Launch, OpenDatabase, OpenWritable, IntegrityCheck, CopyFile, VerifyBackup, Migrate, Recheck,
     MaybeRollBackup, MarkRolled, StampRolled, OpenFails, Opened, Opening
<1>2. CASE Serve
  BY <1>2 DEF Serve, Listen, Connect, Disconnect, Close, Exit, ServeOnly, ReplayCommand, BeginCommand,
     TxOnly, ReleaseSavepoint, RecordResult, Commit, Rollback
<1>3. CASE Outside
  BY <1>3 DEF Outside, Crash, Tick, Upgrade, Damage, RestoreAside, RestoreCopy, RemoveSockets
<1> QED
  BY <1>1, <1>2, <1>3 DEF Next

\* What a command has committed stays in the database, state and result, answered or not,
\* and a migrated schema never goes back: no crash, failed step, upgrade or rolled-back
\* transaction undoes it, unless somebody restores a backup (transact, migrate, openDatabase).
\* A damaged file is counted with the rows it had: the statement is about what the Daemon
\* does to it, not about what can still be read.
THEOREM CommittedIsKept ==
  ASSUME NEW c \in Command, NEW v \in Nat
  PROVE  Spec => [](<<c, "result">> \in file.rows /\ file.version >= v
                      => [](\/ restored
                            \/ /\ {<<c, "state">>, <<c, "result">>} \subseteq file.rows
                               /\ file.version >= v))
<1> DEFINE Held == restored \/ (<<c, "result">> \in file.rows /\ file.version >= v)
           Whole == \/ restored
                    \/ /\ {<<c, "state">>, <<c, "result">>} \subseteq file.rows
                       /\ file.version >= v
<1>1. Inv /\ Inv' /\ Held /\ [Next]_vars => Held'
  <2> SUFFICES ASSUME Inv, Inv', Held, [Next]_vars PROVE Held'
    OBVIOUS
  <2>1. CASE restored
    BY <2>1, RestoredStays
  <2>2. CASE Forward /\ ~restored
    <3>1. file' \in Db
      BY DEF Inv, DiskInv, DbOk
    <3>2. file.version \in Nat /\ file'.version \in Nat
      BY <3>1, Facts, DatabaseBounds DEF Db, Version
    <3> QED
      BY <2>2, <3>2 DEF Forward
  <2> QED
    BY <2>1, <2>2, FileForward
<1>2. Inv /\ Held => Whole
  BY DEF Inv, DiskInv, DbOk
<1>3. <<c, "result">> \in file.rows /\ file.version >= v => Held
  OBVIOUS
<1> HIDE DEF Held
<1> QED
  BY <1>1, <1>2, <1>3, InvHolds, PTL DEF Spec
================================================================================
