----------------------------- MODULE FleetDatabase -----------------------------
(***************************************************************************)
(* The Fleet database over the life of many Daemon processes: it is        *)
(* opened, checked, backed up, migrated and rolled, then served by a       *)
(* Daemon that listens on two sockets and commits commands in nested       *)
(* transactions; a process dies between any two of these steps, a step     *)
(* fails, the file is found damaged, a newer build is installed, a backup  *)
(* is restored.                                                            *)
(*                                                                         *)
(* A database is one value: what a checkpoint leaves in the file.  WAL and *)
(* synchronous=FULL make a COMMIT durable at once and anything before it   *)
(* void.  A backup file is a database too, its meta rows included.         *)
(***************************************************************************)
EXTENDS Integers, Sequences, FiniteSets

CONSTANTS
  Command,      \* commands a client sends
  NVersion,     \* bound: schema versions a build can have
  Keep,         \* backups kept: 3 in the code
  Interval,     \* ticks of the rolling interval: 24 hours in the code
  MaxTime,      \* bound of the clock
  MaxFaults     \* bound: crashes, failed steps, damages and restores

ASSUME DatabaseBounds ==
  Command # {} /\ NVersion \in Nat \ {0} /\ Keep \in Nat \ {0} /\ Interval \in Nat \ {0}
  /\ MaxTime \in Nat /\ MaxFaults \in Nat

Version == 1 .. NVersion
Time == 0 .. MaxTime
Socket == {"control", "stream"}

VARIABLES
  file,      \* fleet.db
  backups,   \* backups/<stamp>.db, oldest first
  aside,     \* damaged samples moved away by a restore
  sock,      \* the socket files
  build,     \* newest migration of the installed Daemon
  clock, faults,
  pc,        \* how far the running process is; "down" when there is none
  mode,      \* what openDatabase returned
  from,      \* schema version found on open
  purpose,   \* what the backup being written is for
  tx,        \* the open transaction
  conn,      \* a client's control connection is open
  told,      \* history: commands answered
  safe,      \* history: the database when the migration began
  verified,  \* history: a backup has been verified
  oldest,    \* history: time of the oldest commit in no good backup, 0: none
  restored   \* history: a restore was begun

diskVars    == <<file, backups, aside>>
processVars == <<pc, mode, from, purpose>>
serveVars   == <<tx, conn, told>>
historyVars == <<safe, verified, oldest, restored>>
vars == <<diskVars, sock, build, clock, faults, processVars, serveVars, historyVars>>

Row == Command \X {"state", "result"}
\* written: a writable connection has written to the file after it was damaged.
Db == [present : BOOLEAN, good : BOOLEAN, written : BOOLEAN, version : {0} \union Version,
       tables : SUBSET Version, rows : SUBSET Row, seq : Nat, backedUp : Nat, lastBackup : Nat, lastChange : Nat]
NoDb == [present |-> FALSE, good |-> TRUE, written |-> FALSE, version |-> 0, tables |-> {},
         rows |-> {}, seq |-> 0, backedUp |-> 0, lastBackup |-> 0, lastChange |-> 0]
NoTx == [pc |-> "none", cmd |-> CHOOSE c \in Command : TRUE, rows |-> {}]

Starting == {"open", "check", "copy", "verify", "migrate", "recheck", "roll", "mark", "stamp",
             "opened", "listen", "listenStream"}
Serving == {"up", "closing"}

TypeOK ==
  /\ file \in Db /\ backups \in Seq(Db) /\ aside \in Nat
  /\ sock \in [Socket -> {"absent", "bound", "stale"}]
  /\ build \in Version /\ clock \in 1 .. MaxTime + 1 /\ faults \in 0 .. MaxFaults
  /\ pc \in {"down"} \union Starting \union Serving
  /\ mode \in {"none", "ready", "recovery"}
  /\ from \in {0} \union Version /\ purpose \in {"migrate", "roll"}
  /\ tx \in [pc : {"none", "inner", "outer", "recorded"}, cmd : Command, rows : SUBSET Row]
  /\ conn \in BOOLEAN /\ told \subseteq Command
  /\ safe \in Db /\ verified \in BOOLEAN /\ oldest \in Nat /\ restored \in BOOLEAN
  \* a process that listens has both sockets, one that is gone has none bound
  /\ pc = "up" => \A s \in Socket : sock[s] = "bound"
  /\ pc = "down" => \A s \in Socket : sock[s] # "bound"
  /\ tx.pc # "none" => mode = "ready" /\ pc \in Serving

\* The first installation: nothing on disk.
Init ==
  /\ file = NoDb /\ backups = <<>> /\ aside = 0
  /\ sock = [s \in Socket |-> "absent"]
  /\ build = 1 /\ clock = 1 /\ faults = 0
  /\ pc = "down" /\ mode = "none" /\ from = 0 /\ purpose = "migrate"
  /\ tx = NoTx /\ conn = FALSE /\ told = {}
  /\ safe = NoDb /\ verified = FALSE /\ oldest = 0 /\ restored = FALSE

Fault == faults < MaxFaults /\ faults' = faults + 1

-----------------------------------------------------------------------------
(* openDatabase.                                                            *)

Opening(at) == pc = at /\ UNCHANGED <<aside, sock, build, clock, serveVars, restored>>
Disk == UNCHANGED <<file, backups, verified, oldest>>

\* What the Daemon serves then: the read-only router, with nothing reconciled.
ServeRecovery == pc' = "listen" /\ mode' = "recovery"
\* recovery(): the file is opened for reading, if it can be.
Recovery == ServeRecovery /\ UNCHANGED <<from, purpose, safe>>

Launch ==
  /\ pc = "down" /\ pc' = "open" /\ mode' = "none"
  /\ UNCHANGED <<diskVars, sock, build, clock, faults, from, purpose, serveVars, historyVars>>

\* What a writable connection may leave of a file: opening it sets WAL, creates the meta
\* table and its missing rows, closing it checkpoints.  In a good file that is what it
\* holds anyway; a damaged one is not the file it was.
Touched(db) == IF db.good THEN {db} ELSE {db, [db EXCEPT !.written = TRUE]}

\* The file is written before it is checked.  A damaged one may already fail here; a
\* missing one is created, with its meta rows.
OpenWritable ==
  /\ Opening("open") /\ UNCHANGED <<backups, verified, oldest, faults>>
  /\ \/ /\ ~file.good /\ file' \in Touched(file) /\ Recovery
     \/ /\ file' \in Touched([file EXCEPT !.present = TRUE])
        /\ pc' = "check" /\ UNCHANGED <<mode, from, purpose, safe>>

\* Bug: the answer of the check is not looked at.
BugIntegrityOk(db) == TRUE
IntegrityOk(db) == db.good

IntegrityCheck ==
  /\ Opening("check") /\ UNCHANGED <<backups, verified, oldest, faults>>
  /\ \/ /\ ~IntegrityOk(file) /\ file' \in Touched(file) /\ Recovery
     \/ /\ IntegrityOk(file) /\ file' = file
        /\ from' = file.version /\ mode' = mode
        /\ IF file.version < build
           THEN pc' = "copy" /\ purpose' = "migrate" /\ safe' = file
           ELSE pc' = "roll" /\ UNCHANGED <<purpose, safe>>

\* verifiedBackup: the checkpoint and the copy; a copy cut short is a file as well.
CopyFile ==
  /\ Opening("copy") /\ UNCHANGED <<file, verified, oldest, mode, from, purpose, safe, faults>>
  /\ backups' = Append(backups, [file EXCEPT !.good = FALSE])
  /\ pc' = "verify"

\* Bug: the oldest ones are kept.
BugKept(files) == SubSeq(files, 1, IF Len(files) < Keep THEN Len(files) ELSE Keep)
\* pruneBackups: what is left of the sorted files.
Kept(files) == SubSeq(files, IF Len(files) > Keep THEN Len(files) - Keep + 1 ELSE 1, Len(files))

\* The copy is complete, reopened and checked; then older ones go.
VerifyBackup ==
  /\ Opening("verify") /\ UNCHANGED <<file, mode, from, purpose, safe, faults>>
  /\ backups' = Kept([backups EXCEPT ![Len(backups)] = file])
  /\ verified' = TRUE /\ oldest' = 0
  /\ pc' = IF purpose = "migrate" THEN "migrate" ELSE "mark"

\* Bug: the first migration already claims the build's version.
BugMigrated(db, v) == [db EXCEPT !.tables = @ \union {v}, !.version = build]
\* One migration: its tables and user_version, in one transaction.
Migrated(db, v) == [db EXCEPT !.tables = @ \union {v}, !.version = v]

Migrate ==
  /\ Opening("migrate") /\ UNCHANGED <<backups, verified, oldest, mode, from, purpose, safe,
                                       faults>>
  /\ \/ /\ file.version < build /\ pc' = pc
        /\ file' = Migrated(file, file.version + 1)
     \/ /\ file.version >= build /\ pc' = "recheck" /\ file' = file

Recheck ==
  /\ Opening("recheck") /\ UNCHANGED <<backups, verified, oldest, faults>>
  /\ \/ /\ ~IntegrityOk(file) /\ file' \in Touched(file) /\ Recovery
     \/ /\ IntegrityOk(file) /\ file' = file /\ pc' = "roll"
        /\ UNCHANGED <<mode, from, purpose, safe>>

\* maybeRollBackup: changed since the last one, and the interval has passed since it
\* or, before there is one, since the last change.
Baseline == IF file.lastBackup > 0 THEN file.lastBackup ELSE file.lastChange
RollDue == file.seq > file.backedUp /\ clock - Baseline >= Interval

MaybeRollBackup ==
  /\ Opening("roll") /\ Disk /\ UNCHANGED <<from, safe, faults, mode>>
  /\ \/ RollDue /\ pc' = "copy" /\ purpose' = "roll"
     \/ ~RollDue /\ pc' = "opened" /\ UNCHANGED purpose

\* The two meta rows are written one after the other, and not into the backup.
MarkRolled ==
  /\ Opening("mark") /\ UNCHANGED <<backups, verified, oldest, mode, from, purpose, safe, faults>>
  /\ file' = [file EXCEPT !.backedUp = file.seq] /\ pc' = "stamp"
StampRolled ==
  /\ Opening("stamp") /\ UNCHANGED <<backups, verified, oldest, mode, from, purpose, safe, faults>>
  /\ file' = [file EXCEPT !.lastBackup = clock] /\ pc' = "opened"

\* Every await-free step of openDatabase may throw: all end in recovery, whatever the
\* step was for, after the connection is closed.
OpenFails ==
  /\ \E at \in {"check", "copy", "verify", "migrate", "recheck", "mark", "stamp"} : Opening(at)
  /\ Fault /\ UNCHANGED <<backups, verified, oldest>>
  /\ file' \in Touched(file) /\ Recovery

\* The components are built and Reconciliation runs before anything listens.
Opened ==
  /\ Opening("opened") /\ Disk /\ UNCHANGED <<from, purpose, safe, faults>>
  /\ mode' = "ready" /\ pc' = "listen"

OpenDatabase ==
  \/ OpenWritable \/ IntegrityCheck \/ CopyFile \/ VerifyBackup \/ Migrate \/ Recheck
  \/ MaybeRollBackup \/ MarkRolled \/ StampRolled \/ OpenFails \/ Opened

-----------------------------------------------------------------------------
(* startServer and the commands.                                            *)

ServeOnly == UNCHANGED <<diskVars, build, clock, faults, mode, from, purpose, historyVars>>
Gone == [s \in Socket |-> IF sock[s] = "bound" THEN "stale" ELSE sock[s]]

\* A socket file that is there makes listen fail, and with it the process, which
\* leaves what it has bound.
Listen ==
  /\ pc \in {"listen", "listenStream"} /\ ServeOnly /\ UNCHANGED serveVars
  /\ LET s == IF pc = "listen" THEN "control" ELSE "stream"
     IN \/ /\ sock[s] = "absent" /\ sock' = [sock EXCEPT ![s] = "bound"]
           /\ pc' = IF s = "control" THEN "listenStream" ELSE "up"
        \/ /\ sock[s] = "stale" /\ sock' = Gone /\ pc' = "down"

Connect ==
  /\ pc = "up" /\ ~conn /\ conn' = TRUE
  /\ ServeOnly /\ UNCHANGED <<sock, pc, tx, told>>
Disconnect ==
  /\ conn /\ pc \in Serving /\ tx.pc = "none" /\ conn' = FALSE
  /\ ServeOnly /\ UNCHANGED <<sock, pc, tx, told>>

\* Bug: read-only recovery is not looked at.
BugRoutable(c) == TRUE
\* ReadOnlyRecoveryCommandRouter and the trust router refuse every write.
Routable(c) == mode = "ready"

Done(c) == <<c, "result">> \in file.rows

TxOnly == pc \in Serving /\ UNCHANGED <<sock, build, clock, backups, aside, processVars, conn, safe,
                                        verified, restored>>
SameFile == UNCHANGED <<file, oldest, faults>>

\* A command already recorded is answered from its record.
ReplayCommand(c) ==
  /\ TxOnly /\ SameFile /\ tx.pc = "none" /\ conn /\ Routable(c) /\ Done(c)
  /\ told' = told \union {c} /\ UNCHANGED tx

\* BEGIN IMMEDIATE, then a store method's SAVEPOINT and its write.
BeginCommand(c) ==
  /\ TxOnly /\ SameFile /\ tx.pc = "none" /\ conn /\ Routable(c) /\ ~Done(c)
  /\ tx' = [pc |-> "inner", cmd |-> c, rows |-> {<<c, "state">>}] /\ UNCHANGED told

\* Bug: RELEASE makes the inner work durable.
BugReleased(db) == [db EXCEPT !.rows = @ \union tx.rows]
\* RELEASE SAVEPOINT keeps it in the outer transaction only.
Released(db) == db

ReleaseSavepoint ==
  /\ TxOnly /\ tx.pc = "inner" /\ tx' = [tx EXCEPT !.pc = "outer"]
  /\ file' = Released(file) /\ UNCHANGED <<told, oldest, faults>>

\* idempotency.record, in the same outer transaction.
RecordResult ==
  /\ TxOnly /\ SameFile /\ tx.pc = "outer"
  /\ tx' = [tx EXCEPT !.pc = "recorded", !.rows = @ \union {<<tx.cmd, "result">>}]
  /\ UNCHANGED told

\* The change counter is bumped inside the outermost transaction; the client is
\* answered after it.
Commit ==
  /\ TxOnly /\ tx.pc = "recorded" /\ tx' = NoTx
  /\ file' = [file EXCEPT !.rows = @ \union tx.rows, !.seq = @ + 1, !.lastChange = clock]
  /\ oldest' = IF oldest = 0 THEN clock ELSE oldest
  /\ \/ told' = told \union {tx.cmd}
     \/ told' = told           \* the answer is lost
  /\ UNCHANGED faults

\* ROLLBACK TO and RELEASE, then ROLLBACK: the error passes every level.
Rollback ==
  /\ TxOnly /\ tx.pc # "none" /\ tx' = NoTx /\ Fault /\ UNCHANGED <<file, oldest, told>>

\* SIGTERM: both servers stop listening at once and the process ends with the last
\* connection.
Close ==
  /\ pc = "up" /\ tx.pc = "none" /\ pc' = "closing" /\ sock' = [s \in Socket |-> "absent"]
  /\ ServeOnly /\ UNCHANGED serveVars
Exit ==
  /\ pc = "closing" /\ ~conn /\ pc' = "down" /\ ServeOnly /\ UNCHANGED <<sock, serveVars>>

Serve ==
  \/ Listen \/ Connect \/ Disconnect \/ Close \/ Exit
  \/ \E c \in Command : ReplayCommand(c) \/ BeginCommand(c)
  \/ ReleaseSavepoint \/ RecordResult \/ Commit \/ Rollback

-----------------------------------------------------------------------------
(* The world outside.                                                       *)

Crash ==
  /\ pc # "down" /\ Fault
  /\ pc' = "down" /\ tx' = NoTx /\ conn' = FALSE /\ sock' = Gone
  /\ UNCHANGED <<diskVars, build, clock, mode, from, purpose, told, historyVars>>

\* A tick is hours, and openDatabase is one synchronous call: time passes outside of it.
Tick ==
  /\ clock <= MaxTime /\ clock' = clock + 1
  /\ pc \in {"down", "open", "listen", "listenStream"} \union Serving
  /\ UNCHANGED <<diskVars, sock, build, faults, processVars, serveVars, historyVars>>

Upgrade ==
  /\ pc = "down" /\ build < NVersion /\ \E v \in build + 1 .. NVersion : build' = v
  /\ UNCHANGED <<diskVars, sock, clock, faults, processVars, serveVars, historyVars>>

Damage ==
  /\ pc = "down" /\ file.present /\ file.good /\ Fault
  /\ file' = [file EXCEPT !.good = FALSE]
  /\ UNCHANGED <<backups, aside, sock, build, clock, processVars, serveVars, historyVars>>

\* restoreFromBackup, which nothing in the Daemon calls: the backup is verified, the
\* damaged files are moved away, then the backup is copied.
RestoreAside ==
  /\ pc = "down" /\ file.present /\ Fault
  /\ \E i \in DOMAIN backups : IntegrityOk(backups[i])
  /\ file' = NoDb /\ aside' = aside + 1 /\ restored' = TRUE /\ oldest' = 0
  /\ UNCHANGED <<backups, sock, build, clock, processVars, serveVars, safe, verified>>
RestoreCopy ==
  /\ pc = "down" /\ aside > 0 /\ ~file.present
  /\ \E i \in DOMAIN backups : IntegrityOk(backups[i]) /\ file' = backups[i]
  /\ UNCHANGED <<backups, aside, sock, build, clock, faults, processVars, serveVars, historyVars>>

\* Somebody deletes the socket files a dead Daemon left.
RemoveSockets ==
  /\ pc = "down" /\ \E s \in Socket : sock[s] = "stale"
  /\ sock' = [s \in Socket |-> "absent"]
  /\ UNCHANGED <<diskVars, build, clock, faults, processVars, serveVars, historyVars>>

Outside == Crash \/ Tick \/ Upgrade \/ Damage \/ RestoreAside \/ RestoreCopy \/ RemoveSockets

Next == Launch \/ OpenDatabase \/ Serve \/ Outside

Spec == Init /\ [][Next]_vars

\* launchd starts the Daemon again whenever it is gone, and a running one goes on.
FairSpec == Spec /\ WF_vars(Launch) /\ WF_vars(OpenDatabase) /\ WF_vars(Listen)

-----------------------------------------------------------------------------
\* Once a backup was verified a good one is always left, whatever copies a crash cut
\* short; while the schema is being migrated one of them is the database the migration
\* began with; and after the first rolled backup no commit is older than the interval
\* and in no backup when the database has been opened (RT-STO-07: verifiedBackup,
\* pruneBackups, maybeRollBackup).
BackupSound ==
  /\ verified => \E i \in DOMAIN backups : backups[i].good
  /\ pc \in {"migrate", "recheck"} => \E i \in DOMAIN backups : backups[i] = safe
  /\ pc = "opened" /\ file.lastBackup > 0 => oldest = 0 \/ clock - oldest < Interval

\* Whatever process died in whatever migration, the tables are those of the version the
\* file states, and a Daemon that serves has the schema of its build and a good file
\* (RT-STO-05: migrate, openDatabase).
SchemaSound ==
  /\ file.tables = 1 .. file.version
  /\ pc \in Serving /\ mode = "ready" => file.good /\ file.version >= build

\* State and result of a command are there together or not at all, in the file and in
\* every backup, the counter counts the commits, and no answered command is lost unless
\* a backup was restored (RT-STO-01, RT-INV-07: transact).
TransactionsSound ==
  /\ \A db \in {file} \union {backups[i] : i \in DOMAIN backups} :
       /\ \A c \in Command : <<c, "state">> \in db.rows <=> <<c, "result">> \in db.rows
       /\ 2 * db.seq = Cardinality(db.rows)
  /\ ~restored => \A c \in told : <<c, "result">> \in file.rows

\* Nothing committed is lost or half there: backups, schema and rows hold together, over
\* crashes at every step of openDatabase and of a command.
DatabaseSound == BackupSound /\ SchemaSound /\ TransactionsSound

\* A damaged database is written by nothing but the connection that finds it damaged, as
\* it opens and closes the file: no backup mark, migration or command ever reaches it, and
\* it only goes by being moved aside.  A Daemon in read-only recovery writes nothing
\* (RT-STO-06, RT-STATE-27: openDatabase, ReadOnlyRecoveryCommandRouter).
RecoveryPreserves ==
  [][ /\ file.present /\ ~file.good /\ file' # file =>
           \/ ~file'.present /\ aside' = aside + 1
           \/ pc \in {"open", "check"} /\ file' = [file EXCEPT !.written = TRUE]
      /\ pc \in Serving /\ mode = "recovery" => file' = file /\ tx'.pc = "none" ]_vars

\* RT-REC-07: a Daemon that has died is brought up again, and serves.
RestartServes == pc = "down" ~> pc = "up"
================================================================================
