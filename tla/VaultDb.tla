------------------------------- MODULE VaultDb -------------------------------
(***************************************************************************)
(* Opening the vault's database: src/src/main/store/db.ts.  getSqlite()     *)
(* brings an older file up to the current schema -- missing columns are     *)
(* added one by one, and a hosts table whose CHECK on kind predates RDP is  *)
(* rebuilt in one transaction after a snapshot -- and publishes its handle  *)
(* only then.                                                               *)
(*                                                                         *)
(* A step is one statement of SQLite or one call of the file system.  The   *)
(* process may die before any of them, a statement may fail (disk full,     *)
(* locked, read-only), and a second process ("a dev build alongside the     *)
(* packaged app") may be at it too.  What SQLite promises is external: a    *)
(* statement outside of a transaction is atomic and durable, a transaction  *)
(* is all or nothing, and it excludes other writers.                        *)
(***************************************************************************)
EXTENDS Naturals, Sequences, FiniteSets

CONSTANTS
  Proc,        \* processes that may open the file
  Row,         \* host rows
  Columns,     \* the columns added after the first release, in ensureColumn's order
  Versions,    \* app versions, oldest first
  NameOrder,   \* their backups in the order of sort()
  MaxBackups,  \* MAX_DB_BACKUPS
  OldFiles,    \* the database files a first start may find
  MaxStarts,   \* bound: starts of the app
  Free         \* nobody writes

Version == {Versions[n] : n \in DOMAIN Versions}

VARIABLES
  file,      \* the hosts table as committed
  bak,       \* per version, the rows in its snapshot, or None
  pc,        \* where each process is in getSqlite()
  at,        \* the column it is at
  version,   \* the version it runs
  warned,    \* it has logged that the snapshot could not be made
  work,      \* the table inside its transaction
  writer,    \* the process whose transaction is open
  starts,    \* history: starts of the app
  shared     \* history: the processes that were not alone at the file

vars == <<file, bak, pc, at, version, warned, work, writer, starts, shared>>

NoBackup == [rows |-> {}, some |-> FALSE]
NoWork == [rows |-> {}, dropped |-> FALSE]

Init ==
  /\ file \in OldFiles
  /\ bak = [v \in Version |-> NoBackup]
  /\ pc = [p \in Proc |-> "closed"] /\ at = [p \in Proc |-> 1]
  /\ version = [p \in Proc |-> Versions[1]]
  /\ warned = {} /\ work = NoWork /\ writer = Free
  /\ starts = 0 /\ shared = {}

Goto(p, l) == pc' = [pc EXCEPT ![p] = l]
MayWrite(p) == writer \in {p, Free}

\* new Database(), its pragmas and the DDL, which creates what is not there.
Open(p, v) ==
  /\ pc[p] = "closed" /\ starts < MaxStarts
  /\ starts' = starts + 1
  /\ version' = [version EXCEPT ![p] = v] /\ warned' = warned \ {p}
  /\ at' = [at EXCEPT ![p] = 1]
  /\ LET others == {q \in Proc \ {p} : pc[q] # "closed"}
     IN shared' = IF others = {} THEN shared \ {p} ELSE shared \cup others \cup {p}
  /\ Goto(p, "columns")
  /\ UNCHANGED <<file, bak, work, writer>>

\* ensureColumn(): table_info is read, then the column is added.
ReadColumn(p) ==
  /\ pc[p] = "columns"
  /\ IF at[p] > Len(Columns)
     THEN Goto(p, "check") /\ UNCHANGED at
     ELSE IF Columns[at[p]] \in file.cols
          THEN at' = [at EXCEPT ![p] = @ + 1] /\ UNCHANGED pc
          ELSE Goto(p, "alter") /\ UNCHANGED at
  /\ UNCHANGED <<file, bak, version, warned, work, writer, starts, shared>>

\* ALTER TABLE fails on a column another process has added meanwhile.
AddColumn(p) ==
  /\ pc[p] = "alter" /\ MayWrite(p) /\ Columns[at[p]] \notin file.cols
  /\ file' = [file EXCEPT !.cols = @ \cup {Columns[at[p]]}]
  /\ at' = [at EXCEPT ![p] = @ + 1]
  /\ Goto(p, "columns")
  /\ UNCHANGED <<bak, version, warned, work, writer, starts, shared>>

\* migrateHostsKindConstraint() up to its snapshot.
ReadCheck(p) ==
  /\ pc[p] = "check"
  /\ Goto(p, IF file.check # "old" THEN "open"
             ELSE IF file.rows # {} THEN "backup" ELSE "begin")
  /\ UNCHANGED <<file, bak, at, version, warned, work, writer, starts, shared>>

\* backupDatabase(): the snapshot of this version is removed, then made anew.
RemoveBackup(p) ==
  /\ pc[p] = "backup"
  /\ bak' = [bak EXCEPT ![version[p]] = NoBackup]
  /\ Goto(p, "vacuum")
  /\ UNCHANGED <<file, at, version, warned, work, writer, starts, shared>>

Vacuum(p) ==
  /\ pc[p] = "vacuum"
  /\ bak' = [bak EXCEPT ![version[p]] = [rows |-> file.rows, some |-> TRUE]]
  /\ Goto(p, "prune")
  /\ UNCHANGED <<file, at, version, warned, work, writer, starts, shared>>

\* A failed snapshot is logged and does not stop the rebuild.
BackupFails(p) ==
  /\ pc[p] \in {"backup", "vacuum"}
  /\ warned' = warned \cup {p}
  /\ Goto(p, "begin")
  /\ UNCHANGED <<file, bak, at, version, work, writer, starts, shared>>

\* pruneBackups(): all but the last MaxBackups names are removed.
Stale ==
  {v \in Version : bak[v].some /\
     LET later == {n \in DOMAIN NameOrder :
                     bak[NameOrder[n]].some /\ \E m \in 1..(n - 1) : NameOrder[m] = v}
     IN Cardinality(later) >= MaxBackups}

Prune(p) ==
  /\ pc[p] = "prune"
  /\ bak' = [v \in Version |-> IF v \in Stale THEN NoBackup ELSE bak[v]]
  /\ Goto(p, "begin")
  /\ UNCHANGED <<file, at, version, warned, work, writer, starts, shared>>

\* The rebuild: CREATE, INSERT ... SELECT, DROP, RENAME in one transaction.
Begin(p) ==
  /\ pc[p] = "begin" /\ writer = Free
  /\ writer' = p /\ work' = NoWork
  /\ Goto(p, "copy")
  /\ UNCHANGED <<file, bak, at, version, warned, starts, shared>>

CopyRows(p) ==
  /\ pc[p] = "copy"
  /\ work' = [work EXCEPT !.rows = file.rows]
  /\ Goto(p, "drop")
  /\ UNCHANGED <<file, bak, at, version, warned, writer, starts, shared>>

DropHosts_Autocommit(p) ==   \* mutant: the statements are not in a transaction
  /\ pc[p] = "drop"
  /\ work' = [work EXCEPT !.dropped = TRUE]
  /\ file' = [file EXCEPT !.rows = {}]
  /\ Goto(p, "commit")
  /\ UNCHANGED <<bak, at, version, warned, writer, starts, shared>>
DropHosts(p) ==
  /\ pc[p] = "drop"
  /\ work' = [work EXCEPT !.dropped = TRUE]
  /\ Goto(p, "commit")
  /\ UNCHANGED <<file, bak, at, version, warned, writer, starts, shared>>

Commit_KeepsLock(p) ==   \* mutant: the transaction is never ended
  /\ pc[p] = "commit"
  /\ file' = [rows |-> work.rows, cols |-> {Columns[n] : n \in DOMAIN Columns},
              check |-> "new"]
  /\ Goto(p, "open")
  /\ UNCHANGED <<bak, at, version, warned, work, writer, starts, shared>>
Commit(p) ==
  /\ pc[p] = "commit"
  /\ file' = [rows |-> work.rows, cols |-> {Columns[n] : n \in DOMAIN Columns},
              check |-> "new"]
  /\ work' = NoWork /\ writer' = Free
  /\ Goto(p, "open")
  /\ UNCHANGED <<bak, at, version, warned, starts, shared>>

\* Any other statement fails: the handle is closed and the error is rethrown.
Fails_Published(p) ==   \* mutant: the handle is cached before the migrations
  /\ pc[p] \notin {"closed", "open", "backup", "vacuum", "prune"}
  /\ Goto(p, "open")
  /\ writer' = IF writer = p THEN Free ELSE writer
  /\ work' = IF writer = p THEN NoWork ELSE work
  /\ UNCHANGED <<file, bak, at, version, warned, starts, shared>>
Fails(p) ==
  /\ pc[p] \notin {"closed", "open", "backup", "vacuum", "prune"}
  /\ Goto(p, "closed")
  /\ writer' = IF writer = p THEN Free ELSE writer
  /\ work' = IF writer = p THEN NoWork ELSE work
  /\ UNCHANGED <<file, bak, at, version, warned, starts, shared>>

\* The process dies, or quits: an open transaction is rolled back.
Dies(p) ==
  /\ pc[p] # "closed"
  /\ Goto(p, "closed")
  /\ writer' = IF writer = p THEN Free ELSE writer
  /\ work' = IF writer = p THEN NoWork ELSE work
  /\ UNCHANGED <<file, bak, at, version, warned, starts, shared>>

\* The user edits the hosts of an open vault.
WriteRow(p, r) ==
  /\ pc[p] = "open" /\ MayWrite(p)
  /\ file' = [file EXCEPT !.rows = IF r \in @ THEN @ \ {r} ELSE @ \cup {r}]
  /\ UNCHANGED <<bak, pc, at, version, warned, work, writer, starts, shared>>

\* The user puts the snapshot of a version in the place of the vault.
Restore(v) ==
  /\ bak[v].some /\ \A p \in Proc : pc[p] = "closed"
  /\ \E old \in OldFiles : file' = [old EXCEPT !.rows = bak[v].rows]
  /\ UNCHANGED <<bak, pc, at, version, warned, work, writer, starts, shared>>

Step(p) ==
  \/ \E v \in Version : Open(p, v)
  \/ ReadColumn(p) \/ AddColumn(p) \/ ReadCheck(p)
  \/ RemoveBackup(p) \/ Vacuum(p) \/ BackupFails(p) \/ Prune(p)
  \/ Begin(p) \/ CopyRows(p) \/ DropHosts(p) \/ Commit(p)
  \/ Fails(p) \/ Dies(p)
  \/ \E r \in Row : WriteRow(p, r)

Next == (\E p \in Proc : Step(p)) \/ \E v \in Version : Restore(v)

Spec == Init /\ [][Next]_vars

-----------------------------------------------------------------------------
(* Properties *)

Labels == {"closed", "columns", "alter", "check", "backup", "vacuum", "prune", "begin",
           "copy", "drop", "commit", "open"}

TypeOK ==
  /\ file.rows \subseteq Row /\ file.check \in {"none", "old", "new"}
  /\ bak \in [Version -> [rows : SUBSET Row, some : BOOLEAN]]
  /\ pc \in [Proc -> Labels] /\ at \in [Proc -> 1..(Len(Columns) + 1)]
  /\ version \in [Proc -> Version] /\ warned \in SUBSET Proc
  /\ writer \in Proc \cup {Free} /\ starts \in 0..MaxStarts /\ shared \in SUBSET Proc
  /\ writer # Free <=> \E p \in Proc : pc[p] \in {"copy", "drop", "commit"}

\* A handle is handed out only on a vault with the whole current schema, whatever
\* failed, died or raced on the way (getSqlite, db.ts 447: "publish it only once").
OpenIsMigrated ==
  \A p \in Proc : pc[p] = "open" =>
    /\ file.check # "old"
    /\ \A n \in DOMAIN Columns : Columns[n] \in file.cols

\* No start, failure or crash ever loses a host: rows change by the user's edits of an open
\* vault, one at a time, or by restoring a snapshot.
RowsKept ==
  [][file'.rows # file.rows =>
       \/ \E p \in Proc, r \in Row : WriteRow(p, r)
       \/ \E v \in Version : Restore(v)]_vars

\* db.ts 305-307, a migration must not eat the hosts "silently": after a rebuild with rows to
\* lose, a process that is alone at the file has them in a snapshot or has logged that there
\* is none.  Not so after a downgrade: pruneBackups() keeps the last names, and so may drop
\* the snapshot just made.
Downgraded(p) ==
  \E m \in DOMAIN NameOrder :
    NameOrder[m] = version[p] /\ \E n \in DOMAIN NameOrder : n > m /\ bak[NameOrder[n]].some
RebuildHasBackup ==
  [][\A p \in Proc :
       pc[p] = "commit" /\ pc'[p] = "open" /\ file.rows # {} =>
         p \in warned \cup shared \/ Downgraded(p) \/ bak[version[p]].rows = file.rows]_vars
=============================================================================
