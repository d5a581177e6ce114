------------------------------ MODULE Migration ------------------------------
(***************************************************************************)
(* Opening and migrating the SQLite database by several merlya processes   *)
(* (merlya/persistence/database.py: connect, _init_schema,                 *)
(* _run_migrations and its lock, which is a row of the config table).      *)
(* Every write to the file needs SQLite's write lock; a step of a process  *)
(* is one transaction, or one statement of the migration transaction.      *)
(*                                                                         *)
(* A migration step n brings the tables from version n - 1 to n:           *)
(*   2  sessions rebuilt with an ON DELETE clause (raw_logs is rebuilt     *)
(*      just before in the same way, no messages hang on it)               *)
(*   3  table session_messages                                             *)
(*   4  column hosts.elevation_method                                      *)
(***************************************************************************)
EXTENDS Naturals, FiniteSets

CONSTANTS Process,          \* merlya processes opening the same file
          None,
          InitialVersions,  \* schema versions the file may start with, 0: new
          MaxTries,         \* attempts at the migration lock
          MaxMessages       \* bound on the rows of session_messages

Target == 4                 \* SCHEMA_VERSION
Steps == 2..Target

ASSUME MigrationAssumption ==
    /\ None \notin Process /\ IsFiniteSet(Process)
    /\ InitialVersions \subseteq 0..Target
    /\ MaxTries \in Nat \ {0} /\ MaxMessages \in Nat

VARIABLES began,   \* history: the schema version the file began with
          db,      \* committed contents of the file
          work,    \* the contents as the migration transaction sees them
          writer,  \* the process in a migration transaction, or None
          flag,    \* row migration_in_progress of config
          aged,    \* migration_started_at is MIGRATION_LOCK_TIMEOUT old
          pc,      \* per process, see PC
          from,    \* per process: the schema version it read
          tries    \* per process: failed attempts at the lock

vars == <<began, db, work, writer, flag, aged, pc, from, tries>>

PC == {"down",       \* not connected
       "created",    \* tables created, schema_version not yet read
       "insert",     \* found no schema_version
       "check",      \* about to look at the migration flag
       "set",        \* flag found unset or stale, about to set it
       "begin",      \* flag set, about to begin the transaction
       "migrating",  \* in the transaction
      "dropped",    \* ... between DROP TABLE sessions and the renaming of its copy
       "release",    \* transaction over, about to delete the flag: successful
       "failed",     \* ... or to delete the flag and raise; the transaction is
                    \* still open when the migration was cancelled
       "up"}         \* connected

\* gone: the table sessions does not exist.
Contents == [version : 0..Target, steps : SUBSET Steps, gone : BOOLEAN,
             messages : 0..MaxMessages]

Init == /\ began \in InitialVersions
        /\ db = [version |-> began, steps |-> {n \in Steps : n <= began}, gone |-> FALSE,
                 messages |-> 0]
        /\ work = db
        /\ writer = None
        /\ flag = FALSE /\ aged = FALSE
        /\ pc = [p \in Process |-> "down"]
        /\ from = [p \in Process |-> 0]
        /\ tries = [p \in Process |-> 0]

Goto(p, where) == pc' = [pc EXCEPT ![p] = where]

Forget(p) == /\ from' = [from EXCEPT ![p] = 0]
             /\ tries' = [tries EXCEPT ![p] = 0]

Up(p) == Goto(p, "up") /\ Forget(p)
Down(p) == Goto(p, "down") /\ Forget(p)

(* connect: CREATE TABLE IF NOT EXISTS for every table in its newest form; *)
(* nothing is written when all of them exist.                              *)
Connect(p) ==
    LET missing == IF db.version = 0 THEN Steps ELSE IF db.gone THEN {2, 3} ELSE {3}
    IN /\ pc[p] = "down"
       /\ missing \subseteq db.steps \/ writer = None
       /\ db' = [db EXCEPT !.steps = @ \cup missing, !.gone = FALSE]
       /\ Goto(p, "created")
       /\ UNCHANGED <<began, work, writer, flag, aged, from, tries>>

(* SELECT schema_version and where it leads.                               *)
ReadVersion(p) ==
    /\ pc[p] = "created"
    /\ UNCHANGED <<began, db, work, writer, flag, aged>>
    /\ \/ db.version = 0 /\ Goto(p, "insert") /\ UNCHANGED <<from, tries>>
       \/ db.version = Target /\ Up(p)
       \/ /\ db.version \in 1..Target-1
          /\ Goto(p, "check")
          /\ from' = [from EXCEPT ![p] = db.version]
          /\ UNCHANGED tries

(* INSERT of schema_version into a new file; it raises when another        *)
(* process has inserted the row since it was found missing.                *)
InsertVersion(p) ==
    /\ pc[p] = "insert" /\ writer = None
    /\ \/ db.version = 0 /\ db' = [db EXCEPT !.version = Target] /\ Up(p)
       \/ db.version # 0 /\ UNCHANGED db /\ Down(p)
    /\ UNCHANGED <<began, work, writer, flag, aged>>

(* An attempt at the migration lock failed: sleep and try again, or raise  *)
(* MigrationLockError.                                                     *)
Refused(p) ==
    IF tries[p] + 1 < MaxTries
    THEN /\ Goto(p, "check")
         /\ tries' = [tries EXCEPT ![p] = @ + 1]
         /\ UNCHANGED from
    ELSE Down(p)

(* Mutant: a stale flag is honoured like a young one.                      *)
M_CheckLock(p) ==
    /\ pc[p] = "check"
    /\ UNCHANGED <<began, db, work, writer, flag, aged>>
    /\ \/ flag /\ Refused(p)
       \/ ~flag /\ Goto(p, "set") /\ UNCHANGED <<from, tries>>

(* _acquire_migration_lock, first phase.                                   *)
CheckLock(p) ==
    /\ pc[p] = "check"
    /\ UNCHANGED <<began, db, work, writer, flag, aged>>
    /\ \/ flag /\ ~aged /\ Refused(p)
       \/ (~flag \/ aged) /\ Goto(p, "set") /\ UNCHANGED <<from, tries>>

(* Second phase: INSERT OR REPLACE of the flag and its time.               *)
SetLock(p) ==
    /\ pc[p] = "set" /\ writer = None
    /\ flag' = TRUE /\ aged' = FALSE
    /\ Goto(p, "begin")
    /\ UNCHANGED <<began, db, work, writer, from, tries>>

(* The file stays locked longer than SQLite waits.                         *)
SetLockBusy(p) ==
    /\ pc[p] = "set" /\ writer # None
    /\ Refused(p)
    /\ UNCHANGED <<began, db, work, writer, flag, aged>>

(* BEGIN IMMEDIATE.                                                        *)
Begin(p) ==
    /\ pc[p] = "begin" /\ writer = None
    /\ writer' = p /\ work' = db
    /\ Goto(p, "migrating")
    /\ UNCHANGED <<began, db, flag, aged, from, tries>>

BeginBusy(p) ==
    /\ pc[p] = "begin" /\ writer # None
    /\ Goto(p, "failed")
    /\ UNCHANGED <<began, db, work, writer, flag, aged, from, tries>>

(* Mutant: a version that needs no rebuild is rebuilt all the same.        *)
M_DropSessions(p) ==
    /\ pc[p] = "migrating" /\ from[p] \in {1, 2}
    /\ work' = [work EXCEPT !.gone = TRUE, !.steps = @ \ {2}, !.messages = 0]
    /\ Goto(p, "dropped")
    /\ UNCHANGED <<began, db, writer, flag, aged, from, tries>>

(* Step 2 copies sessions and drops it, unless there is no such table;     *)
(* with foreign_keys = ON the DROP deletes the rows first, and ON DELETE   *)
(* CASCADE deletes the rows of session_messages with them.                 *)
DropSessions(p) ==
    /\ pc[p] = "migrating" /\ from[p] = 1
    /\ \/ work.gone /\ from' = [from EXCEPT ![p] = 2] /\ UNCHANGED <<work, pc>>
       \/ /\ ~work.gone
          /\ work' = [work EXCEPT !.gone = TRUE, !.steps = @ \ {2}, !.messages = 0]
          /\ Goto(p, "dropped")
          /\ UNCHANGED from
    /\ UNCHANGED <<began, db, writer, flag, aged, tries>>

(* ... and renames the copy.                                               *)
RenameSessions(p) ==
    /\ pc[p] = "dropped"
    /\ work' = [work EXCEPT !.gone = FALSE, !.steps = @ \cup {2}]
    /\ from' = [from EXCEPT ![p] = 2]
    /\ Goto(p, "migrating")
    /\ UNCHANGED <<began, db, writer, flag, aged, tries>>

(* Steps 3 and 4, if from_version calls for them.                          *)
MigrationStep(p, n) ==
    /\ pc[p] = "migrating" /\ n > 2 /\ from[p] + 1 = n
    /\ from' = [from EXCEPT ![p] = n]
    /\ work' = [work EXCEPT !.steps = @ \cup {n}]
    /\ UNCHANGED <<began, db, writer, flag, aged, pc, tries>>

(* Mutant: the version row is written before the last step.                *)
M_Commit(p) ==
    /\ pc[p] = "migrating" /\ from[p] >= Target - 1
    /\ db' = [work EXCEPT !.version = Target]
    /\ writer' = None
    /\ Goto(p, "release")
    /\ UNCHANGED <<began, work, flag, aged, from, tries>>

(* UPDATE schema_version, COMMIT.                                          *)
Commit(p) ==
    /\ pc[p] = "migrating" /\ from[p] = Target
    /\ db' = [work EXCEPT !.version = Target]
    /\ writer' = None
    /\ Goto(p, "release")
    /\ UNCHANGED <<began, work, flag, aged, from, tries>>

(* A statement or the COMMIT raises: ROLLBACK.                             *)
MigrationFails(p) ==
    /\ pc[p] \in {"migrating", "dropped"}
    /\ writer' = None
    /\ Goto(p, "failed")
    /\ UNCHANGED <<began, db, work, flag, aged, from, tries>>

(* The task that connects is cancelled at an await of the migration.       *)
(* "except Exception" does not catch a CancelledError: no ROLLBACK.        *)
(* Elsewhere a cancelled connect leaves what a crash leaves.               *)
Cancel(p) ==
    /\ pc[p] \in {"begin", "migrating", "dropped", "release"}
    /\ Goto(p, "failed")
    /\ UNCHANGED <<began, db, work, writer, flag, aged, from, tries>>

(* Mutant: a failed migration is reported like a successful one.           *)
M_Release(p) ==
    /\ pc[p] \in {"release", "failed"}
    /\ \/ /\ writer \in {None, p}
          /\ flag' = FALSE /\ aged' = FALSE
          /\ db' = IF writer = p THEN work ELSE db
          /\ writer' = None
       \/ writer \notin {None, p} /\ UNCHANGED <<db, writer, flag, aged>>
    /\ Up(p)
    /\ UNCHANGED <<began, work>>

(* _release_migration_lock, in the finally clause: deletes the flag,       *)
(* whoever set it, and commits, with the open transaction of a cancelled   *)
(* migration as far as it came; an error (the file is locked) is only      *)
(* logged.                                                                 *)
Release(p) ==
    /\ pc[p] \in {"release", "failed"}
    /\ \/ /\ writer \in {None, p}
          /\ flag' = FALSE /\ aged' = FALSE
          /\ db' = IF writer = p THEN work ELSE db
          /\ writer' = None
       \/ writer \notin {None, p} /\ UNCHANGED <<db, writer, flag, aged>>
    /\ IF pc[p] = "release" THEN Up(p) ELSE Down(p)
    /\ UNCHANGED <<began, work>>

(* Mutant: saving does not wait for the migration of another process.      *)
M_Write(p) ==
    /\ pc[p] = "up" /\ ~db.gone /\ db.messages < MaxMessages
    /\ db' = [db EXCEPT !.messages = @ + 1]
    /\ UNCHANGED <<began, work, writer, flag, aged, pc, from, tries>>

(* A connected process saves a session message; without a table sessions   *)
(* the statement fails.                                                    *)
Write(p) ==
    /\ pc[p] = "up" /\ writer = None /\ ~db.gone /\ db.messages < MaxMessages
    /\ db' = [db EXCEPT !.messages = @ + 1]
    /\ UNCHANGED <<began, work, writer, flag, aged, pc, from, tries>>

(* The process dies, or closes its connection: SQLite rolls back, the flag *)
(* stays.                                                                  *)
Crash(p) ==
    /\ pc[p] # "down"
    /\ Down(p)
    /\ writer' = IF writer = p THEN None ELSE writer
    /\ UNCHANGED <<began, db, work, flag, aged>>

LockAges ==
    /\ flag /\ ~aged
    /\ aged' = TRUE
    /\ UNCHANGED <<began, db, work, writer, flag, pc, from, tries>>

Opening(p) ==
    \/ Connect(p) \/ ReadVersion(p) \/ InsertVersion(p)
    \/ CheckLock(p) \/ SetLock(p) \/ SetLockBusy(p)
    \/ Begin(p) \/ BeginBusy(p)
    \/ DropSessions(p) \/ RenameSessions(p) \/ (\E n \in Steps : MigrationStep(p, n))
    \/ Commit(p) \/ Release(p)

Fault(p) == MigrationFails(p) \/ Cancel(p) \/ Crash(p)

Next == \/ \E p \in Process : Opening(p) \/ Fault(p) \/ Write(p)
        \/ LockAges

Spec == Init /\ [][Next]_vars

(* A process runs, its user starts it again, and time passes.              *)
Fairness == WF_vars(LockAges) /\ \A p \in Process : WF_vars(Opening(p))

FairSpec == Spec /\ Fairness

-----------------------------------------------------------------------------
TypeOK == /\ db \in Contents /\ work \in Contents
          /\ writer \in Process \cup {None}
          /\ flag \in BOOLEAN /\ aged \in BOOLEAN
          /\ pc \in [Process -> PC]
          /\ from \in [Process -> 0..Target]
          /\ tries \in [Process -> 0..MaxTries-1]

(* The schema version never claims a change the tables do not have, with   *)
(* crashes and cancellations in mid-migration and processes that migrate   *)
(* on a stale version ("single atomic transaction for all migrations").    *)
(* One thing can be missing: a migration that was cancelled inside the     *)
(* rebuild of sessions, which only a file that began at version 1 goes     *)
(* through, is committed without the table.                                *)
VersionIsTrue ==
    \A n \in Steps : n <= db.version => n \in db.steps \/ (n = 2 /\ db.gone /\ began = 1)

(* "Commit entire migration atomically" (database.py:382): not kept, see   *)
(* Release after Cancel.                                                   *)
MigratedAtOnce == \A n \in Steps : n <= db.version => n \in db.steps

(* connect returns only on a file of the current schema, and no other      *)
(* process downgrades it under a connected one.                            *)
UpMeansMigrated == \A p \in Process : pc[p] = "up" => db.version = Target

(* The flag may be set by two processes at once; what serialises the       *)
(* migrations is BEGIN IMMEDIATE: a migration never works on contents that *)
(* another process has changed since the transaction began.                *)
NothingOverwritten ==
    writer # None => /\ pc[writer] \in {"migrating", "dropped", "failed"}
                     /\ db.version = work.version
                     /\ db.steps \subseteq work.steps \cup (IF work.gone THEN {2} ELSE {})
                     /\ work.messages \in {0, db.messages}

File == INSTANCE SchemaFile WITH version <- db.version, messages <- db.messages

(* Opened by processes that race, die and retry, the file behaves as one   *)
(* that is upgraded in a single step, and keeps every message unless it    *)
(* began at version 1.                                                     *)
ImplementsSchemaFile == File!Spec

(* Saved messages survive every opening of the file by other processes     *)
(* (_run_migrations promises "a lock for multi-process safety").  Broken   *)
(* for files of version 1: a process that read the version before another  *)
(* one migrated repeats step 2.                                            *)
MessagesKept == [][db'.messages >= db.messages]_vars

(* A holder that died does not keep the others out for ever: unless faults *)
(* go on, the file ends up migrated.  (Giving up on the lock changes what  *)
(* a crash would change, and is not a fault.)                              *)
EventuallyMigrated ==
    <>[][\A p \in Process : Fault(p) => Opening(p)]_vars
    => <>[](db.version = Target)
=============================================================================
