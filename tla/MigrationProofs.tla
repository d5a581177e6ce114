--------------------------- MODULE MigrationProofs ---------------------------
(* Theorems about Migration: the schema version is true, a connected       *)
(* process has the current schema, migrations do not overwrite each other, *)
(* and the file is upgraded atomically, from version 2 on losslessly.      *)
EXTENDS Migration, TLAPS

(* Whoever migrates holds the write lock, and keeps it when it is          *)
(* cancelled until it has released the flag.                               *)
WriterMigrates ==
    \A p \in Process : /\ pc[p] \in {"migrating", "dropped"} => writer = p
                       /\ writer = p => pc[p] \in {"migrating", "dropped", "failed"}

(* Whoever may insert the version row has created the tables.              *)
TablesCreated ==
    /\ began <= db.version
    /\ \A p \in Process : pc[p] = "insert" => began = 0 /\ Steps \subseteq db.steps
    /\ \A p \in Process : pc[p] = "created" /\ db.version = 0 => Steps \subseteq db.steps

(* The version a process read is one the file has reached.                 *)
ReadIsReached == \A p \in Process : pc[p] \in {"check", "set", "begin"} => from[p] <= db.version

(* The transaction has done every step up to the version it is at, where   *)
(* it did not find sessions missing.                                       *)
StepsDone == \A p \in Process : \A n \in Steps :
                pc[p] = "migrating" /\ n <= from[p] => n \in work.steps \/ (n = 2 /\ work.gone)

DoneMeansMigrated == \A p \in Process : pc[p] \in {"release", "up"} => db.version = Target

(* Contents are true of their version but for a table that is gone.        *)
TrueOf(c) == \A n \in Steps : n <= c.version => n \in c.steps \/ (n = 2 /\ c.gone)

ContentsAreTrue == TrueOf(db) /\ (writer # None => TrueOf(work))

(* Without version 1 no migration repeats step 2, the one that drops       *)
(* sessions and its messages.                                              *)
NoRebuild ==
    /\ db.version # 1 /\ ~db.gone
    /\ \A p \in Process : pc[p] \in {"check", "set", "begin", "migrating"} => from[p] >= 2
    /\ \A p \in Process : pc[p] # "dropped"
    /\ writer # None => ~work.gone /\ work.messages = db.messages

OnlyFromOne == began # 1 => NoRebuild

IInv == /\ TypeOK /\ began \in 0..Target /\ WriterMigrates /\ TablesCreated /\ ReadIsReached
        /\ StepsDone /\ DoneMeansMigrated /\ ContentsAreTrue /\ NothingOverwritten /\ OnlyFromOne

(* The initial states and the steps of the type invariant.                *)
LEMMA TypeInit == Init => TypeOK
<1> SUFFICES ASSUME Init PROVE TypeOK
  OBVIOUS
<1>1. db = [version |-> began, steps |-> {n \in Steps : n <= began}, gone |-> FALSE,
           messages |-> 0]
  BY DEF Init
<1>2. began \in 0..Target /\ 0 \in 0..MaxMessages /\ 0 \in 0..Target /\ 0 \in 0..MaxTries-1
  BY MigrationAssumption DEF Init, Target
<1>3. db \in Contents /\ work \in Contents
  BY <1>1, <1>2 DEF Contents, Init
<1>4. QED
  BY <1>2, <1>3 DEF Init, TypeOK, PC

LEMMA TypeStep == TypeOK /\ [Next]_vars => TypeOK'
<1> SUFFICES ASSUME TypeOK, [Next]_vars PROVE TypeOK'
  OBVIOUS
<1> USE MigrationAssumption DEF TypeOK
<1>1. ASSUME NEW p \in Process, Connect(p) PROVE TypeOK'
  <2>1. db.steps \cup (IF db.version = 0 THEN Steps ELSE IF db.gone THEN {2, 3} ELSE {3})
          \subseteq Steps
    BY DEF Contents, Steps, Target
  <2>2. db' \in Contents
    BY <1>1, <2>1 DEF Connect, Contents
  <2>3. QED
    BY <1>1, <2>2 DEF Connect, Goto, PC
<1>2. ASSUME NEW p \in Process, ReadVersion(p) PROVE TypeOK'
  BY <1>2 DEF ReadVersion, Goto, Up, Forget, Contents, Steps, Target, PC
<1>3. ASSUME NEW p \in Process, InsertVersion(p) PROVE TypeOK'
  BY <1>3 DEF InsertVersion, Goto, Up, Down, Forget, Contents, Steps, Target, PC
<1>4. ASSUME NEW p \in Process, CheckLock(p) \/ SetLockBusy(p) PROVE TypeOK'
  BY <1>4 DEF CheckLock, SetLockBusy, Refused, Goto, Down, Forget, Target, PC
<1>5. ASSUME NEW p \in Process, SetLock(p) PROVE TypeOK'
  BY <1>5 DEF SetLock, Goto, PC
<1>6. ASSUME NEW p \in Process, Begin(p) \/ BeginBusy(p) PROVE TypeOK'
  BY <1>6 DEF Begin, BeginBusy, Goto, PC
<1>7. ASSUME NEW p \in Process,
             DropSessions(p) \/ RenameSessions(p) \/ \E n \in Steps : MigrationStep(p, n)
      PROVE  TypeOK'
  <2>1. Steps \subseteq 0..Target /\ 0 \in 0..MaxMessages /\ 2 \in Steps
    BY MigrationAssumption DEF Steps, Target
  <2>2. CASE DropSessions(p)
    <3>1. CASE work.gone
      BY <2>1, <2>2, <3>1 DEF DropSessions
    <3>2. CASE ~work.gone
      <4>1. [work EXCEPT !.gone = TRUE, !.steps = @ \ {2}, !.messages = 0] \in Contents
        BY <2>1 DEF Contents
      <4>2. QED
        BY <2>1, <2>2, <3>2, <4>1 DEF DropSessions, Goto, PC
    <3>3. QED
      BY <3>1, <3>2
  <2>3. CASE RenameSessions(p)
    <3>1. work' \in Contents /\ from' \in [Process -> 0..Target]
      BY <2>1, <2>3 DEF RenameSessions, Contents
    <3>2. QED
      BY <2>3, <3>1 DEF RenameSessions, Goto, PC
  <2>4. CASE \E n \in Steps : MigrationStep(p, n)
    <3>1. PICK n \in Steps : MigrationStep(p, n)
      BY <2>4
    <3>2. work' \in Contents /\ from' \in [Process -> 0..Target]
      BY <2>1, <3>1 DEF MigrationStep, Contents
    <3>3. QED
      BY <3>1, <3>2 DEF MigrationStep
  <2>5. QED
    BY <1>7, <2>2, <2>3, <2>4
<1>8. ASSUME NEW p \in Process, Commit(p) PROVE TypeOK'
  BY <1>8 DEF Commit, Goto, Contents, Steps, Target, PC
<1>9. ASSUME NEW p \in Process, Release(p) PROVE TypeOK'
  <2>1. flag' \in BOOLEAN /\ aged' \in BOOLEAN
    BY <1>9 DEF Release
  <2>2. 0 \in 0..Target /\ 0 \in 0..MaxTries-1
    BY DEF Target
  <2>3. /\ db' \in Contents /\ work' \in Contents /\ writer' \in Process \cup {None}
        /\ pc' \in [Process -> PC]
    BY <1>9 DEF Release, Goto, Up, Down, PC
  <2>4. from' \in [Process -> 0..Target] /\ tries' \in [Process -> 0..MaxTries-1]
    BY <1>9, <2>2 DEF Release, Up, Down, Forget
  <2>5. QED
    BY <2>1, <2>3, <2>4
<1>10. ASSUME NEW p \in Process, MigrationFails(p) \/ Cancel(p) \/ Crash(p) PROVE TypeOK'
  BY <1>10 DEF MigrationFails, Cancel, Crash, Goto, Down, Forget, Target, PC
<1>11. ASSUME NEW p \in Process, Write(p) PROVE TypeOK'
  BY <1>11 DEF Write, Contents
<1>12. CASE LockAges
  BY <1>12 DEF LockAges
<1>13. CASE UNCHANGED vars
  BY <1>13 DEF vars
<1>14. QED
  BY <1>1, <1>2, <1>3, <1>4, <1>5, <1>6, <1>7, <1>8, <1>9, <1>10, <1>11, <1>12, <1>13
  DEF Next, Opening, Fault

(* The variables keep their types: no attempt is counted beyond MaxTries,  *)
(* no step leads beyond SCHEMA_VERSION (_run_migrations).                  *)
THEOREM TypeCorrect == Spec => []TypeOK
BY TypeInit, TypeStep, PTL DEF Spec

LEMMA BeganStays == [Next]_vars => began' = began
BY DEF Next, Opening, Fault, vars, Connect, ReadVersion, InsertVersion, CheckLock, SetLock,
       SetLockBusy, Begin, BeginBusy, DropSessions, RenameSessions, MigrationStep, Commit, Release,
       Write, MigrationFails, Cancel, Crash, LockAges

(* The steps of the part of the invariant that concerns step 2.            *)
LEMMA OnlyFromOneStep ==
    ASSUME IInv, [Next]_vars
    PROVE  OnlyFromOne'
<1> SUFFICES ASSUME began # 1 PROVE NoRebuild'
  BY BeganStays DEF OnlyFromOne
<1> USE MigrationAssumption
<1>1. TypeOK /\ TypeOK' /\ NoRebuild /\ NothingOverwritten /\ WriterMigrates
  BY TypeStep DEF IInv, OnlyFromOne
<1>2. ASSUME NEW p \in Process, Connect(p) \/ Write(p) PROVE NoRebuild'
  <2>1. db'.version = db.version /\ ~db'.gone /\ (writer # None => db'.messages = db.messages)
    BY <1>1, <1>2 DEF Connect, Write, TypeOK, Contents, NoRebuild
  <2>2. QED
    BY <1>1, <1>2, <2>1 DEF Connect, Write, Goto, NoRebuild, TypeOK
<1>3. ASSUME NEW p \in Process, ReadVersion(p) PROVE NoRebuild'
  BY <1>1, <1>3 DEF ReadVersion, Goto, Up, Forget, NoRebuild, TypeOK, Contents, Target
<1>4. ASSUME NEW p \in Process, InsertVersion(p) PROVE NoRebuild'
  <2>1. writer = None /\ writer' = None /\ db'.version \in {db.version, 4} /\ ~db'.gone
    BY <1>1, <1>4 DEF InsertVersion, TypeOK, Contents, Target, NoRebuild
  <2>2. QED
    BY <1>1, <1>4, <2>1 DEF InsertVersion, Goto, Up, Down, Forget, NoRebuild, TypeOK
<1>5. ASSUME NEW p \in Process, CheckLock(p) \/ SetLockBusy(p) PROVE NoRebuild'
  BY <1>1, <1>5 DEF CheckLock, SetLockBusy, Refused, Goto, Down, Forget, NoRebuild, TypeOK
<1>6. ASSUME NEW p \in Process, SetLock(p) \/ Begin(p) \/ BeginBusy(p) PROVE NoRebuild'
  BY <1>1, <1>6 DEF SetLock, Begin, BeginBusy, Goto, NoRebuild, TypeOK
<1>7. ASSUME NEW p \in Process, NEW n \in Steps, MigrationStep(p, n) PROVE NoRebuild'
  <2>1. work'.messages = work.messages /\ work'.gone = work.gone
    BY <1>1, <1>7 DEF MigrationStep, TypeOK, Contents
  <2>2. n >= 2
    BY DEF Steps
  <2>3. QED
    BY <1>1, <1>7, <2>1, <2>2 DEF MigrationStep, NoRebuild, TypeOK
<1>8. ASSUME NEW p \in Process, DropSessions(p) \/ RenameSessions(p) PROVE FALSE
  BY <1>1, <1>8 DEF DropSessions, RenameSessions, NoRebuild
<1>9. ASSUME NEW p \in Process, Commit(p) PROVE NoRebuild'
  <2>1. writer = p
    BY <1>1, <1>9 DEF Commit, WriterMigrates
  <2>2. db'.version = 4 /\ writer' = None /\ ~db'.gone
    BY <1>1, <1>9, <2>1 DEF Commit, TypeOK, Contents, Target, NoRebuild
  <2>3. QED
    BY <1>1, <1>9, <2>2 DEF Commit, Goto, NoRebuild, TypeOK
<1>10. ASSUME NEW p \in Process, Release(p) \/ MigrationFails(p) \/ Cancel(p) \/ Crash(p)
       PROVE  NoRebuild'
  <2>1. work' = work /\ writer' \in {writer, None} /\ db' \in {db, work}
        /\ (db' # db => writer # None)
        /\ (writer' # None => db' = db /\ writer # None)
    BY <1>1, <1>10 DEF Release, MigrationFails, Cancel, Crash, TypeOK
  <2>2. db'.version # 1 /\ ~db'.gone
    BY <1>1, <2>1 DEF NoRebuild, NothingOverwritten
  <2>3. /\ \A q \in Process : q # p => pc'[q] = pc[q] /\ from'[q] = from[q]
        /\ pc'[p] \in {"up", "down", "failed"}
    BY <1>1, <1>10 DEF Release, MigrationFails, Cancel, Crash, Goto, Up, Down, Forget, TypeOK
  <2>4. \A q \in Process : pc'[q] \in {"check", "set", "begin", "migrating"} => from'[q] >= 2
    BY <1>1, <2>3 DEF NoRebuild
  <2>5. QED
    BY <1>1, <2>1, <2>2, <2>3, <2>4 DEF NoRebuild
<1>11. CASE LockAges \/ UNCHANGED vars
  BY <1>1, <1>11 DEF LockAges, vars, NoRebuild
<1>12. QED
  BY <1>2, <1>3, <1>4, <1>5, <1>6, <1>7, <1>8, <1>9, <1>10, <1>11 DEF Next, Opening, Fault

(* What a step leaves of the file, whichever process takes it: the version *)
(* only rises, and schema changes are only added, but for a sessions that  *)
(* is dropped from a file that began at version 1.                         *)
LEMMA FileGrows ==
    ASSUME IInv, [Next]_vars
    PROVE  db.version <= db'.version /\ (began # 1 => db.steps \subseteq db'.steps)
<1> DEFINE Grows == db.version <= db'.version /\ (began # 1 => db.steps \subseteq db'.steps)
<1>1. TypeOK /\ WriterMigrates /\ NothingOverwritten /\ (began # 1 => NoRebuild)
  BY DEF IInv, OnlyFromOne
<1>2. db.version \in 0..4 /\ db'.version \in 0..4
  BY <1>1, TypeStep DEF TypeOK, Contents, Target
<1>3. ASSUME NEW p \in Process, Connect(p) \/ Write(p) PROVE Grows
  <2>1. db'.version = db.version /\ db.steps \subseteq db'.steps
    BY <1>1, <1>3 DEF Connect, Write, TypeOK, Contents
  <2>2. QED
    BY <1>2, <2>1
<1>4. ASSUME NEW p \in Process, InsertVersion(p) PROVE Grows
  BY <1>1, <1>2, <1>4 DEF InsertVersion, TypeOK, Contents
<1>5. ASSUME NEW p \in Process, Commit(p) PROVE Grows
  <2>1. writer = p /\ writer # None
    BY <1>1, <1>5, MigrationAssumption DEF Commit, WriterMigrates
  <2>2. db'.steps = work.steps /\ db'.version = 4
    BY <1>1, <1>5 DEF Commit, TypeOK, Contents, Target
  <2>3. QED
    BY <1>1, <1>2, <2>1, <2>2 DEF NothingOverwritten, NoRebuild
<1>6. ASSUME NEW p \in Process, Release(p) PROVE Grows
  <2>1. db' = db \/ (db' = work /\ writer = p /\ writer # None)
    BY <1>6, MigrationAssumption DEF Release
  <2>2. QED
    BY <1>1, <1>2, <2>1 DEF NothingOverwritten, NoRebuild
<1>7. CASE UNCHANGED db
  BY <1>2, <1>7
<1>8. QED
  BY <1>3, <1>4, <1>5, <1>6, <1>7
  DEF Next, Opening, Fault, vars, ReadVersion, CheckLock, SetLock, SetLockBusy, Begin, BeginBusy,
      DropSessions, RenameSessions, MigrationStep, MigrationFails, Cancel, Crash, LockAges

(* What the steps of one process preserve.                                 *)
Rest == /\ WriterMigrates /\ TablesCreated /\ ReadIsReached /\ StepsDone
        /\ DoneMeansMigrated /\ ContentsAreTrue /\ NothingOverwritten

LEMMA RestStep ==
    ASSUME IInv, [Next]_vars
    PROVE  Rest'
<1> USE MigrationAssumption
<1>1. TypeOK /\ TypeOK' /\ Rest /\ OnlyFromOne /\ began' = began /\ began \in 0..4
  BY TypeStep, BeganStays DEF IInv, Rest, Target
<1>2. db.version <= db'.version /\ (began # 1 => db.steps \subseteq db'.steps)
  BY FileGrows
<1>3. db.version \in 0..4 /\ db'.version \in 0..4
  BY <1>1 DEF TypeOK, Contents, Target
<1>4. ASSUME NEW p \in Process, Connect(p) PROVE Rest'
  <2>1. db'.version = db.version /\ db'.messages = db.messages /\ ~db'.gone
        /\ db.steps \subseteq db'.steps
    BY <1>1, <1>4 DEF Connect, TypeOK, Contents
  <2>2. db.version = 0 => Steps \subseteq db'.steps
    BY <1>1, <1>4 DEF Connect, TypeOK, Contents
  <2>3. writer # None => db'.steps = db.steps
    BY <1>1, <1>4 DEF Connect, TypeOK, Contents
  <2>4. TrueOf(db)'
    <3>1. \A n \in Steps : n \in db.steps => n \in db'.steps
      BY <2>1
    <3>2. CASE db.gone /\ db.version # 0
      <4>1. 2 \in db'.steps
        BY <1>1, <1>4, <3>2 DEF Connect, TypeOK, Contents
      <4>2. QED
        BY <1>1, <2>1, <3>1, <4>1 DEF Rest, ContentsAreTrue, TrueOf
    <3>3. CASE db.version = 0
      BY <2>1, <2>2, <3>3 DEF TrueOf
    <3>4. CASE ~db.gone
      BY <1>1, <2>1, <3>1, <3>4 DEF Rest, ContentsAreTrue, TrueOf
    <3>5. QED
      BY <3>2, <3>3, <3>4
  <2>5. ContentsAreTrue'
    BY <1>1, <1>4, <2>4 DEF Connect, Rest, ContentsAreTrue, TrueOf
  <2>6. TablesCreated'
    <3>1. \A q \in Process : pc'[q] = "insert" => pc[q] = "insert"
      BY <1>1, <1>4 DEF Connect, Goto, TypeOK
    <3>2. QED
      BY <1>1, <2>1, <2>2, <3>1 DEF Rest, TablesCreated
  <2>7. QED
    BY <1>1, <1>4, <2>1, <2>3, <2>5, <2>6
    DEF Connect, Goto, Rest, TypeOK, WriterMigrates, ReadIsReached, StepsDone,
        DoneMeansMigrated, NothingOverwritten
<1>5. ASSUME NEW p \in Process, ReadVersion(p) PROVE Rest'
  <2>1. ContentsAreTrue'
    BY <1>1, <1>5 DEF ReadVersion, Rest, ContentsAreTrue, TrueOf
  <2>2. QED
    BY <1>1, <1>3, <1>5, <2>1
    DEF ReadVersion, Goto, Up, Forget, Rest, TypeOK, WriterMigrates, TablesCreated, ReadIsReached,
        StepsDone, DoneMeansMigrated, NothingOverwritten
<1>6. ASSUME NEW p \in Process, InsertVersion(p) PROVE Rest'
  <2>1. /\ writer = None /\ writer' = None /\ work' = work
        /\ db'.steps = db.steps /\ db'.gone = db.gone
    BY <1>1, <1>6 DEF InsertVersion, TypeOK, Contents
  <2>2. Steps \subseteq db.steps
    BY <1>1, <1>6 DEF InsertVersion, Rest, TablesCreated
  <2>3. ContentsAreTrue'
    BY <2>1, <2>2 DEF ContentsAreTrue, TrueOf
  <2>4. \/ db'.version = Target /\ Up(p)
        \/ db' = db /\ Down(p)
    BY <1>1, <1>6 DEF InsertVersion, TypeOK, Contents
  <2>5. QED
    BY <1>1, <1>2, <1>3, <1>6, <2>1, <2>3, <2>4
    DEF InsertVersion, Goto, Up, Down, Forget, Rest, TypeOK, WriterMigrates, TablesCreated,
        ReadIsReached, StepsDone, DoneMeansMigrated, NothingOverwritten, Target
<1>7. ASSUME NEW p \in Process, CheckLock(p) \/ SetLockBusy(p) \/ SetLock(p) \/ BeginBusy(p)
      PROVE  Rest'
  <2>1. UNCHANGED <<db, work, writer>>
    BY <1>7 DEF CheckLock, SetLockBusy, SetLock, BeginBusy
  <2>2. ContentsAreTrue' /\ NothingOverwritten'
    <3>1. ContentsAreTrue'
      BY <1>1, <2>1 DEF Rest, ContentsAreTrue, TrueOf
    <3>2. pc[p] \in {"check", "set", "begin"}
      BY <1>7 DEF CheckLock, SetLockBusy, SetLock, BeginBusy
    <3>3. writer # p
      BY <1>1, <3>2 DEF Rest, WriterMigrates
    <3>4. writer # None => pc'[writer] = pc[writer]
      BY <1>1, <1>7, <3>3
      DEF CheckLock, SetLockBusy, SetLock, BeginBusy, Refused, Goto, Down, TypeOK
    <3>5. QED
      BY <1>1, <2>1, <3>1, <3>4 DEF Rest, NothingOverwritten
  <2>3. QED
    BY <1>1, <1>7, <2>1, <2>2
    DEF CheckLock, SetLockBusy, SetLock, BeginBusy, Refused, Goto, Down, Forget, Rest, TypeOK,
        WriterMigrates, TablesCreated, ReadIsReached, StepsDone, DoneMeansMigrated
<1>8. ASSUME NEW p \in Process, Begin(p) PROVE Rest'
  <2>1. \A n \in Steps : n <= from[p] => n \in db.steps \/ (n = 2 /\ db.gone)
    BY <1>1, <1>3, <1>8
    DEF Begin, Rest, ReadIsReached, ContentsAreTrue, TrueOf, TypeOK, Steps, Target
  <2>2. ContentsAreTrue'
    BY <1>1, <1>8 DEF Begin, Rest, ContentsAreTrue, TrueOf
  <2>3. QED
    BY <1>1, <1>8, <2>1, <2>2
    DEF Begin, Goto, Rest, TypeOK, WriterMigrates, TablesCreated, ReadIsReached, StepsDone,
        DoneMeansMigrated, NothingOverwritten
<1>9. ASSUME NEW p \in Process, NEW n \in Steps, MigrationStep(p, n) PROVE Rest'
  <2>1. /\ work'.steps = work.steps \cup {n} /\ work'.messages = work.messages
        /\ work'.version = work.version /\ work'.gone = work.gone
    BY <1>1, <1>9 DEF MigrationStep, TypeOK, Contents
  <2>2. writer = p /\ writer' = p /\ db' = db /\ pc' = pc
    BY <1>1, <1>9 DEF MigrationStep, Rest, WriterMigrates
  <2>3. StepsDone'
    <3> SUFFICES ASSUME NEW q \in Process, NEW k \in Steps, pc'[q] = "migrating", k <= from'[q]
                 PROVE  k \in work'.steps \/ (k = 2 /\ work'.gone)
      BY DEF StepsDone
    <3>1. q = p /\ from'[q] = n
      BY <1>1, <1>9, <2>2 DEF MigrationStep, Rest, WriterMigrates, TypeOK
    <3>2. k = n \/ k <= from[p]
      BY <1>1, <1>9, <3>1 DEF MigrationStep, TypeOK, Steps, Target
    <3>3. QED
      BY <1>1, <1>9, <2>1, <3>2 DEF MigrationStep, Rest, StepsDone
  <2>4. ContentsAreTrue'
    BY <1>1, <2>1, <2>2 DEF Rest, ContentsAreTrue, TrueOf
  <2>5. NothingOverwritten'
    BY <1>1, <2>1, <2>2 DEF Rest, NothingOverwritten
  <2>6. QED
    BY <1>1, <1>9, <2>2, <2>3, <2>4, <2>5
    DEF MigrationStep, Rest, TypeOK, WriterMigrates, TablesCreated, ReadIsReached,
        DoneMeansMigrated
<1>10. ASSUME NEW p \in Process, DropSessions(p) \/ RenameSessions(p) PROVE Rest'
  <2>1. pc[p] \in {"migrating", "dropped"} /\ writer = p /\ writer' = p /\ db' = db
    BY <1>1, <1>10 DEF DropSessions, RenameSessions, Rest, WriterMigrates
  <2>2. /\ pc'[p] \in {"migrating", "dropped"}
        /\ \A q \in Process \ {p} : pc'[q] = pc[q] /\ from'[q] = from[q]
    BY <1>1, <1>10, <2>1 DEF DropSessions, RenameSessions, Goto, TypeOK
  <2>3. \/ work' = work /\ work.gone /\ pc'[p] = "migrating" /\ from'[p] = 2
        \/ /\ work'.gone /\ work'.steps = work.steps \ {2} /\ work'.messages = 0
           /\ work'.version = work.version /\ pc'[p] = "dropped"
        \/ /\ ~work'.gone /\ work'.steps = work.steps \cup {2} /\ work'.messages = work.messages
           /\ work'.version = work.version /\ pc'[p] = "migrating" /\ from'[p] = 2
    BY <1>1, <1>10 DEF DropSessions, RenameSessions, Goto, TypeOK, Contents
  <2>4. \A q \in Process \ {p} : pc[q] \notin {"migrating", "dropped"}
    BY <1>1, <2>1 DEF Rest, WriterMigrates
  <2>5. StepsDone'
    <3>1. \A n \in Steps : n <= 2 => n = 2
      BY DEF Steps
    <3>2. QED
      BY <2>2, <2>3, <2>4, <3>1 DEF StepsDone
  <2>6. ContentsAreTrue'
    <3>1. TrueOf(work)'
      BY <1>1, <2>1, <2>3 DEF Rest, ContentsAreTrue, TrueOf
    <3>2. QED
      BY <1>1, <2>1, <3>1 DEF Rest, ContentsAreTrue, TrueOf
  <2>7. NothingOverwritten'
    BY <1>1, <2>1, <2>2, <2>3 DEF Rest, NothingOverwritten
  <2>8. QED
    BY <1>1, <2>1, <2>2, <2>4, <2>5, <2>6, <2>7
    DEF Rest, WriterMigrates, TablesCreated, ReadIsReached, DoneMeansMigrated
<1>11. ASSUME NEW p \in Process, Commit(p) PROVE Rest'
  <2>1. writer = p /\ writer' = None
    BY <1>1, <1>11 DEF Commit, Rest, WriterMigrates
  <2>2. db'.steps = work.steps /\ db'.version = Target /\ db'.gone = work.gone
    BY <1>1, <1>11 DEF Commit, TypeOK, Contents
  <2>3. ContentsAreTrue'
    BY <1>1, <1>11, <2>1, <2>2 DEF Commit, Rest, StepsDone, ContentsAreTrue, TrueOf
  <2>4. \A q \in Process \ {p} : pc'[q] = pc[q] /\ pc[q] \notin {"migrating", "dropped"}
    BY <1>1, <1>11, <2>1 DEF Commit, Goto, Rest, WriterMigrates, TypeOK
  <2>5. pc'[p] = "release" /\ from' = from
    BY <1>1, <1>11 DEF Commit, Goto, TypeOK
  <2>6. TablesCreated'
    <3>1. \A q \in Process : pc'[q] = "insert" => began = 0 /\ Steps \subseteq db'.steps
      BY <1>1, <1>2, <2>4, <2>5 DEF Rest, TablesCreated
    <3>2. QED
      BY <1>1, <2>2, <3>1 DEF TablesCreated, Target
  <2>7. QED
    BY <1>1, <1>2, <1>3, <2>1, <2>2, <2>3, <2>4, <2>5, <2>6
    DEF Rest, TypeOK, WriterMigrates, ReadIsReached, StepsDone, DoneMeansMigrated,
        NothingOverwritten, Target
<1>12. ASSUME NEW p \in Process, Release(p) \/ MigrationFails(p) \/ Cancel(p) \/ Crash(p)
       PROVE  Rest'
  <2>1. /\ work' = work
        /\ \/ db' = db /\ writer' = writer /\ (writer = p => pc'[p] = "failed")
           \/ db' = db /\ writer' = None
           \/ db' = work /\ writer = p /\ writer' = None
    BY <1>1, <1>12 DEF Release, MigrationFails, Cancel, Crash, Goto, TypeOK
  <2>2. /\ \A q \in Process \ {p} : pc'[q] = pc[q] /\ from'[q] = from[q]
        /\ pc'[p] \in {"up", "down", "failed"}
        /\ pc'[p] = "up" => pc[p] = "release"
    BY <1>1, <1>12 DEF Release, MigrationFails, Cancel, Crash, Goto, Up, Down, Forget, TypeOK
  <2>3. writer = p => /\ p # None
                      /\ \A q \in Process \ {p} : pc[q] \notin {"migrating", "dropped"}
    BY <1>1 DEF Rest, WriterMigrates
  <2>4. db'.version = db.version
    BY <1>1, <2>1, <2>3 DEF Rest, NothingOverwritten
  <2>5. WriterMigrates'
    <3>1. \A q \in Process : pc'[q] \in {"migrating", "dropped"} => q # p /\ writer = q /\ writer' = q
      BY <1>1, <1>12, <2>2, <2>3
      DEF Release, MigrationFails, Cancel, Crash, Rest, WriterMigrates
    <3>2. \A q \in Process : writer' = q => pc'[q] \in {"migrating", "dropped", "failed"}
      BY <1>1, <2>1, <2>2 DEF Rest, WriterMigrates
    <3>3. QED
      BY <3>1, <3>2 DEF WriterMigrates
  <2>6. TablesCreated'
    <3>1. db.version = 0 => began = 0
      BY <1>1, <1>3 DEF Rest, TablesCreated
    <3>2. QED
      BY <1>1, <1>2, <2>2, <2>4, <3>1 DEF Rest, TablesCreated
  <2>7. ContentsAreTrue'
    BY <1>1, <2>1, <2>3 DEF Rest, ContentsAreTrue, TrueOf
  <2>8. NothingOverwritten'
    <3>1. writer' # None => db' = db /\ writer' = writer
      BY <2>1
    <3>2. writer' # None => writer' \in Process
      BY <1>1 DEF TypeOK
    <3>3. writer' # None => pc'[writer'] \in {"migrating", "dropped", "failed"}
      BY <2>5, <3>2 DEF WriterMigrates
    <3>4. QED
      BY <1>1, <2>1, <3>1, <3>3 DEF Rest, NothingOverwritten
  <2>9. QED
    BY <1>1, <2>1, <2>2, <2>4, <2>5, <2>6, <2>7, <2>8
    DEF Rest, ReadIsReached, StepsDone, DoneMeansMigrated
<1>13. ASSUME NEW p \in Process, Write(p) PROVE Rest'
  <2>1. /\ writer = None /\ db'.version = db.version /\ db'.steps = db.steps
        /\ db'.gone = db.gone
    BY <1>1, <1>13 DEF Write, TypeOK, Contents
  <2>2. ContentsAreTrue'
    BY <1>1, <1>13, <2>1 DEF Write, Rest, ContentsAreTrue, TrueOf
  <2>3. QED
    BY <1>1, <1>13, <2>1, <2>2
    DEF Write, Rest, TypeOK, WriterMigrates, TablesCreated, ReadIsReached, StepsDone,
        DoneMeansMigrated, NothingOverwritten
<1>14. CASE LockAges \/ UNCHANGED vars
  BY <1>1, <1>14
  DEF LockAges, vars, Rest, TypeOK, WriterMigrates, TablesCreated, ReadIsReached, StepsDone,
      DoneMeansMigrated, ContentsAreTrue, TrueOf, NothingOverwritten
<1>15. QED
  BY <1>4, <1>5, <1>6, <1>7, <1>8, <1>9, <1>10, <1>11, <1>12, <1>13, <1>14
  DEF Next, Opening, Fault

(* The invariant behind the safety theorems holds of every reachable state.*)
THEOREM Invariance == Spec => []IInv
<1>1. Init => IInv
  <2> SUFFICES ASSUME Init PROVE IInv
    OBVIOUS
  <2>1. TypeOK /\ began \in 0..Target
    BY TypeInit, MigrationAssumption DEF Init
  <2>2. db.version = began /\ ~db.gone /\ db.steps = {n \in Steps : n <= began}
    BY DEF Init
  <2>3. ContentsAreTrue /\ OnlyFromOne
    BY <2>2 DEF Init, ContentsAreTrue, TrueOf, OnlyFromOne, NoRebuild
  <2>4. QED
    BY <2>1, <2>2, <2>3, MigrationAssumption
    DEF Init, IInv, WriterMigrates, TablesCreated, ReadIsReached, StepsDone, DoneMeansMigrated,
        NothingOverwritten, Target
<1>2. IInv /\ [Next]_vars => IInv'
  <2>1. IInv /\ [Next]_vars => TypeOK' /\ (began \in 0..Target)'
    BY TypeStep, BeganStays DEF IInv, Target
  <2>2. QED
    BY <2>1, RestStep, OnlyFromOneStep DEF IInv, Rest
<1>3. QED
  BY <1>1, <1>2, PTL DEF Spec

(* The schema version row is true of the tables in every reachable state,  *)
(* but for a table sessions that a cancelled rebuild dropped.              *)
THEOREM VersionTrue == Spec => []VersionIsTrue
<1>1. IInv => VersionIsTrue
  <2> SUFFICES ASSUME IInv, NEW n \in Steps, n <= db.version
               PROVE  n \in db.steps \/ (n = 2 /\ db.gone /\ began = 1)
    BY DEF VersionIsTrue
  <2>1. n \in db.steps \/ (n = 2 /\ db.gone)
    BY DEF IInv, ContentsAreTrue, TrueOf
  <2>2. db.gone => began = 1
    BY DEF IInv, OnlyFromOne, NoRebuild
  <2>3. QED
    BY <2>1, <2>2
<1>2. QED
  BY <1>1, Invariance, PTL

(* connect returns only on a file of the current schema version.           *)
THEOREM ConnectedMeansMigrated == Spec => []UpMeansMigrated
<1>1. IInv => UpMeansMigrated
  BY DEF IInv, DoneMeansMigrated, UpMeansMigrated
<1>2. QED
  BY <1>1, Invariance, PTL

(* Two holders of the racy lock do not overwrite each other's work.        *)
THEOREM MigrationsSerialized == Spec => []NothingOverwritten
BY Invariance, PTL DEF IInv

(* Nothing is saved under an old schema.                                   *)
Unsaved == db.version # Target => db.messages = 0

LEMMA UnsavedStep ==
    ASSUME IInv, Unsaved, [Next]_vars
    PROVE  Unsaved'
<1>1. TypeOK
  BY DEF IInv
<1>2. ASSUME NEW p \in Process, Connect(p) PROVE Unsaved'
  BY <1>1, <1>2 DEF Connect, Unsaved, TypeOK, Contents
<1>3. ASSUME NEW p \in Process, InsertVersion(p) \/ Commit(p) PROVE Unsaved'
  BY <1>1, <1>3 DEF InsertVersion, Commit, Unsaved, TypeOK, Contents
<1>4. ASSUME NEW p \in Process, Write(p) PROVE Unsaved'
  BY <1>1, <1>4 DEF Write, Unsaved, IInv, DoneMeansMigrated, TypeOK, Contents
<1>5. ASSUME NEW p \in Process, Release(p) PROVE Unsaved'
  <2>1. db' = db \/ (db' = work /\ writer # None)
    BY <1>5, MigrationAssumption DEF Release
  <2>2. QED
    BY <2>1 DEF Unsaved, IInv, NothingOverwritten
<1>6. CASE UNCHANGED db
  BY <1>6 DEF Unsaved
<1>7. QED
  BY <1>2, <1>3, <1>4, <1>5, <1>6
  DEF Next, Opening, Fault, vars, ReadVersion, CheckLock, SetLock, SetLockBusy, Begin, BeginBusy,
      DropSessions, RenameSessions, MigrationStep, MigrationFails, Cancel, Crash, LockAges

(* Opening the file implements SchemaFile: whatever the processes race,    *)
(* crash and retry, it is upgraded in one step, and no saved message is    *)
(* lost unless the file began at version 1.                                *)
THEOREM Refinement == Spec => ImplementsSchemaFile
<1> USE MigrationAssumption
<1>1. Init => Unsaved /\ File!Init
  <2> SUFFICES ASSUME Init PROVE Unsaved /\ File!Init
    OBVIOUS
  <2>1. db.version = began /\ db.messages = 0
    BY DEF Init
  <2>2. QED
    BY <2>1 DEF Init, Unsaved, File!Init
<1>2. ASSUME IInv, Unsaved, [Next]_vars
      PROVE  [File!Next]_<<began, db.version, db.messages>>
  <2>1. TypeOK /\ began' = began
    BY <1>2, BeganStays DEF IInv
  <2>2. ASSUME NEW p \in Process, Connect(p) PROVE UNCHANGED <<db.version, db.messages>>
    BY <2>1, <2>2 DEF Connect, TypeOK, Contents
  <2>3. ASSUME NEW p \in Process, InsertVersion(p)
        PROVE  File!Upgrade \/ UNCHANGED <<db.version, db.messages>>
    BY <2>1, <2>3 DEF InsertVersion, TypeOK, Contents, Target, File!Upgrade
  <2>4. ASSUME NEW p \in Process, writer = p, db'.version \in {Target, db.version},
                db'.messages = work.messages
         PROVE  File!Upgrade \/ File!Rebuild \/ UNCHANGED <<db.version, db.messages>>
    <3>1. work.messages \in {0, db.messages}
      BY <1>2, <2>4 DEF IInv, NothingOverwritten
    <3>2. CASE db.version # Target
      BY <1>2, <2>1, <2>4, <3>1, <3>2 DEF Unsaved, File!Upgrade
    <3>3. CASE db.version = Target /\ began # 1
      BY <1>2, <2>4, <3>3 DEF IInv, OnlyFromOne, NoRebuild
    <3>4. CASE db.version = Target /\ began = 1
      BY <2>1, <2>4, <3>1, <3>4 DEF File!Rebuild
    <3>5. QED
      BY <3>2, <3>3, <3>4
  <2>5. ASSUME NEW p \in Process, Commit(p)
        PROVE  File!Upgrade \/ File!Rebuild \/ UNCHANGED <<db.version, db.messages>>
    <3>1. writer = p /\ db'.version = Target /\ db'.messages = work.messages
      BY <1>2, <2>1, <2>5 DEF Commit, IInv, WriterMigrates, TypeOK, Contents
    <3>2. QED
      BY <2>4, <3>1
  <2>6. ASSUME NEW p \in Process, Release(p)
         PROVE  File!Upgrade \/ File!Rebuild \/ UNCHANGED <<db.version, db.messages>>
    <3>1. db' = db \/ (db' = work /\ writer = p)
      BY <2>6 DEF Release
    <3>2. writer = p => work.version = db.version
      BY <1>2 DEF IInv, NothingOverwritten
    <3>3. QED
      BY <2>4, <3>1, <3>2
  <2>7. ASSUME NEW p \in Process, Write(p) PROVE File!Save
    <3>1. db.version = Target
      BY <1>2, <2>7 DEF Write, IInv, DoneMeansMigrated
    <3>2. db'.version = db.version /\ db'.messages = db.messages + 1
      BY <2>1, <2>7 DEF Write, TypeOK, Contents
    <3>3. QED
      BY <2>1, <3>1, <3>2 DEF File!Save
  <2>8. CASE UNCHANGED db
    BY <2>1, <2>8
  <2>9. QED
    BY <1>2, <2>1, <2>2, <2>3, <2>5, <2>6, <2>7, <2>8
    DEF Next, Opening, Fault, vars, ReadVersion, CheckLock, SetLock, SetLockBusy, Begin, BeginBusy,
        DropSessions, RenameSessions, MigrationStep, MigrationFails, Cancel, Crash, LockAges, File!Next
<1>3. IInv /\ Unsaved /\ [Next]_vars => Unsaved'
  BY UnsavedStep
<1>4. QED
  BY <1>1, <1>2, <1>3, Invariance, PTL DEF Spec, ImplementsSchemaFile, File!Spec
=============================================================================
