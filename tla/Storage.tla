-------------------------------- MODULE Storage --------------------------------
(***************************************************************************)
(* SQLiteDatabase (src/smart_desk/storage/sqlite.py) with the operations   *)
(* of ProfileRepository and HeightCacheRepository, over a file that        *)
(* outlives the process.                                                   *)
(*                                                                         *)
(* Callers are tasks of the asyncio loop, Life is the lifecycle that       *)
(* starts and stops the database. Whoever holds _operation_lock has a      *)
(* worker thread (work): it opens a connection of its own and steps        *)
(* through its transaction, whose uncommitted state is work.copy. The      *)
(* loop, the worker and a crash of the process interleave freely.          *)
(*                                                                         *)
(* Rows are a function of keys: the profile ids, and one key for the       *)
(* single row of desk_height_cache. The column checks, the quick check of  *)
(* a damaged file and the path handling are the outcome "failed".          *)
(***************************************************************************)
EXTENDS LockQueue

CONSTANTS Callers, Life, Keys, Values, Requests,
          CacheKey,     \* the row of the height cache
          Nothing       \* no row, no request, no reply, no owner of the lock

Threads == Callers \cup {Life}

ASSUME CallerAssumption == Life \notin Callers /\ Nothing \notin Threads

ASSUME RequestAssumption ==
    /\ Requests \subseteq [op : {"get", "create", "update", "delete", "save"},
                           key : Keys, value : Values]
    /\ Nothing \notin Requests /\ Nothing \notin Values /\ CacheKey \in Keys
    /\ Nothing \notin {"missing", "conflict", "done", "failed"}

VARIABLES
    started, closing,   \* _started, _closing
    holder, waiters,    \* _operation_lock: FIFO
    pc, req,            \* where each thread is, and what a caller asked for
    cancelled,          \* callers whose CancelledError waits for their worker
    work,               \* worker of each thread: stage, open transaction, result
    file                \* user_version, tables and rows on the disk

lockVars == <<holder, waiters>>
lifeVars == <<started, closing>>
vars == <<lifeVars, lockVars, pc, req, cancelled, work, file>>

CURRENT_SCHEMA_VERSION == 2
Table == <<"profiles", "desk_height_cache">>    \* what each migration adds
Tables == {"profiles", "desk_height_cache"}
Whole(f) == /\ f.version \in 0..CURRENT_SCHEMA_VERSION
            /\ f.tables = {Table[i] : i \in 1..f.version}

\* The callers as the store sees them: what each has asked, and the answer of a
\* worker that is done.
Answer(w) == IF w.stage = "over" THEN w.reply ELSE Nothing
calls == [c \in Callers |-> [req |-> req[c], reply |-> Answer(work[c])]]

Store == INSTANCE ProfileStore WITH rows <- file.rows, call <- calls

NoRows == [k \in Keys |-> Nothing]
NoFile == [version |-> 0, tables |-> {}, rows |-> NoRows]
NoWork == [stage |-> "none", copy |-> NoFile, reply |-> Nothing]
Opened == [NoWork EXCEPT !.stage = "open"]
Over(x) == [NoWork EXCEPT !.stage = "over", !.reply = x]

-----------------------------------------------------------------------------
(* The lock and the callers, on the loop *)

Serving == started /\ ~closing

Acquire(t) == IF holder = Nothing THEN holder' = t /\ UNCHANGED waiters
              ELSE waiters' = Append(waiters, t) /\ UNCHANGED holder

\* Mutant of Release: an early return that keeps the lock.
ReleaseNobody == UNCHANGED lockVars
Release == IF waiters = <<>> THEN holder' = Nothing /\ UNCHANGED waiters
           ELSE holder' = Head(waiters) /\ waiters' = Tail(waiters)

Admit(c) == /\ pc' = [pc EXCEPT ![c] = "working"]
            /\ work' = [work EXCEPT ![c] = Opened]

\* read() and write(): refused at once, straight to the worker when the lock is
\* free, or into its queue.
Call(c) ==
    /\ pc[c] = "idle"
    /\ Serving
    /\ \E r \in Requests : req' = [req EXCEPT ![c] = r]
    /\ Acquire(c)
    /\ \/ holder = Nothing /\ Admit(c)
       \/ /\ holder # Nothing
          /\ pc' = [pc EXCEPT ![c] = "queued"]
          /\ UNCHANGED work
    /\ UNCHANGED <<lifeVars, cancelled, file>>

Leaves(c) == /\ pc' = [pc EXCEPT ![c] = "idle"]
             /\ req' = [req EXCEPT ![c] = Nothing]

\* The second check, under the lock: a stop may have begun meanwhile.
Admitted(c) == Serving /\ Admit(c) /\ UNCHANGED <<lockVars, req>>
Turned(c) == ~Serving /\ Leaves(c) /\ Release /\ UNCHANGED work
Enter(c) == /\ pc[c] = "queued" /\ holder = c
            /\ Admitted(c) \/ Turned(c)
            /\ UNCHANGED <<lifeVars, cancelled, file>>

\* A caller cancelled while it waits for the lock, or has just been given it.
Withdraw(c) ==
    /\ pc[c] = "queued"
    /\ IF holder = c THEN Release
       ELSE waiters' = Without(waiters, c) /\ UNCHANGED holder
    /\ Leaves(c)
    /\ UNCHANGED <<lifeVars, cancelled, work, file>>

\* Mutant of CancelWorking: the cancelled caller does not wait for its worker.
AbandonWorker(c) == /\ pc[c] = "working"
                    /\ Leaves(c)
                    /\ Release
                    /\ UNCHANGED <<lifeVars, cancelled, work, file>>

\* _await_completion: the worker is shielded and the caller goes on waiting.
CancelWorking(c) == /\ pc[c] = "working" /\ c \notin cancelled
                    /\ cancelled' = cancelled \cup {c}
                    /\ UNCHANGED <<lifeVars, lockVars, pc, req, work, file>>

Finish(c) == /\ pc[c] = "working" /\ work[c].stage = "over"
             /\ Leaves(c)
             /\ Release
             /\ work' = [work EXCEPT ![c] = NoWork]
             /\ UNCHANGED <<lifeVars, file>>

\* Mutant of Resume: the cancellation is left for a later request.
ResumeLate(c) == Finish(c) /\ UNCHANGED cancelled

\* The answer, the error or the delayed CancelledError.
Resume(c) == Finish(c) /\ cancelled' = cancelled \ {c}

-----------------------------------------------------------------------------
(* _execute_sync, in the worker of caller c *)

\* Somebody's BEGIN IMMEDIATE has not ended: SQLite lets no other one in.
Writing == \E t \in Threads : work[t].stage \in {"begun", "operated", "failing"}

Fails(c) == work' = [work EXCEPT ![c] = Over("failed")]

Read(c) == /\ work[c].stage = "open" /\ req[c].op = "get"
           /\ \/ work' = [work EXCEPT ![c] = Over(Store!Reply(req[c], file.rows))]
              \/ Fails(c)

Begin(c) == /\ work[c].stage = "open" /\ req[c].op # "get"
            /\ \/ /\ ~Writing
                  /\ work' = [work EXCEPT ![c].stage = "begun", ![c].copy = file]
               \/ Fails(c)

\* The callback: a missing or a conflicting row raises; an SQL error may come
\* before or after the statement that changes the row.
Operate(c) ==
    /\ work[c].stage = "begun"
    /\ LET d == work[c].copy.rows
           x == Store!Reply(req[c], d)
           n == Store!After(req[c], d)
       IN \/ work' = [work EXCEPT ![c].copy.rows = n, ![c].reply = x,
                        ![c].stage = IF x = "done" THEN "operated" ELSE "failing"]
          \/ \E e \in {d, n} :
                work' = [work EXCEPT ![c].copy.rows = e, ![c].reply = "failed",
                                     ![c].stage = "failing"]

\* COMMIT, which may fail
Commit(c) ==
    /\ work[c].stage = "operated"
    /\ \/ file' = work[c].copy /\ work' = [work EXCEPT ![c] = Over(work[c].reply)]
       \/ /\ work' = [work EXCEPT ![c].stage = "failing", ![c].reply = "failed"]
          /\ UNCHANGED file

\* Mutant of RollBack: an error path that commits what was done so far.
CommitAnyway(c) == /\ work[c].stage = "failing"
                   /\ file' = work[c].copy
                   /\ work' = [work EXCEPT ![c] = Over(work[c].reply)]

\* ROLLBACK; when it fails itself, closing the connection drops the transaction.
RollBack(c) == /\ work[c].stage = "failing"
               /\ work' = [work EXCEPT ![c] = Over(work[c].reply)]
               /\ UNCHANGED file

Execute(c) == /\ \/ (Read(c) \/ Begin(c) \/ Operate(c)) /\ UNCHANGED file
                 \/ Commit(c) \/ RollBack(c)
              /\ UNCHANGED <<lifeVars, lockVars, pc, req, cancelled>>

-----------------------------------------------------------------------------
(* start() and _start_sync *)

Start == /\ pc[Life] = "down"
         /\ pc' = [pc EXCEPT ![Life] = "starting"]
         /\ Acquire(Life)
         /\ UNCHANGED <<lifeVars, req, cancelled, work, file>>

Prepare == /\ pc[Life] = "starting" /\ holder = Life /\ work[Life] = NoWork
           /\ closing' = FALSE
           /\ work' = [work EXCEPT ![Life] = Opened]
           /\ UNCHANGED <<started, lockVars, pc, req, cancelled, file>>

Refuse(x) == work' = [work EXCEPT ![Life] = Over(x)]

\* quick_check and user_version: what has to be done first.
Inspect ==
    /\ work[Life].stage = "open"
    /\ \/ Refuse("failed")
       \/ file.version > CURRENT_SCHEMA_VERSION /\ Refuse("version")
       \/ /\ file.version <= CURRENT_SCHEMA_VERSION
          /\ work' = [work EXCEPT ![Life].stage =
                        IF file.version = CURRENT_SCHEMA_VERSION THEN "verify" ELSE "migrate"]

\* _migrate_to_version_1, _2: BEGIN IMMEDIATE and CREATE TABLE, which fails
\* when the table is there.
Create ==
    /\ work[Life].stage = "migrate"
    /\ \/ Refuse("failed")
       \/ /\ Table[file.version + 1] \notin file.tables
          /\ work' = [work EXCEPT ![Life].stage = "begun",
                        ![Life].copy = [file EXCEPT !.tables = @ \cup {Table[file.version + 1]}]]

\* Mutant of Number: the version is written in a transaction of its own.
NumberLater == /\ work[Life].stage = "begun"
               /\ file' = work[Life].copy
               /\ work' = [work EXCEPT ![Life].stage = "operated",
                                       ![Life].copy.version = @ + 1]

\* PRAGMA user_version, inside the transaction
Number == /\ work[Life].stage = "begun"
          /\ \/ work' = [work EXCEPT ![Life].stage = "operated",
                                     ![Life].copy.version = @ + 1]
             \/ Refuse("failed")
          /\ UNCHANGED file

Migrated ==
    /\ work[Life].stage = "operated"
    /\ \/ /\ file' = work[Life].copy
          /\ work' = [work EXCEPT ![Life].copy = NoFile, ![Life].stage =
               IF work[Life].copy.version = CURRENT_SCHEMA_VERSION THEN "verify" ELSE "migrate"]
       \/ Refuse("failed") /\ UNCHANGED file

\* _verify_version_2_schema: the tables, then probing rows behind a savepoint,
\* for which the row of the height cache is deleted.
Verify ==
    /\ work[Life].stage = "verify"
    /\ \/ Refuse("failed")
       \/ /\ ~Whole(file)
          /\ Refuse("version")
       \/ /\ Whole(file)
          /\ work' = [work EXCEPT ![Life].stage = "probing",
                                  ![Life].copy = [file EXCEPT !.rows[CacheKey] = Nothing]]

\* Mutant of Restore: RELEASE without ROLLBACK TO.
ReleaseOnly == /\ work[Life].stage = "probing"
               /\ file' = work[Life].copy
               /\ Refuse("done")

\* ROLLBACK TO the savepoint and RELEASE
Restore == /\ work[Life].stage = "probing"
           /\ Refuse("done")
           /\ UNCHANGED file

StartSync == /\ \/ (Inspect \/ Create \/ Verify) /\ UNCHANGED file
                \/ Number \/ Migrated \/ Restore
             /\ UNCHANGED <<lifeVars, lockVars, pc, req, cancelled>>

\* A start that was cancelled ends here too, once its worker has: not started.
Started == /\ pc[Life] = "starting" /\ work[Life].stage = "over"
           /\ work' = [work EXCEPT ![Life] = NoWork]
           /\ Release
           /\ \/ /\ work[Life].reply = "done"
                 /\ started' = TRUE
                 /\ pc' = [pc EXCEPT ![Life] = "up"]
              \/ /\ pc' = [pc EXCEPT ![Life] = "down"]
                 /\ UNCHANGED started
           /\ UNCHANGED <<closing, req, cancelled, file>>

-----------------------------------------------------------------------------
(* stop() *)

\* stop() and the first step of the task it creates: closing keeps every other
\* newcomer out, so nobody can come between the two.
Stop == /\ pc[Life] = "up"
        /\ closing' = TRUE
        /\ pc' = [pc EXCEPT ![Life] = "stopping"]
        /\ Acquire(Life)
        /\ UNCHANGED <<started, req, cancelled, work, file>>

\* Mutant of FinishStop: stop does not wait for the operations under way.
StopAtOnce == /\ pc[Life] = "stopping"
              /\ started' = FALSE /\ closing' = FALSE
              /\ waiters' = Without(waiters, Life)
              /\ holder' = IF holder = Life THEN Nothing ELSE holder
              /\ pc' = [pc EXCEPT ![Life] = "down"]
              /\ UNCHANGED <<req, cancelled, work, file>>

FinishStop == /\ pc[Life] = "stopping" /\ holder = Life
              /\ started' = FALSE /\ closing' = FALSE
              /\ Release
              /\ pc' = [pc EXCEPT ![Life] = "down"]
              /\ UNCHANGED <<req, cancelled, work, file>>

\* The process dies; the next one finds what was committed.
Crash == /\ pc[Life] # "down"
         /\ started' = FALSE /\ closing' = FALSE
         /\ holder' = Nothing /\ waiters' = <<>>
         /\ pc' = [t \in Threads |-> IF t = Life THEN "down" ELSE "idle"]
         /\ req' = [c \in Callers |-> Nothing]
         /\ cancelled' = {}
         /\ work' = [t \in Threads |-> NoWork]
         /\ UNCHANGED file

-----------------------------------------------------------------------------
\* A version up to one of a newer program, and any tables: those of this
\* program, of which some may be missing, and "other", which is not its own.
FileType == [version : 0..3, tables : SUBSET (Tables \cup {"other"}),
             rows : [Keys -> Values \cup {Nothing}]]
TableOf(k) == IF k = CacheKey THEN "desk_height_cache" ELSE "profiles"
Files == {f \in FileType : \A k \in Keys : f.rows[k] # Nothing => TableOf(k) \in f.tables}

Init == /\ started = FALSE /\ closing = FALSE
        /\ holder = Nothing /\ waiters = <<>>
        /\ pc = [t \in Threads |-> IF t = Life THEN "down" ELSE "idle"]
        /\ req = [c \in Callers |-> Nothing]
        /\ cancelled = {}
        /\ work = [t \in Threads |-> NoWork]
        /\ file \in Files

CallerStep(c) == Enter(c) \/ Resume(c) \/ Execute(c)
LifeStep == Prepare \/ StartSync \/ Started \/ FinishStop

Next == \/ \E c \in Callers : Call(c) \/ Withdraw(c) \/ CancelWorking(c) \/ CallerStep(c)
        \/ Start \/ Stop \/ LifeStep
        \/ Crash

Spec == Init /\ [][Next]_vars

\* The loop runs what is ready, and every worker ends: SQLite waits for a lock
\* for five seconds only.
Fairness == WF_vars(LifeStep) /\ \A c \in Callers : WF_vars(CallerStep(c))
FairSpec == Spec /\ Fairness

-----------------------------------------------------------------------------
Stages == {"none", "open", "begun", "operated", "failing", "migrate", "verify",
           "probing", "over"}

\* Types of all variables of SQLiteDatabase and its workers; a cancellation is held
\* back only while a caller waits for its worker (_await_completion).
TypeOK == /\ started \in BOOLEAN /\ closing \in BOOLEAN
          /\ holder \in Threads \cup {Nothing} /\ waiters \in Seq(Threads)
          /\ pc \in [Threads -> {"idle", "queued", "working", "down", "starting", "up",
                                 "stopping"}]
          /\ req \in [Callers -> Requests \cup {Nothing}]
          /\ cancelled \subseteq {c \in Callers : pc[c] = "working"}
          /\ work \in [Threads -> [stage : Stages, copy : FileType, reply :
                {"missing", "conflict", "done", "failed", "version", Nothing} \cup Values]]
          /\ file \in FileType

\* _await_completion and the lock: a worker touches the file only while its
\* caller holds the lock, cancelled or not, and so there is never more than one.
LockCoversWorker == \A t \in Threads : work[t] # NoWork => holder = t

\* stop() drains: once it has returned, and until the next start, no operation
\* runs, none waits, and nobody owns the lock.
QuietWhenDown == pc[Life] = "down" =>
    /\ holder = Nothing /\ waiters = <<>>
    /\ \A t \in Threads : work[t] = NoWork

\* The migrations, whatever is interrupted wherever: a file of this program stays
\* one the next start continues from, no other file is ever made into one, the
\* version never goes back and no table goes. Another file loses no row, and one
\* that needs no migration is left alone; an older one may be migrated before
\* _verify_version_2_schema refuses it.
FileIsCarried == [][/\ Whole(file) <=> Whole(file')
                    /\ file.version <= file'.version
                    /\ file.tables \subseteq file'.tables
                    /\ ~Whole(file) => /\ file'.rows = file.rows
                                       /\ file.version < CURRENT_SCHEMA_VERSION]_file

\* The database implements the store: answered means done once and as a whole,
\* also across rollbacks, cancellations, crashes and the probing of the schema.
IsProfileStore == Store!Spec

\* Every read() and write() comes back, and stop() ends, whatever fails.
OperationsEnd == /\ \A c \in Callers : pc[c] # "idle" ~> pc[c] = "idle"
                 /\ pc[Life] = "stopping" ~> pc[Life] = "down"
=============================================================================
