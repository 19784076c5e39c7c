----------------------------- MODULE Storage_proofs -----------------------------
(***************************************************************************)
(* Proofs about Storage, for any callers, requests, keys and values: the   *)
(* lock covers every worker, and no crash or failure spoils the file.      *)
(***************************************************************************)
EXTENDS Storage, LockQueue_proofs

Replies == {"missing", "conflict", "done", "failed", "version", Nothing} \cup Values

Work == [stage : Stages, copy : FileType, reply : Replies]

\* The types of what the two properties are about; the queue of the lock is not.
Types ==
    /\ started \in BOOLEAN
    /\ pc \in [Threads -> {"idle", "queued", "working", "down", "starting", "up",
                           "stopping"}]
    /\ req \in [Callers -> Requests \cup {Nothing}]
    /\ work \in [Threads -> Work]
    /\ file \in FileType

\* Whoever has a worker has the lock, and is where the code waits for a worker.
LockInv ==
    /\ \A t \in Threads :
          work[t] # NoWork => holder = t /\ pc[t] \in {"working", "starting"}
    /\ \A c \in Callers : pc[c] \in {"queued", "working"} => req[c] \in Requests
    /\ \A c \in Callers : pc[c] \in {"idle", "queued", "working"}
    /\ pc[Life] \in {"down", "starting", "up", "stopping"}

\* Operations run on a file that was found whole; before that only the migrations do.
ServeInv ==
    /\ pc[Life] \in {"down", "starting"} => ~started
    /\ \A c \in Callers : work[c] # NoWork => started
    /\ started => Whole(file)

\* What a worker holds back from the file: w is the worker, f the file.
CallerCopy(w, f) ==
    /\ w.stage \in {"none", "open", "begun", "operated", "failing", "over"}
    /\ w.stage \in {"begun", "operated", "failing"} =>
          w.copy.version = f.version /\ w.copy.tables = f.tables
LifeCopy(w, f) ==
    /\ w.stage \in {"migrate", "begun", "operated"} => f.version < CURRENT_SCHEMA_VERSION
    /\ w.stage \in {"begun", "operated"} =>
          /\ w.copy.version = IF w.stage = "begun" THEN f.version ELSE f.version + 1
          /\ w.copy.tables = f.tables \cup {Table[f.version + 1]}
          /\ Table[f.version + 1] \notin f.tables
          /\ w.copy.rows = f.rows
    /\ w.stage = "probing" \/ (w.stage = "over" /\ w.reply = "done") => Whole(f)
CopyInv == LifeCopy(work[Life], file) /\ \A c \in Callers : CallerCopy(work[c], file)

\* The inductive invariant.
IInv == Types /\ LockInv /\ ServeInv /\ CopyInv

-----------------------------------------------------------------------------
(* Files and workers *)

\* (_migrate_to_version_1, _2) A migration makes one whole file of another, and
\* of nothing else.
LEMMA NextVersion ==
  ASSUME NEW f \in FileType, NEW g \in FileType, f.version < CURRENT_SCHEMA_VERSION,
         g.version = f.version + 1, Table[f.version + 1] \notin f.tables,
         g.tables = f.tables \cup {Table[f.version + 1]}
  PROVE  Whole(f) <=> Whole(g)
<1>1. f.version \in 0..1
  BY DEF FileType, CURRENT_SCHEMA_VERSION
<1>2. CASE f.version = 0
  BY <1>2 DEF Whole, Table, CURRENT_SCHEMA_VERSION
<1>3. CASE f.version = 1
  BY <1>3 DEF Whole, Table, CURRENT_SCHEMA_VERSION
<1> QED  BY <1>1, <1>2, <1>3

\* (the tables are what PRAGMA user_version says) Rows do not matter.
LEMMA SameShape ==
  ASSUME NEW f, NEW g, f.version = g.version, f.tables = g.tables
  PROVE  Whole(f) <=> Whole(g)
BY DEF Whole

\* (_new_worker, _await_completion) The values a worker starts and ends with.
LEMMA WorkTypes ==
  /\ NoFile \in FileType
  /\ NoWork \in Work /\ NoWork.stage = "none"
  /\ Opened \in Work /\ Opened.stage = "open"
  /\ Opened # NoWork
  /\ \A x \in Replies : /\ Over(x) \in Work
                        /\ Over(x).stage = "over" /\ Over(x).reply = x /\ Over(x) # NoWork
<1>1. NoFile \in FileType
  BY DEF NoFile, NoRows, FileType, Tables
<1> QED
  BY <1>1 DEF Work, NoWork, Opened, Over, Stages, Replies

\* (ProfileRepository, HeightCacheRepository) What an operation answers and leaves.
LEMMA StoreTypes ==
  ASSUME NEW r \in Requests, NEW d \in [Keys -> Values \cup {Nothing}]
  PROVE  /\ Store!Reply(r, d) \in Replies
         /\ Store!After(r, d) \in [Keys -> Values \cup {Nothing}]
<1>1. r.key \in Keys /\ r.value \in Values
  BY RequestAssumption
<1> QED
  BY <1>1 DEF Store!Reply, Store!After, Store!Missing, Store!Conflict, Store!Put, Replies

\* (_operation_lock) While one worker is at work, no other is.
LEMMA Alone ==
  ASSUME IInv, NEW t \in Threads, work[t].stage # "none"
  PROVE  /\ holder = t /\ \A u \in Threads \ {t} : work[u] = NoWork
         /\ t = Life => pc[Life] = "starting" /\ ~started
         /\ t # Life => /\ t \in Callers /\ pc[t] = "working" /\ req[t] \in Requests
                        /\ started /\ Whole(file)
<1>1. work[t] # NoWork
  BY WorkTypes
<1>2. holder = t /\ \A u \in Threads \ {t} : work[u] = NoWork
  BY <1>1 DEF IInv, LockInv
<1> QED
  BY <1>1, <1>2, CallerAssumption DEF IInv, LockInv, ServeInv, Threads

\* (_execute_sync) What it takes for the worker of a caller to keep the invariant.
LEMMA CallerWork ==
  ASSUME IInv, NEW c \in Callers, work[c].stage # "none",
         work' \in [Threads -> Work], \A t \in Threads \ {c} : work'[t] = work[t],
         CallerCopy(work'[c], file'),
         file' \in FileType, file'.version = file.version, file'.tables = file.tables,
         UNCHANGED <<lifeVars, lockVars, pc, req>>
  PROVE  IInv'
<1> USE CallerAssumption DEF lifeVars, lockVars
<1>1. /\ c \in Threads /\ Life \in Threads /\ c # Life /\ holder = c /\ started
      /\ Whole(file')
      /\ pc[c] = "working" /\ \A u \in Threads \ {c} : work'[u] = NoWork
  BY Alone DEF Threads, Whole
<1>2. Types' /\ LockInv' /\ ServeInv'
  BY <1>1 DEF IInv, Types, LockInv, ServeInv, NoWork, Threads
<1>3. CopyInv'
  BY <1>1 DEF CopyInv, LifeCopy, CallerCopy, NoWork, Threads
<1> QED  BY <1>2, <1>3 DEF IInv

\* (_start_sync) What it takes for the worker of start().
LEMMA LifeWork ==
  ASSUME IInv, work[Life].stage # "none",
         work' \in [Threads -> Work], \A t \in Threads \ {Life} : work'[t] = work[t],
         LifeCopy(work'[Life], file'),
         file' \in FileType, UNCHANGED <<lifeVars, lockVars, pc, req>>
  PROVE  IInv'
<1> USE CallerAssumption DEF lifeVars, lockVars
<1>1. /\ Life \in Threads /\ holder = Life /\ ~started /\ pc[Life] = "starting"
      /\ \A u \in Threads \ {Life} : work'[u] = NoWork
  BY Alone DEF Threads
<1>2. Types' /\ LockInv' /\ ServeInv'
  BY <1>1 DEF IInv, Types, LockInv, ServeInv, NoWork, Threads
<1>3. CopyInv'
  BY <1>1 DEF CopyInv, CallerCopy, NoWork, Threads
<1> QED  BY <1>2, <1>3 DEF IInv

-----------------------------------------------------------------------------
(* The steps *)

\* (read, write, _await_completion) A caller comes, waits, is cancelled and goes.
LEMMA LockSteps ==
  ASSUME IInv,
         \E c \in Callers : Call(c) \/ Enter(c) \/ Withdraw(c) \/ CancelWorking(c) \/ Resume(c)
  PROVE  IInv'
<1> USE CallerAssumption
<1>1. ASSUME NEW c \in Callers, Call(c) PROVE IInv'
  <2>1. Types'
    BY <1>1, WorkTypes DEF Call, Serving, Acquire, Admit, IInv, Types, LockInv, Work, Stages,
        Replies, lifeVars, lockVars
  <2>2. LockInv'
    BY <1>1, WorkTypes DEF Call, Serving, Acquire, Admit, IInv, Types, LockInv, Threads,
        lifeVars, lockVars
  <2>3. ServeInv'
    BY <1>1, WorkTypes DEF Call, Serving, Acquire, Admit, IInv, Types, LockInv, ServeInv,
        CopyInv, LifeCopy, Threads, Whole, lifeVars, lockVars
  <2>4. CopyInv'
    BY <1>1, WorkTypes DEF Call, Serving, Acquire, Admit, IInv, Types, LockInv, ServeInv,
        CopyInv, LifeCopy, CallerCopy, NoWork, Opened, Threads, Whole, lifeVars, lockVars
  <2> QED  BY <2>1, <2>2, <2>3, <2>4 DEF IInv
<1>2. ASSUME NEW c \in Callers, Enter(c) PROVE IInv'
  <2>1. Types'
    BY <1>2, WorkTypes DEF Enter, Admitted, Turned, Serving, Admit, Leaves, Release, IInv,
        Types, LockInv, Work, Stages, Replies, lifeVars, lockVars
  <2>2. LockInv'
    BY <1>2, WorkTypes DEF Enter, Admitted, Turned, Serving, Admit, Leaves, Release, IInv,
        Types, LockInv, Threads, lifeVars, lockVars
  <2>3. ServeInv'
    BY <1>2, WorkTypes DEF Enter, Admitted, Turned, Serving, Admit, Leaves, Release, IInv,
        Types, LockInv, ServeInv, CopyInv, LifeCopy, Threads, Whole, lifeVars, lockVars
  <2>4. CopyInv'
    BY <1>2, WorkTypes DEF Enter, Admitted, Turned, Serving, Admit, Leaves, Release, IInv,
        Types, LockInv, ServeInv, CopyInv, LifeCopy, CallerCopy, NoWork, Opened, Threads, Whole,
        lifeVars, lockVars
  <2> QED  BY <2>1, <2>2, <2>3, <2>4 DEF IInv
<1>3. ASSUME NEW c \in Callers, Withdraw(c) PROVE IInv'
  <2>1. Types'
    BY <1>3, WorkTypes DEF Withdraw, Leaves, Release, IInv, Types, LockInv, Work, Stages,
        Replies, lifeVars, lockVars
  <2>2. LockInv'
    BY <1>3, WorkTypes DEF Withdraw, Leaves, Release, IInv, Types, LockInv, Threads, lifeVars,
        lockVars
  <2>3. ServeInv'
    BY <1>3, WorkTypes DEF Withdraw, Leaves, Release, IInv, Types, LockInv, ServeInv, CopyInv,
        LifeCopy, Threads, Whole, lifeVars, lockVars
  <2>4. CopyInv'
    BY <1>3, WorkTypes DEF Withdraw, Leaves, Release, IInv, Types, LockInv, ServeInv, CopyInv,
        LifeCopy, CallerCopy, NoWork, Opened, Threads, Whole, lifeVars, lockVars
  <2> QED  BY <2>1, <2>2, <2>3, <2>4 DEF IInv
<1>4. ASSUME NEW c \in Callers, CancelWorking(c) PROVE IInv'
  <2>1. Types'
    BY <1>4, WorkTypes DEF CancelWorking, IInv, Types, LockInv, Work, Stages, Replies, lifeVars,
        lockVars
  <2>2. LockInv'
    BY <1>4, WorkTypes DEF CancelWorking, IInv, Types, LockInv, Threads, lifeVars, lockVars
  <2>3. ServeInv'
    BY <1>4, WorkTypes DEF CancelWorking, IInv, Types, LockInv, ServeInv, CopyInv, LifeCopy,
        Threads, Whole, lifeVars, lockVars
  <2>4. CopyInv'
    BY <1>4, WorkTypes DEF CancelWorking, IInv, Types, LockInv, ServeInv, CopyInv, LifeCopy,
        CallerCopy, NoWork, Opened, Threads, Whole, lifeVars, lockVars
  <2> QED  BY <2>1, <2>2, <2>3, <2>4 DEF IInv
<1>5. ASSUME NEW c \in Callers, Resume(c) PROVE IInv'
  <2>1. Types'
    BY <1>5, WorkTypes DEF Resume, Finish, Leaves, Release, IInv, Types, LockInv, Work, Stages,
        Replies, lifeVars, lockVars
  <2>2. LockInv'
    BY <1>5, WorkTypes DEF Resume, Finish, Leaves, Release, IInv, Types, LockInv, Threads,
        lifeVars, lockVars
  <2>3. ServeInv'
    BY <1>5, WorkTypes DEF Resume, Finish, Leaves, Release, IInv, Types, LockInv, ServeInv,
        CopyInv, LifeCopy, Threads, Whole, lifeVars, lockVars
  <2>4. CopyInv'
    BY <1>5, WorkTypes DEF Resume, Finish, Leaves, Release, IInv, Types, LockInv, ServeInv,
        CopyInv, LifeCopy, CallerCopy, NoWork, Opened, Threads, Whole, lifeVars, lockVars
  <2> QED  BY <2>1, <2>2, <2>3, <2>4 DEF IInv
<1> QED  BY <1>1, <1>2, <1>3, <1>4, <1>5

\* (start, stop) The lifecycle, and the death of the process.
LEMMA LifeSteps ==
  ASSUME IInv, Start \/ Prepare \/ Started \/ Stop \/ FinishStop \/ Crash
  PROVE  IInv'
<1> USE CallerAssumption
<1>1. CASE Start
  <2>1. Types'
    BY <1>1, WorkTypes DEF Start, Acquire, IInv, Types, LockInv, Work, Stages, Replies,
        lifeVars, lockVars
  <2>2. LockInv'
    BY <1>1, WorkTypes DEF Start, Acquire, IInv, Types, LockInv, Threads, lifeVars, lockVars
  <2>3. ServeInv'
    BY <1>1, WorkTypes DEF Start, Acquire, IInv, Types, LockInv, ServeInv, CopyInv, LifeCopy,
        Threads, Whole, lifeVars, lockVars
  <2>4. CopyInv'
    BY <1>1, WorkTypes DEF Start, Acquire, IInv, Types, LockInv, ServeInv, CopyInv, LifeCopy,
        CallerCopy, NoWork, Opened, Threads, Whole, lifeVars, lockVars
  <2> QED  BY <2>1, <2>2, <2>3, <2>4 DEF IInv
<1>2. CASE Prepare
  <2>1. Types'
    BY <1>2, WorkTypes DEF Prepare, IInv, Types, LockInv, Work, Stages, Replies, lifeVars,
        lockVars
  <2>2. LockInv'
    BY <1>2, WorkTypes DEF Prepare, IInv, Types, LockInv, Threads, lifeVars, lockVars
  <2>3. ServeInv'
    BY <1>2, WorkTypes DEF Prepare, IInv, Types, LockInv, ServeInv, CopyInv, LifeCopy, Threads,
        Whole, lifeVars, lockVars
  <2>4. CopyInv'
    BY <1>2, WorkTypes DEF Prepare, IInv, Types, LockInv, ServeInv, CopyInv, LifeCopy,
        CallerCopy, NoWork, Opened, Threads, Whole, lifeVars, lockVars
  <2> QED  BY <2>1, <2>2, <2>3, <2>4 DEF IInv
<1>3. CASE Started
  <2>1. Types'
    BY <1>3, WorkTypes DEF Started, Release, IInv, Types, LockInv, Work, Stages, Replies,
        lifeVars, lockVars
  <2>2. LockInv'
    BY <1>3, WorkTypes DEF Started, Release, IInv, Types, LockInv, Threads, lifeVars, lockVars
  <2>3. ServeInv'
    BY <1>3, WorkTypes DEF Started, Release, IInv, Types, LockInv, ServeInv, CopyInv, LifeCopy,
        Threads, Whole, lifeVars, lockVars
  <2>4. CopyInv'
    BY <1>3, WorkTypes DEF Started, Release, IInv, Types, LockInv, ServeInv, CopyInv, LifeCopy,
        CallerCopy, NoWork, Opened, Threads, Whole, lifeVars, lockVars
  <2> QED  BY <2>1, <2>2, <2>3, <2>4 DEF IInv
<1>4. CASE Stop
  <2>1. Types'
    BY <1>4, WorkTypes DEF Stop, Acquire, IInv, Types, LockInv, Work, Stages, Replies, lifeVars,
        lockVars
  <2>2. LockInv'
    BY <1>4, WorkTypes DEF Stop, Acquire, IInv, Types, LockInv, Threads, lifeVars, lockVars
  <2>3. ServeInv'
    BY <1>4, WorkTypes DEF Stop, Acquire, IInv, Types, LockInv, ServeInv, CopyInv, LifeCopy,
        Threads, Whole, lifeVars, lockVars
  <2>4. CopyInv'
    BY <1>4, WorkTypes DEF Stop, Acquire, IInv, Types, LockInv, ServeInv, CopyInv, LifeCopy,
        CallerCopy, NoWork, Opened, Threads, Whole, lifeVars, lockVars
  <2> QED  BY <2>1, <2>2, <2>3, <2>4 DEF IInv
<1>5. CASE FinishStop
  <2>1. Types'
    BY <1>5, WorkTypes DEF FinishStop, Release, IInv, Types, LockInv, Work, Stages, Replies,
        lifeVars, lockVars
  <2>2. LockInv'
    BY <1>5, WorkTypes DEF FinishStop, Release, IInv, Types, LockInv, Threads, lifeVars,
        lockVars
  <2>3. ServeInv'
    BY <1>5, WorkTypes DEF FinishStop, Release, IInv, Types, LockInv, ServeInv, CopyInv,
        LifeCopy, Threads, Whole, lifeVars, lockVars
  <2>4. CopyInv'
    BY <1>5, WorkTypes DEF FinishStop, Release, IInv, Types, LockInv, ServeInv, CopyInv,
        LifeCopy, CallerCopy, NoWork, Opened, Threads, Whole, lifeVars, lockVars
  <2> QED  BY <2>1, <2>2, <2>3, <2>4 DEF IInv
<1>6. CASE Crash
  <2>1. Types'
    BY <1>6, WorkTypes DEF Crash, IInv, Types, LockInv, Work, Stages, Replies, lifeVars,
        lockVars
  <2>2. LockInv'
    BY <1>6, WorkTypes DEF Crash, IInv, Types, LockInv, Threads, lifeVars, lockVars
  <2>3. ServeInv'
    BY <1>6, WorkTypes DEF Crash, IInv, Types, LockInv, ServeInv, CopyInv, LifeCopy, Threads,
        Whole, lifeVars, lockVars
  <2>4. CopyInv'
    BY <1>6, WorkTypes DEF Crash, IInv, Types, LockInv, ServeInv, CopyInv, LifeCopy, CallerCopy,
        NoWork, Opened, Threads, Whole, lifeVars, lockVars
  <2> QED  BY <2>1, <2>2, <2>3, <2>4 DEF IInv
<1> QED  BY <1>1, <1>2, <1>3, <1>4, <1>5, <1>6

\* (_execute_sync) The steps of a transaction.
LEMMA WorkerSteps ==
  ASSUME IInv, NEW c \in Callers, Execute(c)
  PROVE  IInv'
<1> USE CallerAssumption
<1>0. /\ c \in Threads /\ work[c] \in Work /\ work \in [Threads -> Work]
      /\ file \in FileType /\ CallerCopy(work[c], file)
  BY DEF Threads, IInv, Types, CopyInv
<1>7. ASSUME work[c].stage # "none"
      PROVE  req[c] \in Requests /\ c # Life
  BY <1>7, <1>0, Alone
<1>8. ASSUME work[c].stage # "none", NEW x \in Replies, work' = [work EXCEPT ![c] = Over(x)],
             file' \in FileType, file'.version = file.version, file'.tables = file.tables,
             UNCHANGED <<lifeVars, lockVars, pc, req>>
      PROVE  IInv'
  <2>1. work' \in [Threads -> Work] /\ work'[c] = Over(x) /\ \A t \in Threads \ {c} : work'[t] = work[t]
    BY <1>0, <1>8, WorkTypes
  <2>2. CallerCopy(work'[c], file')
    BY <2>1, WorkTypes DEF CallerCopy
  <2> QED  BY <1>8, <2>1, <2>2, CallerWork
<1>1. CASE Read(c) /\ UNCHANGED file
  <2>1. work[c].stage # "none"
    BY <1>1 DEF Read
  <2>2. Store!Reply(req[c], file.rows) \in Replies /\ "failed" \in Replies
    BY <1>0, <1>7, <2>1, StoreTypes DEF FileType, Replies
  <2> QED  BY <1>0, <1>1, <1>8, <2>1, <2>2 DEF Read, Fails, Execute
<1>2. CASE Begin(c) /\ UNCHANGED file
  <2>1. CASE work' = [work EXCEPT ![c].stage = "begun", ![c].copy = file]
    <3>1. /\ work' \in [Threads -> Work] /\ \A t \in Threads \ {c} : work'[t] = work[t]
          /\ work'[c].stage = "begun" /\ work'[c].copy = file
      BY <1>0, <2>1 DEF Work, Stages
    <3>2. CallerCopy(work'[c], file')
      BY <1>2, <3>1 DEF CallerCopy
    <3> QED  BY <1>0, <1>2, <3>1, <3>2, CallerWork DEF Begin, Execute
  <2>2. CASE Fails(c)
    BY <1>0, <1>2, <1>8, <2>2 DEF Begin, Fails, Execute, Replies
  <2> QED  BY <1>2, <2>1, <2>2 DEF Begin
<1>3. CASE Operate(c) /\ UNCHANGED file
  <2> DEFINE d == work[c].copy.rows
             n == Store!After(req[c], d)
             x == Store!Reply(req[c], d)
  <2>1. work[c].stage = "begun" /\ work[c].copy \in FileType /\ d \in [Keys -> Values \cup {Nothing}]
    BY <1>0, <1>3 DEF Operate, Work, FileType
  <2>2. n \in [Keys -> Values \cup {Nothing}] /\ x \in Replies /\ "failed" \in Replies
    BY <1>7, <2>1, StoreTypes DEF Replies
  <2>3. PICK e \in {d, n}, y \in {x, "failed"}, g \in {"operated", "failing"} :
          work' = [work EXCEPT ![c].copy.rows = e, ![c].reply = y, ![c].stage = g]
    BY <1>3 DEF Operate
  <2>4. e \in [Keys -> Values \cup {Nothing}] /\ y \in Replies
    BY <2>1, <2>2, <2>3
  <2> HIDE DEF d, n, x
  <2>5. [work[c].copy EXCEPT !.rows = e] \in FileType
    BY <2>1, <2>4 DEF FileType
  <2>6. /\ work' \in [Threads -> Work] /\ \A t \in Threads \ {c} : work'[t] = work[t]
        /\ work'[c].stage = g /\ work'[c].copy = [work[c].copy EXCEPT !.rows = e]
    BY <1>0, <2>3, <2>4, <2>5 DEF Work, Stages
  <2>7. CallerCopy(work'[c], file')
    BY <1>0, <1>3, <2>1, <2>6 DEF CallerCopy, FileType
  <2> QED  BY <1>0, <1>3, <2>1, <2>6, <2>7, CallerWork DEF Execute
<1>4. CASE Commit(c)
  <2>1. work[c].stage = "operated" /\ work[c].copy \in FileType /\ work[c].reply \in Replies
    BY <1>0, <1>4 DEF Commit, Work
  <2>2. work[c].copy.version = file.version /\ work[c].copy.tables = file.tables
    BY <1>0, <2>1 DEF CallerCopy
  <2>3. CASE file' = work[c].copy /\ work' = [work EXCEPT ![c] = Over(work[c].reply)]
    BY <1>4, <1>8, <2>1, <2>2, <2>3 DEF Execute
  <2>4. CASE /\ work' = [work EXCEPT ![c].stage = "failing", ![c].reply = "failed"]
             /\ UNCHANGED file
    <3>1. /\ work' \in [Threads -> Work] /\ \A t \in Threads \ {c} : work'[t] = work[t]
          /\ work'[c].stage = "failing" /\ work'[c].copy = work[c].copy
      BY <1>0, <2>4 DEF Work, Stages, Replies
    <3>2. CallerCopy(work'[c], file')
      BY <2>2, <2>4, <3>1 DEF CallerCopy
    <3> QED  BY <1>0, <1>4, <2>1, <2>4, <3>1, <3>2, CallerWork DEF Execute
  <2> QED  BY <1>4, <2>3, <2>4 DEF Commit
<1>5. CASE RollBack(c)
  <2>1. work[c].stage = "failing" /\ work[c].reply \in Replies
    BY <1>0, <1>5 DEF RollBack, Work
  <2> QED  BY <1>0, <1>5, <1>8, <2>1 DEF RollBack, Execute
<1> QED
  BY <1>1, <1>2, <1>3, <1>4, <1>5 DEF Execute

\* (_start_sync) The migrations and the probing of the schema.
LEMMA StartSteps == IInv /\ StartSync => IInv'
<1> SUFFICES ASSUME IInv, StartSync PROVE IInv'
  OBVIOUS
<1> USE CallerAssumption
<1>0. /\ Life \in Threads /\ work[Life] \in Work /\ work \in [Threads -> Work]
      /\ file \in FileType /\ LifeCopy(work[Life], file)
      /\ UNCHANGED <<lifeVars, lockVars, pc, req>>
  BY DEF Threads, IInv, Types, CopyInv, ServeInv, StartSync
<1>7. ASSUME work[Life].stage # "none", UNCHANGED file, NEW x \in Replies, Refuse(x),
             x = "done" => Whole(file)
      PROVE  IInv'
  <2>1. work' \in [Threads -> Work] /\ work'[Life] = Over(x) /\ \A t \in Threads \ {Life} : work'[t] = work[t]
    BY <1>0, <1>7, WorkTypes DEF Refuse
  <2>2. LifeCopy(work'[Life], file')
    BY <1>7, <2>1, WorkTypes DEF LifeCopy, Whole
  <2> QED  BY <1>0, <1>7, <2>1, <2>2, LifeWork DEF Whole
<1>8. ASSUME work[Life].stage # "none", work' \in [Threads -> Work],
             \A t \in Threads \ {Life} : work'[t] = work[t], LifeCopy(work'[Life], file'), UNCHANGED file
      PROVE  IInv'
  BY <1>0, <1>8, LifeWork DEF Whole
<1>9. "failed" \in Replies /\ "version" \in Replies /\ "done" \in Replies
  BY DEF Replies
<1>1. CASE Inspect /\ UNCHANGED file
  <2>1. CASE Refuse("failed") \/ Refuse("version")
    BY <1>1, <1>7, <1>9, <2>1 DEF Inspect
  <2>2. ASSUME NEW g \in {"verify", "migrate"}, g = "migrate" => file.version < CURRENT_SCHEMA_VERSION,
               work' = [work EXCEPT ![Life].stage = g]
        PROVE  IInv'
    <3>1. /\ work' \in [Threads -> Work] /\ \A t \in Threads \ {Life} : work'[t] = work[t]
          /\ work'[Life].stage = g
      BY <1>0, <2>2 DEF Work, Stages
    <3>2. LifeCopy(work'[Life], file')
      BY <1>1, <2>2, <3>1 DEF LifeCopy
    <3> QED  BY <1>1, <1>8, <3>1, <3>2 DEF Inspect
  <2>3. file.version \in 0..3
    BY <1>0 DEF FileType
  <2> QED  BY <1>1, <2>1, <2>2, <2>3 DEF Inspect, CURRENT_SCHEMA_VERSION
<1>2. CASE Create /\ UNCHANGED file
  <2>1. CASE Refuse("failed")
    BY <1>2, <1>7, <1>9, <2>1 DEF Create
  <2> DEFINE f == [file EXCEPT !.tables = @ \cup {Table[file.version + 1]}]
  <2>2. work[Life].stage = "migrate" /\ file.version < CURRENT_SCHEMA_VERSION
    BY <1>0, <1>2 DEF Create, LifeCopy
  <2>3. Table[file.version + 1] \in Tables
    BY <1>0, <2>2 DEF FileType, Table, Tables, CURRENT_SCHEMA_VERSION
  <2>4. /\ f \in FileType /\ f.version = file.version /\ f.rows = file.rows
        /\ f.tables = file.tables \cup {Table[file.version + 1]}
    BY <1>0, <2>3 DEF FileType
  <2> HIDE DEF f
  <2>5. CASE /\ Table[file.version + 1] \notin file.tables
             /\ work' = [work EXCEPT ![Life].stage = "begun", ![Life].copy = f]
    <3>1. /\ work' \in [Threads -> Work] /\ \A t \in Threads \ {Life} : work'[t] = work[t]
          /\ work'[Life].stage = "begun" /\ work'[Life].copy = f
      BY <1>0, <2>4, <2>5 DEF Work, Stages
    <3>2. LifeCopy(work'[Life], file')
      BY <1>2, <2>2, <2>4, <2>5, <3>1 DEF LifeCopy
    <3> QED  BY <1>2, <1>8, <2>2, <3>1, <3>2
  <2> QED  BY <1>2, <2>1, <2>5 DEF Create, f
<1>3. CASE Number
  <2>1. work[Life].stage = "begun" /\ UNCHANGED file /\ file.version < CURRENT_SCHEMA_VERSION
    BY <1>0, <1>3 DEF Number, LifeCopy
  <2>2. CASE Refuse("failed")
    BY <1>7, <1>9, <2>1, <2>2
  <2>3. CASE work' = [work EXCEPT ![Life].stage = "operated", ![Life].copy.version = @ + 1]
    <3>1. /\ work[Life].copy \in FileType /\ work[Life].copy.version = file.version
          /\ file.version \in 0..1
          /\ work[Life].copy.tables = file.tables \cup {Table[file.version + 1]}
          /\ Table[file.version + 1] \notin file.tables /\ work[Life].copy.rows = file.rows
      BY <1>0, <2>1 DEF LifeCopy, Work, FileType, CURRENT_SCHEMA_VERSION
    <3> DEFINE f == [work[Life].copy EXCEPT !.version = file.version + 1]
    <3>2. /\ f \in FileType /\ f.version = file.version + 1 /\ f.rows = work[Life].copy.rows
          /\ f.tables = work[Life].copy.tables
      BY <3>1 DEF FileType
    <3>3. work'[Life] = [work[Life] EXCEPT !.stage = "operated", !.copy = f] /\ \A t \in Threads \ {Life} : work'[t] = work[t]
      BY <1>0, <2>3, <3>1 DEF Work, FileType
    <3> HIDE DEF f
    <3>4. /\ work' \in [Threads -> Work]
          /\ work'[Life].stage = "operated" /\ work'[Life].copy = f
      BY <1>0, <2>3, <3>2, <3>3 DEF Work, Stages
    <3>5. LifeCopy(work'[Life], file')
      BY <2>1, <3>1, <3>2, <3>4 DEF LifeCopy
    <3> QED  BY <1>8, <2>1, <3>3, <3>4, <3>5
  <2> QED  BY <1>3, <2>2, <2>3 DEF Number
<1>4. CASE Migrated
  <2>1. /\ work[Life].stage = "operated" /\ file.version < CURRENT_SCHEMA_VERSION
        /\ work[Life].copy \in FileType /\ work[Life].copy.version = file.version + 1
        /\ work[Life].copy.tables = file.tables \cup {Table[file.version + 1]}
    BY <1>0, <1>4 DEF Migrated, LifeCopy, Work
  <2>2. CASE Refuse("failed") /\ UNCHANGED file
    BY <1>7, <1>9, <2>1, <2>2
  <2>3. ASSUME NEW g \in {"verify", "migrate"}, file' = work[Life].copy,
               g = "migrate" => work[Life].copy.version # CURRENT_SCHEMA_VERSION,
               work' = [work EXCEPT ![Life].copy = NoFile, ![Life].stage = g]
        PROVE  IInv'
    <3>1. /\ work' \in [Threads -> Work] /\ \A t \in Threads \ {Life} : work'[t] = work[t]
          /\ work'[Life].stage = g
      BY <1>0, <2>3, WorkTypes DEF Work, Stages
    <3>2. work[Life].copy.version \in 0..2
      BY <1>0, <2>1 DEF FileType, CURRENT_SCHEMA_VERSION
    <3>3. LifeCopy(work'[Life], file')
      BY <2>1, <2>3, <3>1, <3>2 DEF LifeCopy, CURRENT_SCHEMA_VERSION
    <3> QED  BY <1>0, <2>1, <2>3, <3>1, <3>3, LifeWork
  <2> QED  BY <1>4, <2>2, <2>3 DEF Migrated
<1>5. CASE Verify /\ UNCHANGED file
  <2>1. CASE Refuse("failed") \/ Refuse("version")
    BY <1>5, <1>7, <1>9, <2>1 DEF Verify
  <2> DEFINE f == [file EXCEPT !.rows[CacheKey] = Nothing]
  <2>2. f \in FileType
    BY <1>0 DEF FileType
  <2> HIDE DEF f
  <2>3. CASE Whole(file) /\ work' = [work EXCEPT ![Life].stage = "probing", ![Life].copy = f]
    <3>1. /\ work' \in [Threads -> Work] /\ \A t \in Threads \ {Life} : work'[t] = work[t]
          /\ work'[Life].stage = "probing"
      BY <1>0, <2>2, <2>3 DEF Work, Stages
    <3>2. LifeCopy(work'[Life], file')
      BY <1>5, <2>3, <3>1 DEF LifeCopy
    <3> QED  BY <1>5, <1>8, <3>1, <3>2 DEF Verify
  <2> QED  BY <1>5, <2>1, <2>3 DEF Verify, f
<1>6. CASE Restore
  <2>1. work[Life].stage = "probing" /\ UNCHANGED file /\ Refuse("done")
    BY <1>6 DEF Restore
  <2>2. Whole(file)
    BY <1>0, <2>1 DEF LifeCopy
  <2> QED  BY <1>7, <1>9, <2>1, <2>2
<1> QED  BY <1>1, <1>2, <1>3, <1>4, <1>5, <1>6 DEF StartSync


-----------------------------------------------------------------------------
(* The theorems *)

\* (SQLiteDatabase.__init__) The database is down, and nobody is at work.
LEMMA InitInv == Init => IInv
<1> SUFFICES ASSUME Init PROVE IInv
  OBVIOUS
<1> USE CallerAssumption
<1>1. file \in FileType
  BY DEF Init, Files
<1>2. Types /\ LockInv
  BY <1>1, WorkTypes DEF Init, Types, LockInv, Threads
<1>3. ServeInv
  BY <1>1, WorkTypes DEF Init, ServeInv, Threads
<1>4. CopyInv
  BY WorkTypes DEF Init, CopyInv, LifeCopy, CallerCopy, Threads
<1> QED  BY <1>2, <1>3, <1>4 DEF IInv

\* (SQLiteDatabase) The invariant holds in every state.
THEOREM Inductive == Spec => []IInv
<1>1. ASSUME IInv, Next PROVE IInv'
  BY <1>1, LockSteps, LifeSteps, WorkerSteps, StartSteps DEF Next, CallerStep, LifeStep
<1>2. ASSUME IInv, UNCHANGED vars PROVE IInv'
  <2> USE <1>2 DEF IInv, vars, lifeVars, lockVars
  <2>1. Types'
    BY DEF Types
  <2>2. LockInv'
    BY DEF LockInv
  <2>3. ServeInv'
    BY DEF ServeInv, Whole
  <2>4. CopyInv'
    BY DEF CopyInv, LifeCopy, CallerCopy, Whole
  <2> QED  BY <2>1, <2>2, <2>3, <2>4
<1> QED  BY <1>1, <1>2, InitInv, PTL DEF Spec

\* (_await_completion and _operation_lock) A worker touches the file only while
\* its caller holds the lock.
THEOREM LockCovers == Spec => []LockCoversWorker
<1>1. IInv => LockCoversWorker
  BY DEF IInv, LockInv, LockCoversWorker
<1> QED  BY <1>1, Inductive, PTL

\* What FileIsCarried says of one step.
Carried == /\ Whole(file) <=> Whole(file')
           /\ file.version <= file'.version
           /\ file.tables \subseteq file'.tables
           /\ ~Whole(file) => /\ file'.rows = file.rows
                              /\ file.version < CURRENT_SCHEMA_VERSION

\* (_execute_sync, _migrate_to_version_1, _2) The two steps that write the file.
LEMMA CarriedStep == IInv /\ Next => Carried \/ UNCHANGED file
<1> SUFFICES ASSUME IInv, Next, file' # file PROVE Carried
  OBVIOUS
<1> USE CallerAssumption
<1>0. /\ Life \in Threads /\ Callers \subseteq Threads /\ work \in [Threads -> Work]
      /\ file \in FileType /\ file.version \in 0..3
  BY DEF Threads, IInv, Types, FileType
<1>1. CASE UNCHANGED file
  BY <1>1
<1>2. ASSUME NEW c \in Callers, Commit(c), file' = work[c].copy
      PROVE  Carried
  <2>1. work[c].stage = "operated"
    BY <1>2 DEF Commit
  <2>2. c # Life /\ Whole(file) /\ work[c].copy.version = file.version /\ work[c].copy.tables = file.tables
    BY <1>0, <2>1, Alone DEF IInv, CopyInv, CallerCopy
  <2> QED  BY <1>0, <1>2, <2>2, SameShape DEF Carried
<1>3. CASE Migrated /\ file' = work[Life].copy
  <2>1. work[Life].stage = "operated"
    BY <1>3 DEF Migrated
  <2>2. /\ file.version < CURRENT_SCHEMA_VERSION /\ Table[file.version + 1] \notin file.tables
        /\ work[Life].copy.rows = file.rows
        /\ work[Life].copy \in FileType /\ work[Life].copy.version = file.version + 1
        /\ work[Life].copy.tables = file.tables \cup {Table[file.version + 1]}
    BY <1>0, <2>1 DEF IInv, CopyInv, LifeCopy, Work
  <2>3. Whole(file) <=> Whole(file')
    BY <1>0, <1>3, <2>2, NextVersion
  <2> QED  BY <1>0, <1>3, <2>2, <2>3 DEF Carried
<1>4. ASSUME NEW c \in Callers, Execute(c) PROVE Carried
  BY <1>1, <1>2, <1>4 DEF Execute, Commit, RollBack
<1>5. CASE StartSync
  BY <1>1, <1>3, <1>5 DEF StartSync, Number, Migrated, Restore
<1>6. ASSUME NEW c \in Callers, Call(c) \/ Withdraw(c) \/ CancelWorking(c) \/ Enter(c) \/ Resume(c)
      PROVE  Carried
  BY <1>1, <1>6 DEF Call, Withdraw, CancelWorking, Enter, Resume, Finish
<1>7. CASE Start \/ Stop \/ Prepare \/ Started \/ FinishStop \/ Crash
  BY <1>1, <1>7 DEF Start, Stop, Prepare, Started, FinishStop, Crash
<1> QED
  BY <1>4, <1>5, <1>6, <1>7 DEF Next, CallerStep, LifeStep

\* (_start_sync, _execute_sync) Whatever is interrupted wherever, the program's
\* file stays one the next start continues from, no other file is made into one,
\* and of another nothing is lost.
THEOREM FileCarried == Spec => FileIsCarried
<1>1. IInv /\ [Next]_vars => [Carried]_file
  BY CarriedStep DEF vars
<1>2. FileIsCarried <=> [][Carried]_file
  BY PTL DEF FileIsCarried, Carried
<1> QED  BY <1>1, <1>2, Inductive, PTL DEF Spec

-----------------------------------------------------------------------------
(* The queue of _operation_lock *)

\* Who has the lock or waits for it, and where the code does so.
Has(t) == holder = t \/ Waits(waiters, t)
Inside == {"queued", "working", "starting", "stopping"}

Lock == /\ waiters \in Seq(Threads) /\ Once(waiters)
        /\ holder \in Threads \cup {Nothing}
        /\ holder = Nothing => waiters = <<>>
        /\ ~Waits(waiters, holder)
Places == \A t \in Threads : Has(t) <=> pc[t] \in Inside
\* Nobody comes before start has ended or behind stop; a worker's caller has the lock.
Last == /\ pc[Life] \in {"down", "starting"} => \A c \in Callers : pc[c] = "idle"
        /\ pc[Life] = "stopping" => /\ closing
                                    /\ \A t \in Threads : ~Ahead(waiters, Life, t)
                                    /\ holder = Life => waiters = <<>>
        /\ \A c \in Callers : pc[c] = "working" => holder = c
        /\ cancelled \subseteq {c \in Callers : pc[c] = "working"}
        /\ closing \in BOOLEAN

\* The inductive invariant, on top of IInv.
QInv == Lock /\ Places /\ Last

\* (async with _operation_lock) Its entry: the lock at once, or the last place.
LEMMA AcquireQueue ==
  ASSUME Lock, NEW t \in Threads, ~Has(t), Acquire(t)
  PROVE  /\ Lock'
         /\ \A u \in Threads : Has(u)' <=> Has(u) \/ u = t
         /\ \A a, b \in Threads : Ahead(waiters', a, b) => Ahead(waiters, a, b) \/ b = t
         /\ holder # Nothing => holder' = holder
         /\ holder = Nothing => holder' = t /\ waiters' = <<>>
<1> USE CallerAssumption DEF Lock, Has
<1>1. CASE holder = Nothing
  <2>1. holder' = t /\ waiters' = waiters /\ waiters = <<>>
    BY <1>1 DEF Acquire
  <2>2. \A u : ~Waits(<<>>, u)
    BY EmptyQueue
  <2>3. QED
    BY <1>1, <2>1, <2>2
<1>2. CASE holder # Nothing
  <2>1. holder' = holder /\ waiters' = Append(waiters, t)
    BY <1>2 DEF Acquire
  <2>2. ~Waits(waiters, t) /\ holder # t
    OBVIOUS
  <2>3. Joined(Threads, waiters, waiters', t)
    BY <2>1, <2>2, JoiningQueue
  <2>4. QED
    BY <1>2, <2>1, <2>2, <2>3 DEF Joined
<1> QED  BY <1>1, <1>2

\* (async with _operation_lock) Its exit: the lock goes to the first who waits.
LEMMA ReleaseQueue ==
  ASSUME Lock, holder \in Threads, Release
  PROVE  /\ Lock'
         /\ \A u \in Threads : Has(u)' <=> Has(u) /\ u # holder
         /\ \A a, b \in Threads : Ahead(waiters', a, b) => Ahead(waiters, a, b)
         /\ \A a \in Threads, b \in Threads :
               holder' = a /\ Waits(waiters', b) => Ahead(waiters, a, b)
<1> USE CallerAssumption DEF Lock, Has
<1>1. CASE waiters = <<>>
  <2>1. holder' = Nothing /\ waiters' = <<>>
    BY <1>1 DEF Release
  <2>2. \A u : ~Waits(<<>>, u)
    BY EmptyQueue
  <2>3. \A a, b : ~Ahead(<<>>, a, b)
    BY <2>2 DEF Ahead, Waits
  <2>4. QED
    BY <1>1, <2>1, <2>2, <2>3
<1>2. CASE waiters # <<>>
  <2> DEFINE h == Head(waiters)
  <2>1. holder' = h /\ waiters' = Tail(waiters) /\ Holds(waiters, h)
    BY <1>2 DEF Release, Holds
  <2>2. h \in Threads /\ Waits(waiters, h)
    BY <2>1, HeadLeaves
  <2>3. Gone(Threads, waiters, waiters', h)
    BY <2>1, <2>2, LeavingQueue
  <2>4. \A b : Waits(waiters', b) => Ahead(waiters, h, b)
    <3>1. Once(Tail(waiters)) /\ ~Waits(Tail(waiters), h)
      BY <2>1, HeadLeaves
    <3>2. \A b : Waits(Tail(waiters), b) => Waits(waiters, b)
      BY <2>1, HeadLeaves
    <3>3. \A b : Waits(waiters, b) => b = h \/ Ahead(waiters, h, b)
      BY <2>1, HeadLeaves
    <3>4. QED
      BY <2>1, <3>1, <3>2, <3>3
  <2> HIDE DEF h
  <2>5. QED
    BY <2>1, <2>2, <2>3, <2>4 DEF Gone
<1> QED  BY <1>1, <1>2

\* (read, write, _await_completion) Callers keep it.
LEMMA CallerQueue ==
  ASSUME IInv, QInv, NEW c \in Callers,
         Call(c) \/ Enter(c) \/ Withdraw(c) \/ CancelWorking(c) \/ Resume(c)
  PROVE  QInv'
<1> USE CallerAssumption DEF Threads, QInv
<1>1. /\ c \in Threads /\ c # Life /\ Life \in Threads
      /\ pc \in [Threads -> {"idle", "queued", "working", "down", "starting", "up", "stopping"}]
  BY DEF IInv, Types
<1>2. ASSUME holder = c, Release, pc' = [pc EXCEPT ![c] = "idle"],
             cancelled' \subseteq cancelled \ {c}, UNCHANGED closing
      PROVE  QInv'
  <2>1. /\ Lock' /\ \A u \in Threads : Has(u)' <=> Has(u) /\ u # c
        /\ \A a, b \in Threads : Ahead(waiters', a, b) => Ahead(waiters, a, b)
        /\ \A a \in Threads, b \in Threads :
               holder' = a /\ Waits(waiters', b) => Ahead(waiters, a, b)
    BY <1>1, <1>2, ReleaseQueue
  <2>2. Places'
    BY <1>1, <1>2, <2>1 DEF Places, Inside
  <2>3. pc[Life] = "stopping" /\ holder' = Life => waiters' = <<>>
    BY <1>1, <2>1, NobodyWaits DEF Last, Lock
  <2>4. Last'
    BY <1>1, <1>2, <2>1, <2>3 DEF Last
  <2>5. QED
    BY <2>1, <2>2, <2>4
<1>3. CASE Call(c)
  <2>1. /\ pc[Life] \notin {"down", "starting", "stopping"} /\ ~Has(c)
        /\ UNCHANGED <<closing, cancelled>> /\ Acquire(c)
    BY <1>1, <1>3 DEF Call, Serving, Last, Places, Inside, IInv, ServeInv, lifeVars
  <2>2. /\ Lock' /\ \A u \in Threads : Has(u)' <=> Has(u) \/ u = c
        /\ holder # Nothing => holder' = holder
        /\ holder = Nothing => holder' = c
    BY <1>1, <2>1, AcquireQueue
  <2>3. PICK p \in {"queued", "working"} : /\ pc' = [pc EXCEPT ![c] = p]
                                           /\ p = "working" => holder = Nothing
    BY <1>3 DEF Call, Admit
  <2>4. Places'
    BY <1>1, <2>2, <2>3 DEF Places, Inside
  <2>5. Last'
    <3>1. \A d \in Callers : pc'[d] = "working" => holder' = d
      BY <1>1, <2>2, <2>3 DEF Last
    <3>2. cancelled \subseteq {d \in Callers : pc'[d] = "working"}
      BY <1>1, <1>3, <2>3 DEF Last, Call
    <3>3. pc'[Life] \notin {"down", "starting", "stopping"}
      BY <1>1, <2>1, <2>3
    <3>4. QED
      BY <2>1, <3>1, <3>2, <3>3 DEF Last
  <2>6. QED
    BY <2>2, <2>4, <2>5
<1>4. CASE Enter(c)
  <2>1. holder = c /\ pc[c] = "queued" /\ UNCHANGED <<closing, cancelled>> /\ c \notin cancelled
    BY <1>4 DEF Enter, lifeVars, Last
  <2>2. CASE Admitted(c)
    <3>1. pc' = [pc EXCEPT ![c] = "working"] /\ UNCHANGED <<holder, waiters>>
      BY <2>2 DEF Admitted, Admit, lockVars
    <3>2. Lock' /\ Places'
      BY <1>1, <2>1, <3>1 DEF Lock, Places, Has, Inside
    <3>3. Last'
      BY <1>1, <2>1, <3>1 DEF Last
    <3>4. QED
      BY <3>2, <3>3
  <2>3. CASE Turned(c)
    BY <1>2, <2>1, <2>3 DEF Turned, Gone, Leaves
  <2>4. QED
    BY <1>4, <2>2, <2>3 DEF Enter
<1>5. CASE Withdraw(c)
  <2>1. /\ pc[c] = "queued" /\ UNCHANGED <<closing, cancelled>> /\ c \notin cancelled
        /\ pc' = [pc EXCEPT ![c] = "idle"]
    BY <1>5 DEF Withdraw, lifeVars, Last, Leaves
  <2>2. CASE holder = c
    BY <1>2, <1>5, <2>1, <2>2 DEF Withdraw
  <2>3. CASE holder # c
    <3>1. waiters' = Without(waiters, c) /\ holder' = holder
      BY <1>5, <2>3 DEF Withdraw
    <3>2. Gone(Threads, waiters, waiters', c)
      BY <1>1, <3>1, LeavingQueue DEF Lock
    <3>3. waiters = <<>> => waiters' = <<>>
      BY <3>1, EmptyQueue DEF Without
    <3>4. Lock'
      BY <1>1, <3>1, <3>2, <3>3 DEF Lock, Gone
    <3>5. Places'
      BY <1>1, <2>1, <2>3, <3>1, <3>2 DEF Places, Has, Inside, Gone
    <3>6. Last'
      BY <1>1, <2>1, <3>1, <3>2, <3>3 DEF Last, Gone
    <3>7. QED
      BY <3>4, <3>5, <3>6
  <2>4. QED
    BY <2>2, <2>3
<1>6. CASE CancelWorking(c)
  <2>1. Lock' /\ Places'
    BY <1>6 DEF CancelWorking, lockVars, Lock, Places, Has
  <2>2. Last'
    BY <1>6 DEF CancelWorking, lockVars, lifeVars, Last
  <2>3. QED
    BY <2>1, <2>2
<1>7. CASE Resume(c)
  BY <1>2, <1>7 DEF Resume, Finish, Leaves, lifeVars, Last
<1> QED  BY <1>3, <1>4, <1>5, <1>6, <1>7

\* (start, stop) So does the lifecycle, and the death of the process.
LEMMA LifeQueue ==
  ASSUME IInv, QInv, Start \/ Started \/ Stop \/ FinishStop \/ Crash
  PROVE  QInv'
<1> USE CallerAssumption DEF Threads, QInv
<1>1. /\ Life \in Threads
      /\ pc \in [Threads -> {"idle", "queued", "working", "down", "starting", "up", "stopping"}]
      /\ \A c \in Callers : pc[c] \in {"idle", "queued", "working"}
  BY DEF IInv, Types, LockInv
<1>2. pc[Life] \in {"down", "starting"} => \A c \in Callers : ~Has(c)
  BY DEF Last, Places, Inside
<1>3. CASE Start
  <2>1. /\ pc[Life] = "down" /\ pc' = [pc EXCEPT ![Life] = "starting"]
        /\ Acquire(Life) /\ ~Has(Life) /\ UNCHANGED <<closing, cancelled>>
    BY <1>1, <1>3 DEF Start, Places, Inside, lifeVars
  <2>2. Lock' /\ \A u \in Threads : Has(u)' <=> Has(u) \/ u = Life
    BY <1>1, <2>1, AcquireQueue
  <2>3. Places'
    BY <1>1, <2>1, <2>2 DEF Places, Inside
  <2>4. Last'
    BY <1>1, <2>1 DEF Last
  <2>5. QED
    BY <2>2, <2>3, <2>4
<1>4. CASE Stop
  <2>1. /\ pc[Life] = "up" /\ pc' = [pc EXCEPT ![Life] = "stopping"] /\ closing' = TRUE
        /\ Acquire(Life) /\ ~Has(Life) /\ UNCHANGED cancelled
    BY <1>1, <1>4 DEF Stop, Places, Inside
  <2>2. /\ Lock' /\ \A u \in Threads : Has(u)' <=> Has(u) \/ u = Life
        /\ \A a, b \in Threads : Ahead(waiters', a, b) => Ahead(waiters, a, b) \/ b = Life
        /\ holder # Nothing => holder' = holder
        /\ holder = Nothing => holder' = Life /\ waiters' = <<>>
    BY <1>1, <2>1, AcquireQueue
  <2>3. Places'
    BY <1>1, <2>1, <2>2 DEF Places, Inside
  <2>4. \A t \in Threads : ~Ahead(waiters', Life, t)
    <3>1. \A t \in Threads : ~Ahead(waiters, Life, t)
      BY <2>1 DEF Has, Ahead, Waits
    <3>2. ~Ahead(waiters', Life, Life)
      BY <2>2 DEF Lock, Ahead, Once
    <3>3. QED
      BY <2>2, <3>1, <3>2
  <2>5. \A c \in Callers : pc'[c] = pc[c]
    BY <1>1, <2>1
  <2>6. \A c \in Callers : pc'[c] = "working" => holder' = c
    BY <2>2, <2>5 DEF Last
  <2>7. Last'
    BY <1>1, <2>1, <2>2, <2>4, <2>5, <2>6 DEF Last, Has
  <2>8. QED
    BY <2>2, <2>3, <2>7
<1>5. ASSUME holder = Life, Release, NEW p \in {"up", "down"}, pc' = [pc EXCEPT ![Life] = p],
             p = "down" => \A c \in Callers : ~Has(c),
             closing' \in BOOLEAN, UNCHANGED cancelled
      PROVE  QInv'
  <2>1. Lock' /\ \A u \in Threads : Has(u)' <=> Has(u) /\ u # Life
    BY <1>1, <1>5, ReleaseQueue
  <2>2. Places'
    BY <1>1, <1>5, <2>1 DEF Places, Inside
  <2>3. Last'
    BY <1>1, <1>5 DEF Last, Places, Inside
  <2>4. QED
    BY <2>1, <2>2, <2>3
<1>6. CASE Started
  <2>1. holder = Life
    BY <1>1, <1>6, WorkTypes DEF Started, IInv, LockInv
  <2>2. \E p \in {"up", "down"} : pc' = [pc EXCEPT ![Life] = p]
    BY <1>6 DEF Started
  <2>3. QED
    BY <1>2, <1>5, <1>6, <2>1, <2>2 DEF Started, Last
<1>7. CASE FinishStop
  <2>1. \A c \in Callers : ~Has(c)
    BY <1>7, EmptyQueue DEF FinishStop, Last, Has
  <2>2. QED
    BY <1>5, <1>7, <2>1 DEF FinishStop
<1>8. CASE Crash
  <2>1. Lock'
    BY <1>8, EmptyQueue DEF Crash, Lock
  <2>2. Places'
    BY <1>8, EmptyQueue DEF Crash, Places, Has, Inside
  <2>3. Last'
    BY <1>8 DEF Crash, Last
  <2>4. QED
    BY <2>1, <2>2, <2>3
<1> QED  BY <1>3, <1>4, <1>6, <1>7, <1>8

\* (SQLiteDatabase) The invariant of the queue holds in every state.
THEOREM QueueInvariant == Spec => []QInv
<1> USE CallerAssumption
<1>1. Init => QInv
  <2> SUFFICES ASSUME Init PROVE QInv
    OBVIOUS
  <2>1. Lock
    BY EmptyQueue DEF Init, Lock
  <2>2. Places
    BY EmptyQueue DEF Init, Places, Has, Inside
  <2>3. Last
    BY DEF Init, Last, Threads
  <2>4. QED
    BY <2>1, <2>2, <2>3 DEF QInv
<1>2. ASSUME IInv, QInv, UNCHANGED <<closing, lockVars, pc, cancelled>> \/
             (pc[Life] = "starting" /\ closing' = FALSE /\ UNCHANGED <<lockVars, pc, cancelled>>)
      PROVE  QInv'
  <2>1. Lock' /\ Places'
    BY <1>2 DEF QInv, Lock, Places, Has, lockVars
  <2>2. Last'
    BY <1>2 DEF QInv, Last, lockVars
  <2>3. QED
    BY <2>1, <2>2 DEF QInv
<1>3. ASSUME IInv, QInv, [Next]_vars PROVE QInv'
  <2>1. CASE \E c \in Callers : Execute(c)
    BY <1>2, <1>3, <2>1 DEF Execute, lifeVars
  <2>2. CASE StartSync \/ Prepare \/ UNCHANGED vars
    BY <1>2, <1>3, <2>2 DEF StartSync, Prepare, lifeVars, vars
  <2>3. QED
    BY <1>3, <2>1, <2>2, CallerQueue, LifeQueue DEF Next, CallerStep, LifeStep
<1> QED  BY <1>1, <1>3, Inductive, PTL DEF Spec

\* (SQLiteDatabase) Every field keeps to its values, and only a caller whose worker
\* is at work has a cancellation to come.
THEOREM Typing == Spec => []TypeOK
<1>1. IInv /\ QInv => TypeOK
  BY DEF IInv, QInv, Types, Lock, Last, TypeOK, Work, Replies
<1> QED  BY <1>1, Inductive, QueueInvariant, PTL

\* (stop) Once it has returned nothing runs, nothing waits and the lock is free.
THEOREM DrainsOnStop == Spec => []QuietWhenDown
<1>1. IInv /\ QInv => QuietWhenDown
  <2> SUFFICES ASSUME IInv, QInv, pc[Life] = "down"
               PROVE  holder = Nothing /\ waiters = <<>> /\ \A t \in Threads : work[t] = NoWork
    BY DEF QuietWhenDown
  <2> USE CallerAssumption DEF Threads, QInv
  <2>1. \A t \in Threads : ~Has(t)
    BY DEF Last, Places, Inside
  <2>2. holder = Nothing /\ waiters = <<>>
    BY <2>1 DEF Has, Lock
  <2>3. \A t \in Threads : work[t] = NoWork
    BY <2>2 DEF IInv, LockInv
  <2>4. QED
    BY <2>2, <2>3
<1> QED  BY <1>1, Inductive, QueueInvariant, PTL

-----------------------------------------------------------------------------
(* The database implements the store *)

\* What the transaction of a worker w will do to the rows d for its request r.
Holding(w, r, d) ==
    /\ w.stage \in {"begun", "operated", "failing"} => r.op # "get"
    /\ w.stage = "begun" => w.copy.rows = d
    /\ w.stage = "operated" =>
          w.copy.rows = Store!After(r, d) /\ w.reply = Store!Reply(r, d)
    /\ w.stage = "failing" => \/ w.reply = "failed"
                              \/ w.reply = Store!Reply(r, d) /\ Store!After(r, d) = d
    /\ w.stage = "over" => w.reply # Nothing

\* The invariant the refinement needs, on top of IInv: idle callers ask nothing, and
\* no transaction holds back more than the one step of the store it stands for.
SInv == /\ \A c \in Callers : pc[c] = "idle" => req[c] = Nothing
        /\ \A c \in Callers : Holding(work[c], req[c], file.rows)
        /\ work[Life].stage \in {"begun", "operated"} => work[Life].copy.rows = file.rows

\* A step of the store, or none.
Stores == Store!Next \/ UNCHANGED Store!storeVars

\* (ProfileRepository, HeightCacheRepository) An operation that raises leaves the rows
\* alone, and so does one that reads; every reply is one.
LEMMA StoreReplies ==
  ASSUME NEW r \in Requests, NEW d \in [Keys -> Values \cup {Nothing}]
  PROVE  /\ Store!Reply(r, d) # Nothing
         /\ r.op = "get" => Store!After(r, d) = d
         /\ r.op # "get" /\ Store!Reply(r, d) # "done" => Store!After(r, d) = d
<1>1. r.key \in Keys /\ r.value \in Values
  BY RequestAssumption
<1> QED
  BY <1>1, RequestAssumption DEF Store!Reply, Store!After, Store!Missing, Store!Conflict

\* (_await_completion) The new values a worker may take.
LEMMA Idle == /\ Answer(NoWork) = Nothing /\ Answer(Opened) = Nothing
              /\ \A r, d : Holding(NoWork, r, d) /\ Holding(Opened, r, d)
BY WorkTypes DEF Answer, Holding

\* A step that leaves rows, requests and replies alone is none of the store's.
LEMMA SameStore ==
  ASSUME \A c \in Callers : req'[c] = req[c] /\ Answer(work'[c]) = Answer(work[c]),
         file'.rows = file.rows
  PROVE  Stores
<1>1. calls' = calls
  BY DEF calls, Answer
<1> QED  BY <1>1 DEF Stores, Store!storeVars

\* (read, write) What the step of one caller c changes for the store.
LEMMA OneCall ==
  ASSUME NEW c \in Callers, NEW r, NEW x,
         req'[c] = r, Answer(work'[c]) = x,
         \A d \in Callers \ {c} : req'[d] = req[d] /\ Answer(work'[d]) = Answer(work[d])
  PROVE  /\ calls[c] = [req |-> req[c], reply |-> Answer(work[c])]
         /\ calls' = [calls EXCEPT ![c] = [req |-> r, reply |-> x]]
<1>1. calls' = [d \in Callers |-> [req |-> req'[d], reply |-> Answer(work'[d])]]
  BY DEF calls, Answer
<1> QED  BY <1>1 DEF calls

\* (read, write) Callers come and go.
LEMMA CallerStores ==
  ASSUME IInv, SInv, NEW c \in Callers,
         Call(c) \/ Enter(c) \/ Withdraw(c) \/ CancelWorking(c) \/ Resume(c)
  PROVE  SInv' /\ Stores
<1> USE CallerAssumption DEF Threads
<1>1. /\ c \in Threads /\ Life \in Threads /\ c # Life
      /\ req \in [Callers -> Requests \cup {Nothing}] /\ work \in [Threads -> Work]
      /\ pc \in [Threads -> {"idle", "queued", "working", "down", "starting", "up", "stopping"}]
  BY DEF IInv, Types
<1>2. UNCHANGED file
  BY DEF Call, Enter, Withdraw, CancelWorking, Resume, Finish
<1>3. ASSUME pc[c] \in {"queued", "working"}, Leaves(c),
             (work' = work /\ work[c] = NoWork) \/ work' = [work EXCEPT ![c] = NoWork]
      PROVE  SInv' /\ Stores
  <2>1. /\ req[c] \in Requests /\ req'[c] = Nothing /\ work'[c] = NoWork
        /\ \A d \in Callers \ {c} : pc'[d] = pc[d] /\ req'[d] = req[d]
        /\ \A t \in Threads \ {c} : work'[t] = work[t]
    BY <1>1, <1>3 DEF Leaves, IInv, LockInv
  <2>2. SInv'
    BY <1>1, <1>2, <2>1, Idle DEF SInv
  <2>3. Store!Leave(c)
    <3>1. /\ calls[c] = [req |-> req[c], reply |-> Answer(work[c])]
          /\ calls' = [calls EXCEPT ![c] = [req |-> Nothing, reply |-> Nothing]]
      BY <2>1, Idle, OneCall
    <3>2. calls[c].req # Nothing
      BY <2>1, <3>1, RequestAssumption
    <3>3. QED
      BY <1>2, <3>1, <3>2 DEF Store!Leave, Store!NoCall
  <2>4. QED
    BY <2>2, <2>3 DEF Stores, Store!Next
<1>4. CASE Call(c)
  <2>1. PICK r \in Requests : req' = [req EXCEPT ![c] = r]
    BY <1>4 DEF Call
  <2>2. /\ req[c] = Nothing /\ work[c] = NoWork /\ work'[c] \in {NoWork, Opened}
        /\ \A t \in Threads \ {c} : work'[t] = work[t]
        /\ pc'[c] # "idle" /\ \A d \in Callers \ {c} : pc'[d] = pc[d] /\ req'[d] = req[d]
    BY <1>1, <1>4, <2>1 DEF Call, Admit, SInv, IInv, LockInv
  <2>3. SInv'
    BY <1>1, <1>2, <2>1, <2>2, Idle DEF SInv
  <2>4. Store!Ask(c)
    <3>1. req'[c] = r /\ Answer(work[c]) = Nothing /\ Answer(work'[c]) = Nothing
      BY <1>1, <2>1, <2>2, Idle
    <3>2. /\ calls[c] = [req |-> Nothing, reply |-> Nothing]
          /\ calls' = [calls EXCEPT ![c] = [req |-> r, reply |-> Nothing]]
      BY <2>2, <3>1, OneCall
    <3>3. [calls[c] EXCEPT !.req = r] = [req |-> r, reply |-> Nothing]
      BY <3>2
    <3>4. calls' = [calls EXCEPT ![c].req = r]
      BY <3>2, <3>3
    <3>5. QED
      BY <1>2, <3>2, <3>4 DEF Store!Ask, Store!NoCall
  <2>5. QED
    BY <2>3, <2>4 DEF Stores, Store!Next
<1>5. CASE Enter(c)
  <2>1. work[c] = NoWork /\ pc[c] = "queued"
    BY <1>1, <1>5 DEF Enter, IInv, LockInv
  <2>2. CASE Admitted(c)
    <3>1. /\ req' = req /\ work'[c] = Opened /\ pc'[c] # "idle"
          /\ \A t \in Threads \ {c} : work'[t] = work[t] /\ pc'[t] = pc[t]
      BY <1>1, <2>2 DEF Admitted, Admit
    <3>2. SInv'
      BY <1>1, <1>2, <3>1, Idle DEF SInv
    <3>3. Stores
      BY <1>1, <1>2, <2>1, <3>1, Idle, SameStore
    <3>4. QED
      BY <3>2, <3>3
  <2>3. CASE Turned(c)
    BY <1>3, <2>1, <2>3 DEF Turned
  <2>4. QED
    BY <1>5, <2>2, <2>3 DEF Enter
<1>6. CASE Withdraw(c)
  <2>1. work[c] = NoWork /\ pc[c] = "queued" /\ Leaves(c) /\ work' = work
    BY <1>1, <1>6 DEF Withdraw, IInv, LockInv
  <2>2. QED
    BY <1>3, <2>1
<1>7. CASE CancelWorking(c)
  <2>1. UNCHANGED <<req, work, file, pc>>
    BY <1>7 DEF CancelWorking
  <2>2. QED
    BY <2>1, SameStore DEF SInv
<1>8. CASE Resume(c)
  BY <1>3, <1>8 DEF Resume, Finish
<1> QED  BY <1>4, <1>5, <1>6, <1>7, <1>8

\* (_execute_sync) The step that commits is the request of the store, and an error
\* that rolls back is a refusal or a failure.
LEMMA ExecuteStores ==
  ASSUME IInv, SInv, NEW c \in Callers, Execute(c)
  PROVE  SInv' /\ Stores
<1> USE CallerAssumption DEF Threads
<1>1. work[c].stage # "none" /\ UNCHANGED <<pc, req>>
  BY DEF Execute, Read, Begin, Operate, Commit, RollBack
<1>2. /\ c \in Threads /\ Life \in Threads /\ c # Life
      /\ work \in [Threads -> Work] /\ work[c] \in Work
      /\ file \in FileType /\ file.rows \in [Keys -> Values \cup {Nothing}]
      /\ req \in [Callers -> Requests \cup {Nothing}] /\ req[c] \in Requests
      /\ \A u \in Threads \ {c} : work[u] = NoWork
      /\ Holding(work[c], req[c], file.rows)
  BY <1>1, Alone DEF IInv, Types, FileType, SInv
<1> DEFINE r == req[c]
           d == file.rows
\* What is left to show of each step.
<1>3. ASSUME NEW w, work' = [work EXCEPT ![c] = w], Holding(w, r, file'.rows)
      PROVE  SInv'
  <2>1. work'[c] = w /\ \A u \in Threads \ {c} : work'[u] = NoWork
    BY <1>2, <1>3
  <2>2. QED
    BY <1>1, <1>2, <1>3, <2>1, WorkTypes, Idle DEF SInv
<1>4. ASSUME NEW w, work' = [work EXCEPT ![c] = w], Answer(w) = Answer(work[c]),
             file'.rows = file.rows
      PROVE  Stores
  BY <1>1, <1>2, <1>4, SameStore
<1>5. ASSUME work[c].stage # "over", NEW x, x # Nothing, work' = [work EXCEPT ![c] = Over(x)],
             \/ x = "failed" /\ file'.rows = d
             \/ x = Store!Reply(r, d) /\ file'.rows = Store!After(r, d)
      PROVE  SInv' /\ Stores
  <2>1. Over(x).stage = "over" /\ Over(x).reply = x
    BY DEF Over, NoWork
  <2>2. SInv'
    BY <1>3, <1>5, <2>1 DEF Holding
  <2>3. /\ r # Nothing /\ Answer(work[c]) = Nothing /\ Answer(work'[c]) = x
        /\ \A u \in Callers \ {c} : work'[u] = work[u]
    BY <1>2, <1>5, <2>1, RequestAssumption DEF Answer
  <2>4. Store!Fail(c) \/ Store!Take(c)
    <3>1. /\ calls[c] = [req |-> r, reply |-> Nothing]
          /\ calls' = [calls EXCEPT ![c] = [req |-> r, reply |-> x]]
      BY <1>1, <2>3, OneCall
    <3>2. [calls[c] EXCEPT !.reply = x] = [req |-> r, reply |-> x]
      BY <3>1
    <3>3. calls' = [calls EXCEPT ![c].reply = x]
      BY <3>1, <3>2
    <3>4. calls[c].req = r /\ calls[c].reply = Nothing
      BY <3>1
    <3>5. QED
      BY <1>5, <2>3, <3>3, <3>4 DEF Store!Fail, Store!Take, Store!Asked
  <2>5. QED
    BY <2>2, <2>4 DEF Stores, Store!Next
<1>6. "failed" # Nothing
  BY RequestAssumption
<1>7. CASE Read(c) /\ UNCHANGED file
  BY <1>2, <1>5, <1>6, <1>7, StoreReplies DEF Read, Fails
<1>8. CASE Begin(c) /\ UNCHANGED file
  <2>1. CASE work' = [work EXCEPT ![c].stage = "begun", ![c].copy = file]
    <3> DEFINE w == [work[c] EXCEPT !.stage = "begun", !.copy = file]
    <3>1. w.stage = "begun" /\ w.copy = file
      BY <1>2 DEF Work
    <3>2. work' = [work EXCEPT ![c] = w]
      BY <1>2, <2>1 DEF Work
    <3> HIDE DEF w
    <3>3. Holding(w, r, file'.rows) /\ Answer(w) = Answer(work[c])
      BY <1>8, <3>1 DEF Holding, Answer, Begin
    <3>4. QED
      BY <1>3, <1>4, <1>8, <3>2, <3>3
  <2>2. QED
    BY <1>5, <1>6, <1>8, <2>1 DEF Begin, Fails
<1>9. CASE Operate(c) /\ UNCHANGED file
  <2>1. work[c].stage = "begun" /\ work[c].copy.rows = d /\ r.op # "get" /\ work[c].copy \in FileType
    BY <1>2, <1>9 DEF Operate, Holding, Work
  <2> DEFINE x == Store!Reply(r, d)
             n == Store!After(r, d)
  <2>2. \E e \in {d, n}, y \in {x, "failed"}, g \in {"operated", "failing"} :
          /\ work' = [work EXCEPT ![c].copy.rows = e, ![c].reply = y, ![c].stage = g]
          /\ g = "operated" => e = n /\ y = x
          /\ g = "failing" => y = "failed" \/ (y = x /\ x # "done")
    BY <1>9, <2>1 DEF Operate
  <2>3. x # "done" => n = d
    BY <1>2, <2>1, StoreReplies
  <2> HIDE DEF x, n
  <2>4. PICK e \in {d, n}, y \in {x, "failed"}, g \in {"operated", "failing"} :
          /\ work' = [work EXCEPT ![c].copy.rows = e, ![c].reply = y, ![c].stage = g]
          /\ g = "operated" => e = n /\ y = x
          /\ g = "failing" => y = "failed" \/ (y = x /\ x # "done")
    BY <2>2
  <2> DEFINE w == [work[c] EXCEPT !.copy = [work[c].copy EXCEPT !.rows = e],
                                  !.reply = y, !.stage = g]
  <2>5. w.stage = g /\ w.reply = y /\ w.copy.rows = e
    BY <1>2, <2>1 DEF Work, FileType
  <2>6. work' = [work EXCEPT ![c] = w]
    BY <1>2, <2>1, <2>4 DEF Work, FileType
  <2> HIDE DEF w
  <2>7. Holding(w, r, file'.rows) /\ Answer(w) = Answer(work[c])
    BY <1>9, <2>1, <2>3, <2>4, <2>5 DEF Holding, Answer, x, n
  <2>8. QED
    BY <1>3, <1>4, <1>9, <2>6, <2>7
<1>10. CASE Commit(c)
  <2>1. /\ work[c].stage = "operated" /\ work[c].copy.rows = Store!After(r, d)
        /\ work[c].reply = Store!Reply(r, d)
    BY <1>2, <1>10 DEF Commit, Holding
  <2>2. CASE file' = work[c].copy /\ work' = [work EXCEPT ![c] = Over(work[c].reply)]
    BY <1>2, <1>5, <2>1, <2>2, StoreReplies
  <2>3. CASE /\ work' = [work EXCEPT ![c].stage = "failing", ![c].reply = "failed"]
             /\ UNCHANGED file
    <3> DEFINE w == [work[c] EXCEPT !.stage = "failing", !.reply = "failed"]
    <3>1. w.stage = "failing" /\ w.reply = "failed" /\ work' = [work EXCEPT ![c] = w]
      BY <1>2, <2>3 DEF Work
    <3> HIDE DEF w
    <3>2. Holding(w, r, file'.rows) /\ Answer(w) = Answer(work[c])
      BY <1>2, <2>1, <3>1 DEF Holding, Answer
    <3>3. QED
      BY <1>3, <1>4, <2>3, <3>1, <3>2
  <2>4. QED
    BY <1>10, <2>2, <2>3 DEF Commit
<1>11. CASE RollBack(c)
  <2>1. /\ work[c].stage = "failing" /\ UNCHANGED file
        /\ work' = [work EXCEPT ![c] = Over(work[c].reply)]
        /\ \/ work[c].reply = "failed"
           \/ work[c].reply = Store!Reply(r, d) /\ Store!After(r, d) = d
    BY <1>2, <1>11 DEF RollBack, Holding
  <2>2. QED
    BY <1>2, <1>5, <1>6, <2>1, StoreReplies
<1> QED
  BY <1>7, <1>8, <1>9, <1>10, <1>11 DEF Execute

\* (start, stop, _start_sync) The lifecycle keeps the rows: the migrations copy them,
\* and the probe of the schema puts back what it deletes.
LEMMA LifeStores ==
  ASSUME IInv, SInv, Start \/ Stop \/ LifeStep \/ UNCHANGED vars
  PROVE  SInv' /\ Stores
<1> USE CallerAssumption DEF Threads
<1>1. /\ Life \in Threads /\ work \in [Threads -> Work] /\ file \in FileType
      /\ pc \in [Threads -> {"idle", "queued", "working", "down", "starting", "up", "stopping"}]
  BY DEF IInv, Types
<1>2. ASSUME \A c \in Callers : work'[c] = work[c] /\ pc'[c] = pc[c] /\ req'[c] = req[c],
             file'.rows = file.rows,
             work'[Life].stage \in {"begun", "operated"} => work'[Life].copy.rows = file.rows
      PROVE  SInv' /\ Stores
  BY <1>2, SameStore DEF SInv
<1>3. ASSUME NEW x, work' = [work EXCEPT ![Life] = Over(x)], UNCHANGED <<pc, req, file>>
      PROVE  SInv' /\ Stores
  BY <1>1, <1>2, <1>3 DEF Over, NoWork
<1>4. CASE Start \/ Stop \/ FinishStop \/ UNCHANGED vars
  BY <1>1, <1>2, <1>4 DEF Start, Stop, FinishStop, vars, SInv
<1>5. CASE Prepare \/ Started
  BY <1>1, <1>2, <1>5, WorkTypes DEF Prepare, Started
<1>6. CASE StartSync
  <2>1. UNCHANGED <<pc, req>>
    BY <1>6 DEF StartSync
  <2>2. CASE \E x : Refuse(x) /\ UNCHANGED file
    BY <1>3, <2>1, <2>2 DEF Refuse
  <2>3. ASSUME NEW g \in {"migrate", "verify"}, work' = [work EXCEPT ![Life].stage = g],
               UNCHANGED file
        PROVE  SInv' /\ Stores
    <3>1. work'[Life].stage = g /\ \A c \in Callers : work'[c] = work[c]
      BY <1>1, <2>3 DEF Work
    <3>2. QED
      BY <1>2, <2>1, <2>3, <3>1
  <2>4. ASSUME NEW g, NEW f, work' = [work EXCEPT ![Life].stage = g, ![Life].copy = f],
               g \in {"begun", "operated"} => f.rows = file.rows, file'.rows = file.rows
        PROVE  SInv' /\ Stores
    <3>1. work'[Life].stage = g /\ work'[Life].copy = f /\ \A c \in Callers : work'[c] = work[c]
      BY <1>1, <2>4 DEF Work
    <3>2. QED
      BY <1>2, <2>1, <2>4, <3>1
  <2>5. CASE Inspect /\ UNCHANGED file
    BY <2>2, <2>3, <2>5 DEF Inspect
  <2>6. CASE Create /\ UNCHANGED file
    <3> DEFINE f == [file EXCEPT !.tables = @ \cup {Table[file.version + 1]}]
    <3>1. f.rows = file.rows
      BY <1>1 DEF FileType
    <3> HIDE DEF f
    <3>2. CASE work' = [work EXCEPT ![Life].stage = "begun", ![Life].copy = f]
      BY <2>4, <2>6, <3>1, <3>2
    <3>3. QED
      BY <2>2, <2>6, <3>2 DEF Create, f
  <2>7. CASE Number
    <3>1. CASE work' = [work EXCEPT ![Life].stage = "operated", ![Life].copy.version = @ + 1]
      <4> DEFINE f == [work[Life].copy EXCEPT !.version = @ + 1]
      <4>1. f.rows = file.rows
        BY <1>1, <2>7 DEF Number, SInv, Work, FileType
      <4>2. work' = [work EXCEPT ![Life].stage = "operated", ![Life].copy = f]
        BY <1>1, <3>1 DEF Work
      <4> HIDE DEF f
      <4>3. QED
        BY <2>4, <2>7, <4>1, <4>2 DEF Number
    <3>2. QED
      BY <2>2, <2>7, <3>1 DEF Number
  <2>8. CASE Migrated
    <3>1. work[Life].copy.rows = file.rows
      BY <2>8 DEF Migrated, SInv
    <3>2. ASSUME file' = work[Life].copy, NEW g \in {"migrate", "verify"},
                 work' = [work EXCEPT ![Life].copy = NoFile, ![Life].stage = g]
          PROVE  SInv' /\ Stores
      <4>1. work' = [work EXCEPT ![Life].stage = g, ![Life].copy = NoFile]
        BY <1>1, <3>2 DEF Work
      <4>2. QED
        BY <2>4, <3>1, <3>2, <4>1
    <3>3. QED
      BY <2>2, <2>8, <3>2 DEF Migrated
  <2>9. CASE Verify /\ UNCHANGED file
    <3>1. ASSUME NEW f, work' = [work EXCEPT ![Life].stage = "probing", ![Life].copy = f]
          PROVE  SInv' /\ Stores
      BY <2>4, <2>9, <3>1
    <3>2. QED
      BY <2>2, <2>9, <3>1 DEF Verify
  <2>10. CASE Restore
    BY <2>2, <2>10 DEF Restore
  <2>11. QED
    BY <1>6, <2>5, <2>6, <2>7, <2>8, <2>9, <2>10 DEF StartSync
<1> QED  BY <1>4, <1>5, <1>6 DEF LifeStep

\* (the process dies) Requests under way are forgotten, what was committed is not.
LEMMA CrashStores ==
  ASSUME IInv, SInv, Crash
  PROVE  SInv' /\ Stores
<1> USE CallerAssumption DEF Threads, Crash
<1>1. /\ \A t \in Threads : work'[t] = NoWork
      /\ \A c \in Callers : req'[c] = Nothing
      /\ UNCHANGED file
  OBVIOUS
<1>2. SInv'
  BY <1>1, WorkTypes, Idle DEF SInv
<1>3. Store!Crash
  BY <1>1, Idle DEF Store!Crash, Store!NoCall, calls, Answer
<1> QED  BY <1>2, <1>3 DEF Stores, Store!Next

\* (SQLiteDatabase, ProfileRepository, HeightCacheRepository) The database implements
\* the store, for any callers and requests: an answered request took effect once and
\* as a whole, also across rollbacks, cancellations, crashes and migrations.
THEOREM ImplementsStore == Spec => IsProfileStore
<1>1. Init => SInv /\ Store!Init
  <2> SUFFICES ASSUME Init PROVE SInv /\ Store!Init
    OBVIOUS
  <2> USE CallerAssumption DEF Threads, Init
  <2>1. SInv
    BY WorkTypes, Idle DEF SInv
  <2>2. file.rows \in [Keys -> Values \cup {Nothing}]
    BY DEF Files, FileType
  <2>3. Store!Init
    BY <2>2, Idle DEF Store!Init, Store!NoCall, calls
  <2>4. QED
    BY <2>1, <2>3
<1>2. IInv /\ SInv /\ [Next]_vars => SInv' /\ [Store!Next]_(Store!storeVars)
  <2> SUFFICES ASSUME IInv, SInv, [Next]_vars PROVE SInv' /\ Stores
    BY DEF Stores
  <2>1. QED
    BY CallerStores, ExecuteStores, LifeStores, CrashStores DEF Next, CallerStep
<1> QED  BY <1>1, <1>2, Inductive, PTL DEF Spec, IsProfileStore, Store!Spec
=============================================================================
