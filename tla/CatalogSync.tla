---------------------------- MODULE CatalogSync ----------------------------
(***************************************************************************)
(* The Brico Depot catalogue synchronisation engine                        *)
(* (app/services/bricodepot_catalog_sync.py) and its command line          *)
(* (tools/bricodepot_catalog_sync.py).                                     *)
(*                                                                         *)
(* A job is one row with a lease, a checkpoint and counters, and N item    *)
(* rows, one per discovered SKU.  A worker is one process of the command   *)
(* line: it creates a job or names an existing one (--resume,              *)
(* --retry-errors), takes the lease, processes the items batch by batch,   *)
(* and leaves.  Each action is one transaction, or one step that reads     *)
(* the rows into the worker's ORM session: between the read and the commit *)
(* of a batch the worker is on the network, and other workers move.        *)
(*                                                                         *)
(* A commit of the ORM writes only the attributes whose value differs from *)
(* the one the session loaded, whatever the row holds by then (WriteBack). *)
(***************************************************************************)
EXTENDS Naturals, FiniteSets

CONSTANTS
    Workers,        \* the processes, each launched at most once
    NoOwner,        \* lease_owner = NULL
    N,              \* discovered_total: the items are at positions 0 .. N-1
    BatchSize,      \* sync_batch_size
    MaxRetry,       \* MAX_RETRY_ATTEMPTS of one enrichment
    MaxAttempts,    \* bound: an item fails at most this often
    Modes,          \* the command lines used
    Interruptible,  \* bound: the processes that may get a SIGINT
    OverrunAllowed, \* may a lease run out while its holder is still working?
    EarlyResume     \* may a job be resumed before its creator has taken it?

ASSUME SyncAssumption ==
    /\ NoOwner \notin Workers
    /\ N \in Nat
    /\ BatchSize \in Nat \ {0}
    /\ MaxRetry \in Nat \ {0}
    /\ MaxAttempts \in Nat
    /\ Modes \subseteq {"create", "resume", "retry"}
    /\ Interruptible \subseteq Workers
    /\ OverrunAllowed \in BOOLEAN
    /\ EarlyResume \in BOOLEAN

Positions == 0 .. N-1

VARIABLES
    job,        \* the job row; status "absent" until it is created
    items,      \* the item rows: status and attempts
    pc,         \* where each worker is
    mode,       \* the command line of each worker
    snap,       \* the job row as loaded in each worker's session
    batch,      \* the positions of the current batch
    last,       \* the highest of them
    seenItems,       \* the items of the current batch, as loaded
    tries,      \* failed enrichments of the current batch
    sigint      \* _interrupt

syncVars == <<job, items, pc, mode, snap, batch, last, seenItems, tries, sigint>>

-----------------------------------------------------------------------------
(* Rows *)

JobStatus == {"absent", "pending", "running", "paused", "completed",
              "completed_with_errors", "failed"}
ItemStatus == {"pending", "done", "failed", "skipped"}

Jobs == [status : JobStatus, owner : Workers \cup {NoOwner},
         lease : {"none", "live", "expired"}, checkpoint : Nat,
         processed : Nat, done : Nat, failed : Nat, skipped : Nat]
Items == [status : ItemStatus, attempts : Nat]

FreshJob ==
    [status |-> "absent", owner |-> NoOwner, lease |-> "none",
     checkpoint |-> 0, processed |-> 0, done |-> 0, failed |-> 0, skipped |-> 0]

\* What an UPDATE leaves in a column that holds now, was loaded as read and
\* was set to value in the session.
Column(now, read, value) == IF value # read THEN value ELSE now

WriteBack(now, read, new) ==
    [status     |-> Column(now.status, read.status, new.status),
     owner      |-> Column(now.owner, read.owner, new.owner),
     lease      |-> Column(now.lease, read.lease, new.lease),
     checkpoint |-> Column(now.checkpoint, read.checkpoint, new.checkpoint),
     processed  |-> Column(now.processed, read.processed, new.processed),
     done       |-> Column(now.done, read.done, new.done),
     failed     |-> Column(now.failed, read.failed, new.failed),
     skipped    |-> Column(now.skipped, read.skipped, new.skipped)]

\* lease_until := now + LEASE_SECONDS, a value no session has loaded.
Renewed(row) == [row EXCEPT !.lease = "live"]

-----------------------------------------------------------------------------
(* Workers *)

Leaving == {"pausing", "failing", "completing"}
Exits == {"paused", "failed", "completed"}
Before == {"discover", "created", "stale", "ready"}
Batching == {"reload", "select", "enrich"}

Alive(w) == pc[w] \notin {"off", "left"}
\* Between the commit that takes the lease and the one that gives it back.
Running(w) == pc[w] \in Batching \cup Leaving \cup Exits
Goto(w, to) == pc' = [pc EXCEPT ![w] = to]

\* What a session holds of rows it has not loaded, or that a commit expired.
Unloaded == FreshJob
UnloadedItem == [status |-> "pending", attempts |-> 0]
Load(w) == snap' = [snap EXCEPT ![w] = job]
Expire(w) == /\ snap' = [snap EXCEPT ![w] = Unloaded]
             /\ batch' = [batch EXCEPT ![w] = {}]
             /\ last' = [last EXCEPT ![w] = 0]
             /\ seenItems' = [seenItems EXCEPT ![w] = [p \in Positions |-> UnloadedItem]]
             /\ tries' = [tries EXCEPT ![w] = 0]

SyncTypeOK ==
    /\ job \in Jobs
    /\ items \in [Positions -> Items]
    /\ pc \in [Workers -> {"off", "left"} \cup Before \cup Batching \cup Leaving \cup Exits]
    /\ mode \in [Workers -> Modes \cup {"none"}]
    /\ snap \in [Workers -> Jobs]
    /\ batch \in [Workers -> SUBSET Positions]
    /\ last \in [Workers -> Nat]
    /\ seenItems \in [Workers -> [Positions -> Items]]
    /\ tries \in [Workers -> Nat]
    /\ sigint \in [Workers -> BOOLEAN]

SyncInit ==
    /\ job = FreshJob
    /\ items = [p \in Positions |-> UnloadedItem]
    /\ pc = [w \in Workers |-> "off"]
    /\ mode = [w \in Workers |-> "none"]
    /\ snap = [w \in Workers |-> Unloaded]
    /\ batch = [w \in Workers |-> {}]
    /\ last = [w \in Workers |-> 0]
    /\ seenItems = [w \in Workers |-> [p \in Positions |-> UnloadedItem]]
    /\ tries = [w \in Workers |-> 0]
    /\ sigint = [w \in Workers |-> FALSE]

-----------------------------------------------------------------------------
(* The command line *)

\* main(): one process is started; its SIGINT handler is installed first.
Launch(w, m) ==
    /\ pc[w] = "off"
    /\ IF m = "create"
          THEN /\ job.status = "absent"
               /\ \A v \in Workers : mode[v] # "create"
          ELSE /\ job.status # "absent"
               /\ EarlyResume \/ \A v \in Workers : pc[v] \notin {"created", "stale"}
    /\ mode' = [mode EXCEPT ![w] = m]
    /\ Goto(w, IF m = "create" THEN "discover" ELSE "ready")
    /\ UNCHANGED <<job, items, snap, batch, last, seenItems, tries, sigint>>

\* create_job and the commit of main(): the rows of SyncInit come into being, the
\* job and its N items pending.
CreateJob(w) ==
    /\ pc[w] = "discover"
    /\ job.status = "absent"
    /\ job' = [job EXCEPT !.status = "pending"]
    /\ Goto(w, "created")
    /\ UNCHANGED <<items, mode, snap, batch, last, seenItems, tries, sigint>>

\* The line main() prints about the new job loads its row.
AnnounceJob(w) ==
    /\ pc[w] = "created"
    /\ Load(w)
    /\ Goto(w, "stale")
    /\ UNCHANGED <<job, items, mode, batch, last, seenItems, tries, sigint>>

\* _on_sigint.
Sigint(w) ==
    /\ Alive(w) /\ w \in Interruptible
    /\ sigint' = [sigint EXCEPT ![w] = TRUE]
    /\ UNCHANGED <<job, items, pc, mode, snap, batch, last, seenItems, tries>>

-----------------------------------------------------------------------------
(* run_job *)

\* The row _acquire_lease looks at: SELECT ... FOR UPDATE does not overwrite
\* a row the session has already loaded.
RowSeen(w) == IF pc[w] = "stale" THEN snap[w] ELSE job

\* Mutant: the lease of another worker is not looked at.
MayAcquireIgnoringLease(w) == RowSeen(w).status # "completed"

MayAcquire(w) ==
    LET row == RowSeen(w) IN
    /\ row.status # "completed"
    /\ ~ (row.lease = "live" /\ row.owner \notin {NoOwner, w})

\* run_job up to its first commit; _interrupt is reset on the way.
Acquire(w) ==
    /\ pc[w] \in {"stale", "ready"}
    /\ MayAcquire(w)
    /\ job' = Renewed(WriteBack(job, RowSeen(w),
                  [RowSeen(w) EXCEPT !.owner = w, !.status = "running"]))
    /\ sigint' = [sigint EXCEPT ![w] = FALSE]
    /\ Expire(w)
    /\ Goto(w, "reload")
    /\ UNCHANGED <<items, mode>>

\* JobLockError.
AcquireRefused(w) ==
    /\ pc[w] \in {"stale", "ready"}
    /\ ~ MayAcquire(w)
    /\ Expire(w)
    /\ Goto(w, "left")
    /\ UNCHANGED <<job, items, mode, sigint>>

\* After a commit the first attribute read (run_job, the progress callback)
\* loads the job again.
Reload(w) ==
    /\ pc[w] = "reload"
    /\ Load(w)
    /\ Goto(w, "select")
    /\ UNCHANGED <<job, items, mode, batch, last, seenItems, tries, sigint>>

\* The rows _next_batch_items asks for, before its LIMIT.
Eligible(w) ==
    IF mode[w] = "retry"
       THEN {p \in Positions : items[p].status = "failed"}
       ELSE {p \in Positions : /\ p >= snap[w].checkpoint
                               /\ items[p].status \in {"pending", "failed"}}

\* _next_batch_items: the lowest BatchSize positions, up to one named top.
Select(w) ==
    /\ pc[w] = "select"
    /\ ~ sigint[w]
    /\ \E top \in Eligible(w) :
         LET B == {p \in Eligible(w) : p <= top} IN
         /\ \/ Cardinality(B) = BatchSize
            \/ Cardinality(B) < BatchSize /\ B = Eligible(w)
         /\ batch' = [batch EXCEPT ![w] = B]
         /\ last' = [last EXCEPT ![w] = top]
         /\ seenItems' = [seenItems EXCEPT ![w] =
                       [p \in Positions |-> IF p \in B THEN items[p] ELSE UnloadedItem]]
    /\ Goto(w, "enrich")
    /\ UNCHANGED <<job, items, mode, snap, tries, sigint>>

SelectNothing(w) ==
    /\ pc[w] = "select"
    /\ ~ sigint[w]
    /\ Eligible(w) = {}
    /\ Goto(w, "completing")
    /\ UNCHANGED <<job, items, mode, snap, batch, last, seenItems, tries, sigint>>

\* InterruptRequested.
Interrupted(w) ==
    /\ pc[w] = "select"
    /\ sigint[w]
    /\ Goto(w, "pausing")
    /\ UNCHANGED <<job, items, mode, snap, batch, last, seenItems, tries, sigint>>

\* Mutant: the attempts start again instead of ending the run.
EnrichRetryForever(w) ==
    /\ pc[w] = "enrich"
    /\ tries' = [tries EXCEPT ![w] = (@ + 1) % MaxRetry]
    /\ UNCHANGED <<job, items, pc, mode, snap, batch, last, seenItems, sigint>>

\* _enrich_with_retry: a transient error is retried, the last one and any
\* other error leave run_job.
EnrichRetry(w) ==
    /\ pc[w] = "enrich"
    /\ tries[w] < MaxRetry - 1
    /\ tries' = [tries EXCEPT ![w] = @ + 1]
    /\ UNCHANGED <<job, items, pc, mode, snap, batch, last, seenItems, sigint>>

EnrichFailed(w) ==
    /\ pc[w] = "enrich"
    /\ Goto(w, "failing")
    /\ UNCHANGED <<job, items, mode, snap, batch, last, seenItems, tries, sigint>>

\* The item row after its outcome was set in the session.
ItemWriteBack(now, read, status) ==
    [status   |-> Column(now.status, read.status, status),
     attempts |-> Column(now.attempts, read.attempts, read.attempts + 1)]

Larger(a, b) == IF a >= b THEN a ELSE b

\* Mutant: the checkpoint goes one item too far.
CountedTooFar(read, D, F, S, top) ==
    [read EXCEPT !.checkpoint = Larger(@, top + 2)]

\* Mutant: a skipped item is not counted as processed.
CountedWithoutSkipped(read, D, F, S, top) ==
    [read EXCEPT !.done = @ + Cardinality(D),
                 !.failed = @ + Cardinality(F),
                 !.skipped = @ + Cardinality(S),
                 !.processed = @ + Cardinality(D) + Cardinality(F),
                 !.checkpoint = Larger(@, top + 1)]

\* The job as the session leaves it: D, F and S are the positions of the batch
\* that were done, failed and skipped.
Counted(read, D, F, S, top) ==
    [read EXCEPT !.done = @ + Cardinality(D),
                 !.failed = @ + Cardinality(F),
                 !.skipped = @ + Cardinality(S),
                 !.processed = @ + Cardinality(D) + Cardinality(F) + Cardinality(S),
                 !.checkpoint = Larger(@, top + 1)]

\* The enrichment answers; _process_one_batch, _refresh_lease, commit.
CommitBatch(w) ==
    /\ pc[w] = "enrich"
    /\ \E outcome \in [batch[w] -> ItemStatus \ {"pending"}] :
         LET Got(s) == {p \in batch[w] : outcome[p] = s} IN
         /\ \A p \in Got("failed") : seenItems[w][p].attempts < MaxAttempts
         /\ items' = [p \in Positions |->
                        IF p \in batch[w]
                           THEN ItemWriteBack(items[p], seenItems[w][p], outcome[p])
                           ELSE items[p]]
         /\ job' = Renewed(WriteBack(job, snap[w],
                       Counted(snap[w], Got("done"), Got("failed"),
                               Got("skipped"), last[w])))
    /\ Expire(w)
    /\ Goto(w, "reload")
    /\ UNCHANGED <<mode, sigint>>

\* _refresh_job before each of the three ways out of run_job.
RefreshJob(w) ==
    /\ \/ pc[w] = "pausing" /\ Goto(w, "paused")
       \/ pc[w] = "failing" /\ Goto(w, "failed")
       \/ pc[w] = "completing" /\ Goto(w, "completed")
    /\ Load(w)
    /\ UNCHANGED <<job, items, mode, batch, last, seenItems, tries, sigint>>

\* Mutant: failed_count is not looked at.
FinalStatusIgnoringErrors(w) == pc[w]

FinalStatus(w) ==
    IF pc[w] = "completed" /\ snap[w].failed > 0 THEN "completed_with_errors"
                                                 ELSE pc[w]

\* The last commit of run_job.
Leave(w) ==
    /\ pc[w] \in Exits
    /\ job' = WriteBack(job, snap[w],
                  [snap[w] EXCEPT !.status = FinalStatus(w),
                                  !.owner = NoOwner, !.lease = "none"])
    /\ Expire(w)
    /\ Goto(w, "left")
    /\ UNCHANGED <<items, mode, sigint>>

\* The process dies, or a flush fails and every later statement of the session
\* with it: nothing is written, the lease stays.
Crash(w) ==
    /\ Alive(w)
    /\ Expire(w)
    /\ Goto(w, "left")
    /\ UNCHANGED <<job, items, mode, sigint>>

-----------------------------------------------------------------------------
(* Time *)

\* lease_until passes.
LeaseExpires ==
    /\ job.lease = "live"
    /\ OverrunAllowed \/ \A w \in Workers : job.owner = w => ~ Running(w)
    /\ job' = [job EXCEPT !.lease = "expired"]
    /\ UNCHANGED <<items, pc, mode, snap, batch, last, seenItems, tries, sigint>>

-----------------------------------------------------------------------------

\* run_job, from discovery to its way out.
RunStep(w) ==
    \/ CreateJob(w) \/ AnnounceJob(w)
    \/ Acquire(w) \/ AcquireRefused(w)
    \/ Reload(w) \/ Select(w) \/ SelectNothing(w) \/ Interrupted(w)
    \/ EnrichRetry(w) \/ EnrichFailed(w) \/ CommitBatch(w)
    \/ RefreshJob(w) \/ Leave(w)

SyncNext ==
    \/ \E w \in Workers :
         \/ RunStep(w) \/ Sigint(w) \/ Crash(w)
         \/ \E m \in Modes : Launch(w, m)
    \/ LeaseExpires

SyncSpec == SyncInit /\ [][SyncNext]_syncVars

\* A process that was started keeps running; launches, signals, crashes and
\* the clock owe nothing.
Fairness == \A w \in Workers : WF_syncVars(RunStep(w))

FairSyncSpec == SyncSpec /\ Fairness

-----------------------------------------------------------------------------
(* Properties *)

\* No item below the checkpoint is still to be processed: a resumed run, which
\* starts at the checkpoint, forgets nothing.  It must hold even when a worker
\* outlives its lease and two of them move the checkpoint from old snapshots.
CheckpointSafe ==
    \A p \in Positions :
        p < job.checkpoint => items[p].status # "pending"

\* CheckpointSafe is not inductive: what each worker holds in memory, and will
\* write, must be safe as well.  Items leave "pending" in the order of their
\* positions, no snapshot has a checkpoint beyond a pending item or holds a
\* pending item as processed, and a batch leaves no pending item behind it.
Processed(p) == items[p].status # "pending"

CheckpointInv ==
    /\ CheckpointSafe
    /\ \A p, q \in Positions : p < q /\ Processed(q) => Processed(p)
    /\ \A w \in Workers, p \in Positions :
         /\ p < snap[w].checkpoint => Processed(p)
         /\ seenItems[w][p].status # "pending" => Processed(p)
    /\ \A w \in Workers : pc[w] = "enrich" =>
         \A p \in Positions : p <= last[w] => p \in batch[w] \/ Processed(p)
    /\ \A w \in Workers : pc[w] = "enrich" =>
         \A p \in batch[w] : p <= last[w]

\* Two processes never run the same job at once (the lease of _acquire_lease).
LeaseExclusion ==
    \A v, w \in Workers : v # w => ~ (Running(v) /\ Running(w))

\* The reason, when no lease is overrun and no job is resumed before its creator
\* has taken it: whoever runs the job owns a live lease, and the one process
\* that still holds the row as it created it is alone.
LeaseInv ==
    /\ \A w \in Workers : Running(w) =>
         job.owner = w /\ job.lease = "live" /\ job.status # "absent"
    /\ \A w \in Workers : pc[w] \in {"discover", "created", "stale"} =>
         /\ mode[w] = "create"
         /\ \A v \in Workers \ {w} : pc[v] \in {"off", "left"} /\ mode[v] # "create"
    /\ \A w \in Workers : pc[w] = "stale" => snap[w] = job
    /\ \A w \in Workers : pc[w] = "discover" => job.status = "absent"
    /\ job.status = "absent" =>
         \A w \in Workers : pc[w] \in {"off", "left", "discover"}
    /\ job.status = "absent" => job.lease = "none"
    /\ \A w \in Workers : pc[w] \in {"discover", "created", "stale"} =>
         job.lease = "none"

\* The counters of the job row, incremented in memory by whichever process ran,
\* agree with the item rows, committed batches being counted once.  An attempt
\* is an item and its number among the attempts on that item.
Having(s) == {p \in Positions : items[p].status = s}
AttemptsOn(p) == {p} \X (1 .. items[p].attempts)
Attempts == UNION {AttemptsOn(p) : p \in Positions}

CountersMatchItems ==
    /\ job.done = Cardinality(Having("done"))
    /\ job.skipped = Cardinality(Having("skipped"))
    /\ job.failed >= Cardinality(Having("failed"))
    /\ job.processed = job.done + job.failed + job.skipped
    /\ job.processed = Cardinality(Attempts)

\* A job reported completed has processed every item, with no error left.
CompletedMeansSettled ==
    job.status = "completed" =>
        \A p \in Positions : items[p].status \in {"done", "skipped"}

\* A process that runs a job leaves it: the batches and the retries end.
RunTerminates == \A w \in Workers : Running(w) ~> pc[w] = "left"

\* What the engine promises of a job: see SyncLedger.
Ledger == INSTANCE SyncLedger WITH
    verdict <- [p \in Positions |-> items[p].status],
    closed <- job.status = "completed"
LedgerSpec == Ledger!Spec
============================================================================
