--------------------------- MODULE Catalogues_proofs ---------------------------
(***************************************************************************)
(* Proofs about the two ways into the supplier catalogues: the             *)
(* synchronisation of CatalogSync and the imports of SupplierCatalogue.    *)
(*                                                                         *)
(* Of CatalogSync: for any number of processes, items and batch sizes,     *)
(* with or without overrun leases.                                         *)
(*                                                                         *)
(* Of SupplierCatalogue: for any references, products, number of sessions  *)
(* and requests.  What is decided by hand stands, no file detaches a       *)
(* reference, and an import is whole.  Nobody locks a reference before     *)
(* writing it, so what a session drafts is made of a row that others may   *)
(* have changed since.  What it holds from then on is locked: the          *)
(* committed row under a draft stays what it was when the draft was        *)
(* flushed over it (RowLock, Faithful).  An import whose offer is drafted  *)
(* keeps its reference from being deleted (Covered).                       *)
(***************************************************************************)
EXTENDS CatalogSync, SupplierCatalogue, TLAPS, FiniteSetTheorems

-----------------------------------------------------------------------------
(* Rows *)

LEMMA PositionsFinite ==
    ASSUME NEW B \in SUBSET Positions
    PROVE  Cardinality(B) \in Nat
<1>1. IsFiniteSet(Positions)
  BY SyncAssumption, FS_Interval DEF Positions
<1>. QED BY <1>1, FS_Subset, FS_CardinalityType

LEMMA WriteBackType ==
    ASSUME NEW now \in Jobs, NEW read \in Jobs, NEW new \in Jobs
    PROVE  WriteBack(now, read, new) \in Jobs
BY DEF WriteBack, Column, Jobs

LEMMA RenewedType ==
    ASSUME NEW row \in Jobs
    PROVE  /\ Renewed(row) \in Jobs
           /\ Renewed(row).checkpoint = row.checkpoint
BY DEF Renewed, Jobs

LEMMA FreshJobType == FreshJob \in Jobs
BY DEF FreshJob, Jobs, JobStatus

LEMMA CountedType ==
    ASSUME NEW read \in Jobs, NEW top \in Nat,
           NEW D \in SUBSET Positions, NEW F \in SUBSET Positions,
           NEW S \in SUBSET Positions
    PROVE  Counted(read, D, F, S, top) \in Jobs
<1>1. /\ Cardinality(D) \in Nat
      /\ Cardinality(F) \in Nat
      /\ Cardinality(S) \in Nat
  BY PositionsFinite
<1>2. /\ read.processed + Cardinality(D) + Cardinality(F) + Cardinality(S) \in Nat
      /\ read.done + Cardinality(D) \in Nat
      /\ read.failed + Cardinality(F) \in Nat
      /\ read.skipped + Cardinality(S) \in Nat
      /\ Larger(read.checkpoint, top + 1) \in Nat
  BY <1>1 DEF Jobs, Larger
<1>. QED BY <1>2 DEF Counted, Jobs

\* A commit leaves the checkpoint alone or sets it to the session's value.
LEMMA WrittenCheckpoint ==
    ASSUME NEW now, NEW read, NEW new
    PROVE  WriteBack(now, read, new).checkpoint \in {now.checkpoint, new.checkpoint}
BY DEF WriteBack, Column

-----------------------------------------------------------------------------
(* Type correctness *)

\* The state left in a worker's session when a commit expires it.
LEMMA ExpireType ==
    ASSUME SyncTypeOK, NEW w \in Workers, Expire(w)
    PROVE  /\ snap' \in [Workers -> Jobs]
           /\ batch' \in [Workers -> SUBSET Positions]
           /\ last' \in [Workers -> Nat]
           /\ seenItems' \in [Workers -> [Positions -> Items]]
           /\ tries' \in [Workers -> Nat]
<1>1. Unloaded \in Jobs
  BY FreshJobType DEF Unloaded
<1>2. [p \in Positions |-> UnloadedItem] \in [Positions -> Items]
  BY DEF UnloadedItem, Items, ItemStatus
<1>3. /\ batch' \in [Workers -> SUBSET Positions]
      /\ last' \in [Workers -> Nat]
      /\ tries' \in [Workers -> Nat]
  BY DEF SyncTypeOK, Expire
<1>4. snap' \in [Workers -> Jobs]
  BY <1>1 DEF SyncTypeOK, Expire
<1>5. seenItems' \in [Workers -> [Positions -> Items]]
  BY <1>2 DEF SyncTypeOK, Expire
<1>. QED BY <1>3, <1>4, <1>5

LEMMA GotoType ==
    ASSUME SyncTypeOK, NEW w \in Workers, NEW to, Goto(w, to),
           to \in {"left", "discover", "created", "stale", "ready", "reload",
                   "select", "enrich", "pausing", "failing", "completing",
                   "paused", "failed", "completed"}
    PROVE  pc' \in [Workers -> {"off", "left"} \cup Before \cup Batching
                                 \cup Leaving \cup Exits]
BY DEF SyncTypeOK, Goto, Before, Batching, Leaving, Exits

\* What a worker that commits a batch writes to the two tables.
LEMMA CommitBatchType ==
    ASSUME SyncTypeOK, NEW w \in Workers, CommitBatch(w)
    PROVE  job' \in Jobs /\ items' \in [Positions -> Items]
<1>1. PICK outcome \in [batch[w] -> ItemStatus \ {"pending"}] :
        LET Got(s) == {p \in batch[w] : outcome[p] = s} IN
        /\ items' = [p \in Positions |->
                       IF p \in batch[w]
                          THEN ItemWriteBack(items[p], seenItems[w][p], outcome[p])
                          ELSE items[p]]
        /\ job' = Renewed(WriteBack(job, snap[w],
                      Counted(snap[w], Got("done"), Got("failed"),
                              Got("skipped"), last[w])))
  BY DEF CommitBatch
<1>2. job' \in Jobs
  <2>. DEFINE Got(s) == {p \in batch[w] : outcome[p] = s}
              new == Counted(snap[w], Got("done"), Got("failed"),
                             Got("skipped"), last[w])
  <2>1. /\ snap[w] \in Jobs /\ last[w] \in Nat /\ job \in Jobs
        /\ batch[w] \in SUBSET Positions
    BY DEF SyncTypeOK
  <2>2. \A s : Got(s) \in SUBSET Positions
    BY <2>1
  <2>3. new \in Jobs
    <3>. HIDE DEF Got
    <3>. QED BY <2>1, <2>2, CountedType
  <2>4. job' = Renewed(WriteBack(job, snap[w], new))
    BY <1>1
  <2>. QED
    <3>. HIDE DEF new
    <3>. QED BY <2>1, <2>3, <2>4, WriteBackType, RenewedType
<1>3. ASSUME NEW p \in Positions
      PROVE  (IF p \in batch[w]
                 THEN ItemWriteBack(items[p], seenItems[w][p], outcome[p])
                 ELSE items[p]) \in Items
  <2>1. items[p] \in Items /\ seenItems[w][p] \in Items
    BY DEF SyncTypeOK
  <2>2. CASE p \in batch[w]
    <3>1. outcome[p] \in ItemStatus
      BY <2>2
    <3>. QED BY <2>1, <2>2, <3>1 DEF ItemWriteBack, Column, Items
  <2>. QED BY <2>1, <2>2
<1>4. items' \in [Positions -> Items]
  BY <1>1, <1>3
<1>. QED BY <1>2, <1>4

LEMMA TypeStep == SyncTypeOK /\ [SyncNext]_syncVars => SyncTypeOK'
<1>. SUFFICES ASSUME SyncTypeOK, [SyncNext]_syncVars PROVE SyncTypeOK'
  OBVIOUS
<1>1. ASSUME NEW w \in Workers, NEW m \in Modes, Launch(w, m) PROVE SyncTypeOK'
  <2>1. pc' \in [Workers -> {"off", "left"} \cup Before \cup Batching
                              \cup Leaving \cup Exits]
    BY <1>1, GotoType DEF Launch
  <2>. QED BY <1>1, <2>1 DEF SyncTypeOK, Launch
<1>2. ASSUME NEW w \in Workers, CreateJob(w) PROVE SyncTypeOK'
  <2>1. job' \in Jobs
    BY <1>2 DEF SyncTypeOK, CreateJob, Jobs, JobStatus
  <2>. QED BY <1>2, <2>1, GotoType DEF SyncTypeOK, CreateJob
<1>3. ASSUME NEW w \in Workers, AnnounceJob(w) PROVE SyncTypeOK'
  BY <1>3, GotoType DEF SyncTypeOK, AnnounceJob, Load
<1>4. ASSUME NEW w \in Workers, Sigint(w) PROVE SyncTypeOK'
  BY <1>4 DEF SyncTypeOK, Sigint
<1>5. ASSUME NEW w \in Workers, Acquire(w) PROVE SyncTypeOK'
  <2>. DEFINE new == [RowSeen(w) EXCEPT !.owner = w, !.status = "running"]
  <2>1. RowSeen(w) \in Jobs /\ job \in Jobs
    BY DEF SyncTypeOK, RowSeen
  <2>2. new \in Jobs
    BY <2>1 DEF Jobs, JobStatus
  <2>3. job' \in Jobs
    <3>1. job' = Renewed(WriteBack(job, RowSeen(w), new))
      BY <1>5 DEF Acquire
    <3>. HIDE DEF new
    <3>. QED BY <2>1, <2>2, <3>1, WriteBackType, RenewedType
  <2>4. sigint' \in [Workers -> BOOLEAN]
    BY <1>5 DEF SyncTypeOK, Acquire
  <2>. QED BY <1>5, <2>3, <2>4, ExpireType, GotoType DEF SyncTypeOK, Acquire
<1>6. ASSUME NEW w \in Workers, AcquireRefused(w) PROVE SyncTypeOK'
  BY <1>6, ExpireType, GotoType DEF SyncTypeOK, AcquireRefused
<1>7. ASSUME NEW w \in Workers, Reload(w) PROVE SyncTypeOK'
  BY <1>7, GotoType DEF SyncTypeOK, Reload, Load
<1>8. ASSUME NEW w \in Workers, Select(w) PROVE SyncTypeOK'
  <2>1. PICK top \in Eligible(w) :
          LET B == {p \in Eligible(w) : p <= top} IN
          /\ batch' = [batch EXCEPT ![w] = B]
          /\ last' = [last EXCEPT ![w] = top]
          /\ seenItems' = [seenItems EXCEPT ![w] =
                        [p \in Positions |-> IF p \in B THEN items[p] ELSE UnloadedItem]]
    BY <1>8 DEF Select
  <2>2. Eligible(w) \in SUBSET Positions
    BY DEF Eligible
  <2>3. top \in Nat
    BY <2>2, SyncAssumption DEF Positions
  <2>4. batch' \in [Workers -> SUBSET Positions] /\ last' \in [Workers -> Nat]
    BY <2>1, <2>2, <2>3 DEF SyncTypeOK
  <2>5. seenItems' \in [Workers -> [Positions -> Items]]
    BY <2>1 DEF SyncTypeOK, UnloadedItem, Items, ItemStatus
  <2>. QED BY <1>8, <2>4, <2>5, GotoType DEF SyncTypeOK, Select
<1>9. ASSUME NEW w \in Workers, SelectNothing(w) PROVE SyncTypeOK'
  BY <1>9, GotoType DEF SyncTypeOK, SelectNothing
<1>10. ASSUME NEW w \in Workers, Interrupted(w) PROVE SyncTypeOK'
  BY <1>10, GotoType DEF SyncTypeOK, Interrupted
<1>11. ASSUME NEW w \in Workers, EnrichRetry(w) PROVE SyncTypeOK'
  BY <1>11 DEF SyncTypeOK, EnrichRetry
<1>12. ASSUME NEW w \in Workers, EnrichFailed(w) PROVE SyncTypeOK'
  BY <1>12, GotoType DEF SyncTypeOK, EnrichFailed
<1>13. ASSUME NEW w \in Workers, CommitBatch(w) PROVE SyncTypeOK'
  <2>1. job' \in Jobs /\ items' \in [Positions -> Items]
    BY <1>13, CommitBatchType
  <2>2. Expire(w) /\ Goto(w, "reload") /\ UNCHANGED <<mode, sigint>>
    BY <1>13 DEF CommitBatch
  <2>. QED BY <2>1, <2>2, ExpireType, GotoType DEF SyncTypeOK
<1>14. ASSUME NEW w \in Workers, RefreshJob(w) PROVE SyncTypeOK'
  <2>1. pc' \in [Workers -> {"off", "left"} \cup Before \cup Batching
                              \cup Leaving \cup Exits]
    BY <1>14, GotoType DEF RefreshJob
  <2>. QED BY <1>14, <2>1 DEF SyncTypeOK, RefreshJob, Load
<1>15. ASSUME NEW w \in Workers, Leave(w) PROVE SyncTypeOK'
  <2>. DEFINE new == [snap[w] EXCEPT !.status = FinalStatus(w),
                                     !.owner = NoOwner, !.lease = "none"]
  <2>1. snap[w] \in Jobs /\ job \in Jobs
    BY DEF SyncTypeOK
  <2>2. FinalStatus(w) \in JobStatus
    BY <1>15 DEF FinalStatus, Leave, Exits, JobStatus
  <2>3. new \in Jobs
    BY <2>1, <2>2 DEF Jobs
  <2>4. job' \in Jobs
    <3>1. job' = WriteBack(job, snap[w], new)
      BY <1>15 DEF Leave
    <3>. HIDE DEF new
    <3>. QED BY <2>1, <2>3, <3>1, WriteBackType
  <2>. QED BY <1>15, <2>4, ExpireType, GotoType DEF SyncTypeOK, Leave
<1>16. ASSUME NEW w \in Workers, Crash(w) PROVE SyncTypeOK'
  BY <1>16, ExpireType, GotoType DEF SyncTypeOK, Crash
<1>17. CASE LeaseExpires
  <2>1. job' \in Jobs
    BY <1>17 DEF LeaseExpires, SyncTypeOK, Jobs
  <2>. QED BY <1>17, <2>1 DEF SyncTypeOK, LeaseExpires
<1>18. CASE UNCHANGED syncVars
  BY <1>18 DEF SyncTypeOK, syncVars
<1>. QED
  BY <1>1, <1>2, <1>3, <1>4, <1>5, <1>6, <1>7, <1>8, <1>9, <1>10, <1>11, <1>12,
     <1>13, <1>14, <1>15, <1>16, <1>17, <1>18 DEF SyncNext, RunStep

LEMMA TypeInit == SyncInit => SyncTypeOK
<1>. SUFFICES ASSUME SyncInit PROVE SyncTypeOK
  OBVIOUS
<1>1. [p \in Positions |-> UnloadedItem] \in [Positions -> Items]
  BY DEF UnloadedItem, Items, ItemStatus
<1>2. seenItems \in [Workers -> [Positions -> Items]] /\ items \in [Positions -> Items]
  BY <1>1 DEF SyncInit
<1>3. job \in Jobs /\ snap \in [Workers -> Jobs]
  BY FreshJobType DEF SyncInit, Unloaded
<1>. QED BY <1>2, <1>3 DEF SyncInit, SyncTypeOK

\* The rows and the sessions always hold values of their columns.
THEOREM SyncTypeCorrect == SyncSpec => []SyncTypeOK
BY TypeInit, TypeStep, PTL DEF SyncSpec

-----------------------------------------------------------------------------
(* The checkpoint *)

\* A batch processes its items, and an item that left "pending" never comes
\* back to it, whoever writes it.
LEMMA BatchProcesses ==
    ASSUME SyncTypeOK, CheckpointInv, NEW w \in Workers, CommitBatch(w),
           NEW p \in Positions
    PROVE  /\ p \in batch[w] => Processed(p)'
           /\ Processed(p) => Processed(p)'
           /\ p \notin batch[w] => (Processed(p)' <=> Processed(p))
<1>1. PICK outcome \in [batch[w] -> ItemStatus \ {"pending"}] :
        items' = [q \in Positions |->
                    IF q \in batch[w]
                       THEN ItemWriteBack(items[q], seenItems[w][q], outcome[q])
                       ELSE items[q]]
  BY DEF CommitBatch
<1>2. CASE p \in batch[w]
  <2>1. outcome[p] # "pending"
    BY <1>2
  <2>2. items'[p].status = Column(items[p].status, seenItems[w][p].status, outcome[p])
    BY <1>1, <1>2 DEF ItemWriteBack
  <2>3. seenItems[w][p].status # "pending" => Processed(p)
    BY DEF CheckpointInv
  <2>. QED BY <1>2, <2>1, <2>2, <2>3 DEF Column, Processed
<1>3. CASE p \notin batch[w]
  BY <1>1, <1>3 DEF Processed
<1>. QED BY <1>2, <1>3

\* The checkpoint a batch writes is the one it read or the row's, or lies just
\* behind the last item of the batch.
LEMMA BatchCheckpoint ==
    ASSUME SyncTypeOK, NEW w \in Workers, CommitBatch(w)
    PROVE  job'.checkpoint \in {job.checkpoint, snap[w].checkpoint, last[w] + 1}
<1>1. PICK D \in SUBSET Positions, F \in SUBSET Positions, S \in SUBSET Positions :
        job' = Renewed(WriteBack(job, snap[w], Counted(snap[w], D, F, S, last[w])))
  <2>1. PICK outcome \in [batch[w] -> ItemStatus \ {"pending"}] :
          LET Got(s) == {p \in batch[w] : outcome[p] = s} IN
          job' = Renewed(WriteBack(job, snap[w],
                    Counted(snap[w], Got("done"), Got("failed"),
                            Got("skipped"), last[w])))
    BY DEF CommitBatch
  <2>2. \A s : {p \in batch[w] : outcome[p] = s} \in SUBSET Positions
    BY DEF SyncTypeOK
  <2>. QED BY <2>1, <2>2
<1>. DEFINE new == Counted(snap[w], D, F, S, last[w])
<1>2. job \in Jobs /\ snap[w] \in Jobs /\ last[w] \in Nat
  BY DEF SyncTypeOK
<1>3. new \in Jobs
  BY <1>2, CountedType
<1>4. new.checkpoint = Larger(snap[w].checkpoint, last[w] + 1)
  BY <1>2 DEF Counted, Jobs
<1>5. job'.checkpoint \in {job.checkpoint, new.checkpoint}
  <2>. HIDE DEF new
  <2>1. job'.checkpoint = WriteBack(job, snap[w], new).checkpoint
    BY <1>1, <1>2, <1>3, WriteBackType, RenewedType DEF new
  <2>. QED BY <2>1, WrittenCheckpoint
<1>. QED BY <1>4, <1>5 DEF Larger

\* A session that is expired and does not go on to enrich remembers less.
LEMMA ExpireSafe ==
    ASSUME SyncTypeOK, CheckpointInv, NEW w \in Workers, Expire(w),
           NEW to, Goto(w, to), to # "enrich", NEW p \in Positions, NEW v \in Workers
    PROVE  /\ p < snap'[v].checkpoint => p < snap[v].checkpoint
           /\ seenItems'[v][p].status # "pending" => seenItems[v][p].status # "pending"
           /\ pc'[v] = "enrich" => /\ pc[v] = "enrich"
                                   /\ last'[v] = last[v]
                                   /\ batch'[v] = batch[v]
<1>1. p \in Nat
  BY SyncAssumption DEF Positions
<1>2. CASE v = w
  <2>1. snap'[w].checkpoint = 0
    BY DEF SyncTypeOK, Expire, Unloaded, FreshJob
  <2>2. seenItems'[w][p].status = "pending"
    BY DEF SyncTypeOK, Expire, UnloadedItem
  <2>3. pc'[w] = to
    BY DEF SyncTypeOK, Goto
  <2>. QED BY <1>1, <1>2, <2>1, <2>2, <2>3
<1>3. CASE v # w
  BY <1>3 DEF SyncTypeOK, Expire, Goto
<1>. QED BY <1>2, <1>3

\* A step that leaves the items alone and remembers nothing unsafe is safe.
LEMMA Preserved ==
    ASSUME CheckpointInv, items' = items,
           \A p \in Positions : p < job'.checkpoint => Processed(p),
           \A v \in Workers, p \in Positions :
              /\ p < snap'[v].checkpoint => Processed(p)
              /\ seenItems'[v][p].status # "pending" => Processed(p)
              /\ pc'[v] = "enrich" => /\ pc[v] = "enrich"
                                      /\ last'[v] = last[v]
                                      /\ batch'[v] = batch[v],
           \A v \in Workers : batch'[v] \subseteq Positions
    PROVE  CheckpointInv'
<1>1. \A p \in Positions : Processed(p)' <=> Processed(p)
  BY DEF Processed
<1>. QED BY <1>1 DEF CheckpointInv, CheckpointSafe, Processed

LEMMA CheckpointStep == SyncTypeOK /\ CheckpointInv /\ [SyncNext]_syncVars => CheckpointInv'
<1>. SUFFICES ASSUME SyncTypeOK, CheckpointInv, [SyncNext]_syncVars PROVE CheckpointInv'
  OBVIOUS
<1>0. /\ \A p \in Positions : p < job.checkpoint => Processed(p)
      /\ \A v \in Workers, p \in Positions :
           /\ p < snap[v].checkpoint => Processed(p)
           /\ seenItems[v][p].status # "pending" => Processed(p)
  BY DEF CheckpointInv, CheckpointSafe, Processed
<1>t. \A v \in Workers : batch'[v] \subseteq Positions
  <2>1. SyncTypeOK'
    BY TypeStep
  <2>. QED BY <2>1 DEF SyncTypeOK
\* The steps that expire a session without writing the items.
<1>e. ASSUME NEW w \in Workers, Expire(w), NEW to, Goto(w, to), to # "enrich",
             items' = items,
             job'.checkpoint \in {job.checkpoint, snap[w].checkpoint}
      PROVE  CheckpointInv'
  <2>1. \A p \in Positions : p < job'.checkpoint => Processed(p)
    BY <1>0, <1>e
  <2>2. \A v \in Workers, p \in Positions :
          /\ p < snap'[v].checkpoint => Processed(p)
          /\ seenItems'[v][p].status # "pending" => Processed(p)
          /\ pc'[v] = "enrich" => /\ pc[v] = "enrich"
                                  /\ last'[v] = last[v]
                                  /\ batch'[v] = batch[v]
    BY <1>0, <1>e, ExpireSafe
  <2>. QED BY <1>e, <1>t, <2>1, <2>2, Preserved
\* The steps that load the job, or nothing.
<1>l. ASSUME NEW w \in Workers, NEW to, Goto(w, to), to # "enrich",
             items' = items, job'.checkpoint = job.checkpoint,
             snap' = snap \/ Load(w), seenItems' = seenItems, batch' = batch, last' = last
      PROVE  CheckpointInv'
  <2>1. \A v \in Workers, p \in Positions : p < snap'[v].checkpoint => Processed(p)
    BY <1>0, <1>l DEF Load, SyncTypeOK
  <2>2. \A v \in Workers : pc'[v] = "enrich" => pc[v] = "enrich"
    BY <1>l DEF Goto, SyncTypeOK
  <2>. QED BY <1>0, <1>l, <1>t, <2>1, <2>2, Preserved
<1>1. ASSUME NEW w \in Workers, NEW m \in Modes, Launch(w, m) PROVE CheckpointInv'
  BY <1>1, <1>l DEF Launch
<1>2. ASSUME NEW w \in Workers, CreateJob(w) PROVE CheckpointInv'
  <2>1. job'.checkpoint = job.checkpoint
    BY <1>2 DEF CreateJob, SyncTypeOK, Jobs
  <2>. QED BY <1>2, <1>l, <2>1 DEF CreateJob
<1>3. ASSUME NEW w \in Workers, AnnounceJob(w) PROVE CheckpointInv'
  BY <1>3, <1>l DEF AnnounceJob
<1>4. ASSUME NEW w \in Workers, Sigint(w) PROVE CheckpointInv'
  BY <1>4 DEF Sigint, CheckpointInv, CheckpointSafe, Processed
<1>5. ASSUME NEW w \in Workers, Acquire(w) PROVE CheckpointInv'
  <2>. DEFINE new == [RowSeen(w) EXCEPT !.owner = w, !.status = "running"]
  <2>1. RowSeen(w) \in Jobs /\ job \in Jobs
        /\ RowSeen(w).checkpoint \in {job.checkpoint, snap[w].checkpoint}
    BY DEF SyncTypeOK, RowSeen
  <2>2. new \in Jobs /\ new.checkpoint = RowSeen(w).checkpoint
    BY <2>1 DEF Jobs, JobStatus
  <2>3. job'.checkpoint = WriteBack(job, RowSeen(w), new).checkpoint
    <3>1. job' = Renewed(WriteBack(job, RowSeen(w), new))
      BY <1>5 DEF Acquire
    <3>. HIDE DEF new
    <3>. QED BY <2>1, <2>2, <3>1, WriteBackType, RenewedType
  <2>4. job'.checkpoint \in {job.checkpoint, snap[w].checkpoint}
    <3>. HIDE DEF new
    <3>. QED BY <2>1, <2>2, <2>3, WrittenCheckpoint
  <2>. QED BY <1>5, <1>e, <2>4 DEF Acquire
<1>6. ASSUME NEW w \in Workers, AcquireRefused(w) PROVE CheckpointInv'
  BY <1>6, <1>e DEF AcquireRefused
<1>7. ASSUME NEW w \in Workers, Reload(w) PROVE CheckpointInv'
  BY <1>7, <1>l DEF Reload
<1>8. ASSUME NEW w \in Workers, Select(w) PROVE CheckpointInv'
  <2>1. PICK top \in Eligible(w) :
          LET B == {p \in Eligible(w) : p <= top} IN
          /\ batch' = [batch EXCEPT ![w] = B]
          /\ last' = [last EXCEPT ![w] = top]
          /\ seenItems' = [seenItems EXCEPT ![w] =
                        [p \in Positions |-> IF p \in B THEN items[p] ELSE UnloadedItem]]
    BY <1>8 DEF Select
  <2>2. items' = items /\ job' = job /\ snap' = snap /\ Goto(w, "enrich")
    BY <1>8 DEF Select
  <2>3. \A p \in Positions : Processed(p)' <=> Processed(p)
    BY <2>2 DEF Processed
  <2>4. top \in Positions /\ \A p \in Eligible(w) : p \in Positions
    BY DEF Eligible
  <2>5. \A v \in Workers, p \in Positions :
          seenItems'[v][p].status # "pending" => Processed(p)
    BY <1>0, <2>1 DEF UnloadedItem, Processed, SyncTypeOK
  <2>6. \A p \in Positions : p <= top /\ p \notin Eligible(w) => Processed(p)
    <3>. SUFFICES ASSUME NEW p \in Positions, p <= top, p \notin Eligible(w)
                  PROVE  Processed(p)
      OBVIOUS
    <3>0. p \in Nat /\ top \in Nat /\ snap[w].checkpoint \in Nat
      BY <2>4, SyncAssumption DEF Positions, SyncTypeOK, Jobs
    <3>1. CASE mode[w] = "retry"
      <4>1. Processed(top) /\ p # top
        BY <3>1 DEF Eligible, Processed
      <4>2. p < top
        BY <3>0, <4>1
      <4>. QED BY <2>4, <4>1, <4>2 DEF CheckpointInv
    <3>2. CASE mode[w] # "retry" /\ p >= snap[w].checkpoint
      BY <3>2 DEF Eligible, Processed
    <3>3. CASE p < snap[w].checkpoint
      BY <1>0, <3>3
    <3>. QED BY <3>0, <3>1, <3>2, <3>3
  <2>7. ASSUME NEW v \in Workers, pc'[v] = "enrich"
        PROVE  /\ \A p \in Positions : p <= last'[v] => p \in batch'[v] \/ Processed(p)
               /\ \A p \in batch'[v] : p <= last'[v]
    <3>1. CASE v = w
      <4>1. last'[v] = top /\ batch'[v] = {p \in Eligible(w) : p <= top}
        BY <2>1, <3>1 DEF SyncTypeOK
      <4>. QED BY <2>6, <4>1
    <3>2. CASE v # w
      <4>1. last'[v] = last[v] /\ batch'[v] = batch[v] /\ pc[v] = "enrich"
        BY <2>1, <2>2, <2>7, <3>2 DEF SyncTypeOK, Goto
      <4>. QED BY <4>1 DEF CheckpointInv
    <3>. QED BY <3>1, <3>2
  <2>8. CheckpointSafe' /\ \A p, q \in Positions : p < q /\ Processed(q)' => Processed(p)'
    BY <2>2, <2>3 DEF CheckpointInv, CheckpointSafe, Processed
  <2>9. \A v \in Workers, p \in Positions : p < snap'[v].checkpoint => Processed(p)'
    BY <1>0, <2>2, <2>3
  <2>. QED BY <1>t, <2>3, <2>5, <2>7, <2>8, <2>9 DEF CheckpointInv
<1>9. ASSUME NEW w \in Workers, SelectNothing(w) PROVE CheckpointInv'
  BY <1>9, <1>l DEF SelectNothing
<1>10. ASSUME NEW w \in Workers, Interrupted(w) PROVE CheckpointInv'
  BY <1>10, <1>l DEF Interrupted
<1>11. ASSUME NEW w \in Workers, EnrichRetry(w) PROVE CheckpointInv'
  BY <1>11 DEF EnrichRetry, CheckpointInv, CheckpointSafe, Processed
<1>12. ASSUME NEW w \in Workers, EnrichFailed(w) PROVE CheckpointInv'
  BY <1>12, <1>l DEF EnrichFailed
<1>13. ASSUME NEW w \in Workers, CommitBatch(w) PROVE CheckpointInv'
  <2>1. pc[w] = "enrich" /\ Expire(w) /\ Goto(w, "reload")
    BY <1>13 DEF CommitBatch
  <2>2. last[w] \in Nat /\ Positions \subseteq Nat /\ job.checkpoint \in Nat
        /\ snap[w].checkpoint \in Nat
    BY SyncAssumption DEF SyncTypeOK, Positions, Jobs
  <2>3. \A p \in Positions : Processed(p) => Processed(p)'
    BY <1>13, BatchProcesses
  <2>4. \A p \in Positions : p <= last[w] => Processed(p)'
    BY <1>13, <2>1, <2>3, BatchProcesses DEF CheckpointInv
  <2>5. CheckpointSafe'
    <3>1. job'.checkpoint \in {job.checkpoint, snap[w].checkpoint, last[w] + 1}
      BY <1>13, BatchCheckpoint
    <3>2. \A p \in Positions : p < job'.checkpoint => Processed(p)'
      BY <1>0, <2>2, <2>3, <2>4, <3>1
    <3>. QED BY <3>2 DEF CheckpointSafe, Processed
  <2>6. \A p, q \in Positions : p < q /\ Processed(q)' => Processed(p)'
    <3>. SUFFICES ASSUME NEW p \in Positions, NEW q \in Positions, p < q, Processed(q)'
                  PROVE  Processed(p)'
      OBVIOUS
    <3>1. CASE q \in batch[w]
      <4>1. q <= last[w]
        BY <2>1, <3>1 DEF CheckpointInv
      <4>2. p <= last[w]
        BY <2>2, <4>1
      <4>. QED BY <2>4, <4>2
    <3>2. CASE q \notin batch[w]
      <4>1. Processed(q)
        BY <1>13, <3>2, BatchProcesses
      <4>2. Processed(p)
        BY <4>1 DEF CheckpointInv
      <4>. QED BY <2>3, <4>2
    <3>. QED BY <3>1, <3>2
  <2>7. \A v \in Workers, p \in Positions :
          /\ p < snap'[v].checkpoint => Processed(p)'
          /\ seenItems'[v][p].status # "pending" => Processed(p)'
    BY <1>0, <2>1, <2>3, ExpireSafe
  <2>8. ASSUME NEW v \in Workers, pc'[v] = "enrich"
        PROVE  /\ \A p \in Positions : p <= last'[v] => p \in batch'[v] \/ Processed(p)'
               /\ \A p \in batch'[v] : p <= last'[v]
    <3>1. pc[v] = "enrich" /\ last'[v] = last[v] /\ batch'[v] = batch[v]
      BY <2>1, <2>8 DEF SyncTypeOK, Expire, Goto
    <3>. QED BY <2>3, <3>1 DEF CheckpointInv
  <2>. QED BY <1>t, <2>5, <2>6, <2>7, <2>8 DEF CheckpointInv
<1>14. ASSUME NEW w \in Workers, RefreshJob(w) PROVE CheckpointInv'
  BY <1>14, <1>l DEF RefreshJob
<1>15. ASSUME NEW w \in Workers, Leave(w) PROVE CheckpointInv'
  <2>. DEFINE new == [snap[w] EXCEPT !.status = FinalStatus(w),
                                     !.owner = NoOwner, !.lease = "none"]
  <2>1. snap[w] \in Jobs
    BY DEF SyncTypeOK
  <2>2. new.checkpoint = snap[w].checkpoint
    BY <2>1 DEF Jobs
  <2>3. job'.checkpoint \in {job.checkpoint, new.checkpoint}
    <3>1. job' = WriteBack(job, snap[w], new)
      BY <1>15 DEF Leave
    <3>. HIDE DEF new
    <3>. QED BY <3>1, WrittenCheckpoint
  <2>. QED BY <1>15, <1>e, <2>2, <2>3 DEF Leave
<1>16. ASSUME NEW w \in Workers, Crash(w) PROVE CheckpointInv'
  BY <1>16, <1>e DEF Crash
<1>17. CASE LeaseExpires
  <2>1. job'.checkpoint = job.checkpoint
    BY <1>17 DEF LeaseExpires, SyncTypeOK, Jobs
  <2>. QED BY <1>0, <1>17, <1>t, <2>1, Preserved DEF LeaseExpires
<1>18. CASE UNCHANGED syncVars
  BY <1>18 DEF syncVars, CheckpointInv, CheckpointSafe, Processed
<1>. QED
  BY <1>1, <1>2, <1>3, <1>4, <1>5, <1>6, <1>7, <1>8, <1>9, <1>10, <1>11, <1>12,
     <1>13, <1>14, <1>15, <1>16, <1>17, <1>18 DEF SyncNext, RunStep

LEMMA CheckpointInit == SyncInit => CheckpointInv
<1>. SUFFICES ASSUME SyncInit PROVE CheckpointInv
  OBVIOUS
<1>1. Positions \subseteq Nat
  BY SyncAssumption DEF Positions
<1>2. \A p \in Positions : ~ Processed(p)
  BY DEF SyncInit, UnloadedItem, Processed
<1>3. job.checkpoint = 0 /\ \A w \in Workers : snap[w].checkpoint = 0
  BY DEF SyncInit, FreshJob, Unloaded
<1>4. \A w \in Workers, p \in Positions : seenItems[w][p].status = "pending"
  BY DEF SyncInit, UnloadedItem
<1>5. \A w \in Workers : pc[w] # "enrich"
  BY DEF SyncInit
<1>. QED BY <1>1, <1>2, <1>3, <1>4, <1>5 DEF CheckpointInv, CheckpointSafe

\* No item below the checkpoint is ever pending, however many processes run
\* the job at once and whatever snapshots they write.
THEOREM CheckpointNeverSkips == SyncSpec => []CheckpointSafe
<1>1. SyncInit => SyncTypeOK /\ CheckpointInv
  BY TypeInit, CheckpointInit
<1>2. SyncTypeOK /\ CheckpointInv /\ [SyncNext]_syncVars => (SyncTypeOK /\ CheckpointInv)'
  BY TypeStep, CheckpointStep
<1>3. SyncTypeOK /\ CheckpointInv => CheckpointSafe
  BY DEF CheckpointInv
<1>. QED BY <1>1, <1>2, <1>3, PTL DEF SyncSpec

-----------------------------------------------------------------------------
(* The lease *)

\* LeaseInv, as a worker other than w that runs contradicts it.
LEMMA OneOwner ==
    ASSUME LeaseInv, NEW v \in Workers, NEW w \in Workers, v # w, Running(v)
    PROVE  ~ Running(w) /\ pc[w] \notin {"discover", "created", "stale"}
BY DEF LeaseInv, Running, Batching, Leaving, Exits

\* A step of one worker that runs before and after it, and that leaves the
\* owner, the lease and the status of the job in order.
LEMMA RunningStep ==
    ASSUME SyncTypeOK, LeaseInv, NEW w \in Workers, Running(w),
           NEW to, Goto(w, to), to \in Batching \cup Leaving \cup Exits,
           job'.owner = job.owner, job'.lease = job.lease,
           job'.status = job.status, UNCHANGED mode
    PROVE  LeaseInv'
<1>1. pc'[w] = to /\ \A v \in Workers : v # w => pc'[v] = pc[v]
  BY DEF Goto, SyncTypeOK
<1>2. Running(w)' /\ \A v \in Workers : Running(v)' => Running(v)
  BY <1>1 DEF Running
<1>3. \A v \in Workers : pc'[v] \notin {"discover", "created", "stale"}
  <2>1. to \notin {"discover", "created", "stale"}
    BY DEF Batching, Leaving, Exits
  <2>. QED BY <1>1, <2>1, OneOwner
<1>4. job.owner = w /\ job.lease = "live" /\ job.status # "absent"
  BY DEF LeaseInv
<1>5. \A v \in Workers : Running(v)' => v = w
  BY <1>2, OneOwner
<1>. QED BY <1>3, <1>4, <1>5 DEF LeaseInv

\* A worker leaves; the job is as it was, or is no longer absent and no other
\* worker holds it.
LEMMA LeavingStep ==
    ASSUME SyncTypeOK, LeaseInv, NEW w \in Workers, Goto(w, "left"), Alive(w),
           UNCHANGED mode,
           \A v \in Workers \ {w} : snap'[v] = snap[v],
           job' = job \/ (Running(w) /\ job'.status # "absent")
    PROVE  LeaseInv'
<1>1. pc'[w] = "left" /\ \A v \in Workers : v # w => pc'[v] = pc[v]
  BY DEF Goto, SyncTypeOK
<1>2. ~ Running(w)'
  BY <1>1 DEF Running, Batching, Leaving, Exits
<1>3. \A v \in Workers : v # w => (Running(v)' <=> Running(v))
  BY <1>1 DEF Running
<1>4. CASE job' = job
  BY <1>1, <1>2, <1>3, <1>4 DEF LeaseInv
<1>5. CASE Running(w) /\ job'.status # "absent"
  <2>1. \A v \in Workers : ~ Running(v)'
    BY <1>2, <1>3, <1>5, OneOwner
  <2>2. \A v \in Workers : pc'[v] \notin {"discover", "created", "stale"}
    BY <1>1, <1>5, OneOwner
  <2>. QED BY <1>5, <2>1, <2>2 DEF LeaseInv
<1>. QED BY <1>4, <1>5

LEMMA LeaseStep ==
    ASSUME ~ OverrunAllowed, ~ EarlyResume
    PROVE  SyncTypeOK /\ LeaseInv /\ [SyncNext]_syncVars => LeaseInv'
<1>. SUFFICES ASSUME SyncTypeOK, LeaseInv, [SyncNext]_syncVars PROVE LeaseInv'
  OBVIOUS
<1>1. ASSUME NEW w \in Workers, NEW m \in Modes, Launch(w, m) PROVE LeaseInv'
  <2>1. /\ \A v \in Workers : v # w => pc'[v] = pc[v] /\ mode'[v] = mode[v]
        /\ job' = job /\ snap' = snap /\ pc[w] = "off" /\ mode'[w] = m
    BY <1>1 DEF Launch, Goto, SyncTypeOK
  <2>2. ~ Running(w)' /\ \A v \in Workers : v # w => (Running(v)' <=> Running(v))
    BY <1>1, <2>1 DEF Running, Launch, Goto, SyncTypeOK, Batching, Leaving, Exits
  <2>3. CASE m = "create"
    <3>1. /\ job.status = "absent" /\ pc'[w] = "discover"
          /\ \A v \in Workers : mode[v] # "create"
      BY <1>1, <2>3 DEF Launch, Goto, SyncTypeOK
    <3>2. \A v \in Workers : pc[v] \in {"off", "left"}
      BY <3>1 DEF LeaseInv
    <3>3. job.lease = "none"
      BY <3>1 DEF LeaseInv
    <3>. QED BY <2>1, <2>2, <2>3, <3>1, <3>2, <3>3 DEF LeaseInv
  <2>4. CASE m # "create"
    <3>1. /\ job.status # "absent" /\ pc'[w] = "ready"
          /\ \A v \in Workers : pc[v] \notin {"created", "stale"}
      BY <1>1, <2>4 DEF Launch, Goto, SyncTypeOK
    <3>2. \A v \in Workers : pc[v] # "discover"
      BY <3>1 DEF LeaseInv
    <3>3. \A v \in Workers : pc'[v] \notin {"discover", "created", "stale"}
      BY <2>1, <3>1, <3>2
    <3>. QED BY <2>1, <2>2, <3>1, <3>3 DEF LeaseInv
  <2>. QED BY <2>3, <2>4
<1>2. ASSUME NEW w \in Workers, CreateJob(w) PROVE LeaseInv'
  <2>1. /\ pc'[w] = "created" /\ \A v \in Workers : v # w => pc'[v] = pc[v]
        /\ mode' = mode /\ snap' = snap /\ pc[w] = "discover"
    BY <1>2 DEF CreateJob, Goto, SyncTypeOK
  <2>2. job'.status = "pending" /\ job'.lease = job.lease
    BY <1>2 DEF CreateJob, SyncTypeOK, Jobs
  <2>3. \A v \in Workers : v # w => pc[v] \in {"off", "left"}
    BY <2>1 DEF LeaseInv
  <2>4. \A v \in Workers : ~ Running(v)'
    BY <2>1, <2>3 DEF Running, Batching, Leaving, Exits
  <2>. QED BY <2>1, <2>2, <2>3, <2>4 DEF LeaseInv
<1>3. ASSUME NEW w \in Workers, AnnounceJob(w) PROVE LeaseInv'
  <2>1. /\ pc'[w] = "stale" /\ \A v \in Workers : v # w => pc'[v] = pc[v]
        /\ mode' = mode /\ job' = job /\ snap'[w] = job /\ pc[w] = "created"
    BY <1>3 DEF AnnounceJob, Load, Goto, SyncTypeOK
  <2>2. \A v \in Workers : v # w => pc[v] \in {"off", "left"}
    BY <2>1 DEF LeaseInv
  <2>3. \A v \in Workers : ~ Running(v)'
    BY <2>1, <2>2 DEF Running, Batching, Leaving, Exits
  <2>. QED BY <2>1, <2>2, <2>3 DEF LeaseInv
<1>4. ASSUME NEW w \in Workers, Sigint(w) PROVE LeaseInv'
  BY <1>4 DEF Sigint, LeaseInv, Running
<1>5. ASSUME NEW w \in Workers, Acquire(w) PROVE LeaseInv'
  <2>1. RowSeen(w) = job /\ job \in Jobs
    BY <1>5 DEF RowSeen, Acquire, LeaseInv, SyncTypeOK
  <2>2. job'.owner = w /\ job'.lease = "live" /\ job'.status = "running"
    <3>1. job' = Renewed(WriteBack(job, job,
                   [job EXCEPT !.owner = w, !.status = "running"]))
      BY <1>5, <2>1 DEF Acquire
    <3>. QED BY <2>1, <3>1 DEF Renewed, WriteBack, Column, Jobs
  <2>3. \A v \in Workers : v # w => ~ Running(v)
    <3>. SUFFICES ASSUME NEW v \in Workers, v # w, Running(v) PROVE FALSE
      OBVIOUS
    <3>1. job.owner = v /\ job.lease = "live"
      BY DEF LeaseInv
    <3>. QED BY <1>5, <2>1, <3>1, SyncAssumption DEF Acquire, MayAcquire
  <2>4. \A v \in Workers : v # w => pc[v] \notin {"discover", "created", "stale"}
    <3>1. pc[w] \in {"stale", "ready"}
      BY <1>5 DEF Acquire
    <3>. QED BY <3>1 DEF LeaseInv
  <2>5. pc'[w] = "reload" /\ \A v \in Workers : v # w => pc'[v] = pc[v]
    BY <1>5 DEF Acquire, Goto, SyncTypeOK
  <2>6. \A v \in Workers : Running(v)' => v = w
    BY <2>3, <2>5 DEF Running
  <2>. QED BY <2>2, <2>4, <2>5, <2>6 DEF LeaseInv
<1>6. ASSUME NEW w \in Workers, AcquireRefused(w) PROVE LeaseInv'
  <2>1. Alive(w) /\ \A v \in Workers \ {w} : snap'[v] = snap[v]
    BY <1>6 DEF AcquireRefused, Alive, Expire, SyncTypeOK
  <2>. QED BY <1>6, <2>1, LeavingStep DEF AcquireRefused
<1>7. ASSUME NEW w \in Workers, Reload(w) PROVE LeaseInv'
  BY <1>7, RunningStep DEF Reload, Running, Batching
<1>8. ASSUME NEW w \in Workers, Select(w) PROVE LeaseInv'
  BY <1>8, RunningStep DEF Select, Running, Batching
<1>9. ASSUME NEW w \in Workers, SelectNothing(w) PROVE LeaseInv'
  BY <1>9, RunningStep DEF SelectNothing, Running, Batching, Leaving
<1>10. ASSUME NEW w \in Workers, Interrupted(w) PROVE LeaseInv'
  BY <1>10, RunningStep DEF Interrupted, Running, Batching, Leaving
<1>11. ASSUME NEW w \in Workers, EnrichRetry(w) PROVE LeaseInv'
  BY <1>11 DEF EnrichRetry, LeaseInv, Running
<1>12. ASSUME NEW w \in Workers, EnrichFailed(w) PROVE LeaseInv'
  BY <1>12, RunningStep DEF EnrichFailed, Running, Batching, Leaving
<1>13. ASSUME NEW w \in Workers, CommitBatch(w) PROVE LeaseInv'
  <2>1. Running(w) /\ Goto(w, "reload") /\ UNCHANGED mode
    BY <1>13 DEF CommitBatch, Running, Batching
  <2>2. \E new \in Jobs :
          /\ job' = Renewed(WriteBack(job, snap[w], new))
          /\ new.owner = snap[w].owner /\ new.status = snap[w].status
    <3>1. PICK outcome \in [batch[w] -> ItemStatus \ {"pending"}] :
            LET Got(s) == {p \in batch[w] : outcome[p] = s} IN
            job' = Renewed(WriteBack(job, snap[w],
                      Counted(snap[w], Got("done"), Got("failed"),
                              Got("skipped"), last[w])))
      BY <1>13 DEF CommitBatch
    <3>. DEFINE Got(s) == {p \in batch[w] : outcome[p] = s}
                new == Counted(snap[w], Got("done"), Got("failed"),
                               Got("skipped"), last[w])
    <3>2. \A s : Got(s) \in SUBSET Positions
      BY DEF SyncTypeOK
    <3>3. snap[w] \in Jobs /\ last[w] \in Nat
      BY DEF SyncTypeOK
    <3>4. new \in Jobs
      <4>. HIDE DEF Got
      <4>. QED BY <3>2, <3>3, CountedType
    <3>5. new.owner = snap[w].owner /\ new.status = snap[w].status
      <4>. HIDE DEF Got
      <4>. QED BY <3>3 DEF Counted, Jobs
    <3>. QED BY <3>1, <3>4, <3>5
  <2>3. PICK new \in Jobs :
          /\ job' = Renewed(WriteBack(job, snap[w], new))
          /\ new.owner = snap[w].owner /\ new.status = snap[w].status
    BY <2>2
  <2>4. job'.owner = job.owner /\ job'.status = job.status /\ job'.lease = "live"
    BY <2>3 DEF Renewed, WriteBack, Column
  <2>5. job.lease = "live"
    BY <2>1 DEF LeaseInv
  <2>. QED BY <2>1, <2>4, <2>5, RunningStep DEF Batching
<1>14. ASSUME NEW w \in Workers, RefreshJob(w) PROVE LeaseInv'
  BY <1>14, RunningStep DEF RefreshJob, Running, Leaving, Exits
<1>15. ASSUME NEW w \in Workers, Leave(w) PROVE LeaseInv'
  <2>1. Running(w) /\ Alive(w)
    BY <1>15 DEF Leave, Running, Alive, Exits
  <2>2. \A v \in Workers \ {w} : snap'[v] = snap[v]
    BY <1>15 DEF Leave, Expire, SyncTypeOK
  <2>3. job'.status # "absent"
    <3>1. FinalStatus(w) # "absent"
      BY <1>15 DEF FinalStatus, Leave, Exits
    <3>2. [snap[w] EXCEPT !.status = FinalStatus(w), !.owner = NoOwner,
                          !.lease = "none"].status = FinalStatus(w)
      BY DEF SyncTypeOK, Jobs
    <3>3. job.status # "absent"
      BY <2>1 DEF LeaseInv
    <3>. QED BY <1>15, <3>1, <3>2, <3>3 DEF Leave, WriteBack, Column
  <2>. QED BY <1>15, <2>1, <2>2, <2>3, LeavingStep DEF Leave
<1>16. ASSUME NEW w \in Workers, Crash(w) PROVE LeaseInv'
  <2>1. \A v \in Workers \ {w} : snap'[v] = snap[v]
    BY <1>16 DEF Crash, Expire, SyncTypeOK
  <2>. QED BY <1>16, <2>1, LeavingStep DEF Crash
<1>17. CASE LeaseExpires
  <2>1. /\ job'.status = job.status /\ job'.owner = job.owner /\ job.lease = "live"
        /\ pc' = pc /\ mode' = mode /\ snap' = snap
    BY <1>17 DEF LeaseExpires, SyncTypeOK, Jobs
  <2>2. \A w \in Workers : ~ Running(w)
    BY <1>17 DEF LeaseExpires, LeaseInv
  <2>3. \A w \in Workers : ~ Running(w)'
    BY <2>1, <2>2 DEF Running
  <2>4. \A w \in Workers : pc[w] \notin {"discover", "created", "stale"}
    BY <2>1 DEF LeaseInv
  <2>. QED BY <2>1, <2>3, <2>4 DEF LeaseInv
<1>18. CASE UNCHANGED syncVars
  BY <1>18 DEF syncVars, LeaseInv, Running
<1>. QED
  BY <1>1, <1>2, <1>3, <1>4, <1>5, <1>6, <1>7, <1>8, <1>9, <1>10, <1>11, <1>12,
     <1>13, <1>14, <1>15, <1>16, <1>17, <1>18 DEF SyncNext, RunStep

LEMMA LeaseInit == SyncInit => LeaseInv
BY DEF SyncInit, LeaseInv, FreshJob, Running, Batching, Leaving, Exits

\* If no process outlives its lease and no job is resumed before its creator
\* has taken it, one process at a time runs the job.
THEOREM LeaseExcludes ==
    ASSUME ~ OverrunAllowed, ~ EarlyResume
    PROVE  SyncSpec => []LeaseExclusion
<1>1. SyncInit => SyncTypeOK /\ LeaseInv
  BY TypeInit, LeaseInit
<1>2. SyncTypeOK /\ LeaseInv /\ [SyncNext]_syncVars => (SyncTypeOK /\ LeaseInv)'
  BY TypeStep, LeaseStep
<1>3. LeaseInv => LeaseExclusion
  BY OneOwner DEF LeaseExclusion
<1>. QED BY <1>1, <1>2, <1>3, PTL DEF SyncSpec

-----------------------------------------------------------------------------
(***************************************************************************)
(* A synchronisation implements SyncLedger, for any number of processes,   *)
(* items and batch sizes: when no lease is overrun, no job is resumed      *)
(* before its creator has taken it, and --retry-errors is not used.        *)
(***************************************************************************)

Failed(p) == items[p].status = "failed"

\* The batch in hand is what is in the base: a few items not settled.
InHand(w) ==
    /\ batch[w] # {} /\ Cardinality(batch[w]) <= BatchSize
    /\ \A p \in batch[w] : seenItems[w][p] = items[p] /\ items[p].status \in {"pending", "failed"}

\* What the one process that runs the job knows of it is so.
Sound(w) ==
    Running(w) =>
      /\ job.status = "running"
      /\ pc[w] # "reload" => snap[w] = job
      /\ pc[w] = "enrich" => InHand(w)
      /\ mode[w] # "retry" /\ pc[w] \in {"completing", "completed"} =>
           \A p \in Positions : Processed(p)

LedgerInv ==
    /\ \A p \in Positions : Failed(p) => job.failed > 0
    /\ \A w \in Workers : Sound(w)

Inv == SyncTypeOK /\ LeaseInv /\ CheckpointInv /\ LedgerInv

-----------------------------------------------------------------------------
(* Who else is there *)

LEMMA OthersAreOut ==
    ASSUME LeaseInv, NEW v \in Workers, NEW w \in Workers, v # w,
           Running(w), pc'[v] = pc[v]
    PROVE  Sound(v)'
<1>1. ~ Running(v)
  BY OneOwner
<1> QED
  BY <1>1 DEF Sound, Running

LEMMA OtherSound ==
    ASSUME LedgerInv, NEW v \in Workers, UNCHANGED <<job, items>>,
           pc'[v] = pc[v], mode'[v] = mode[v], snap'[v] = snap[v],
           batch'[v] = batch[v], seenItems'[v] = seenItems[v]
    PROVE  Sound(v)'
BY DEF LedgerInv, Sound, Running, InHand, Processed

\* A step that leaves the tables alone, and what the others hold.
LEMMA QuietStep ==
    ASSUME LedgerInv, NEW w \in Workers, UNCHANGED <<job, items>>, Sound(w)',
           \A v \in Workers \ {w} :
              /\ pc'[v] = pc[v] /\ mode'[v] = mode[v] /\ snap'[v] = snap[v]
              /\ batch'[v] = batch[v] /\ seenItems'[v] = seenItems[v]
    PROVE  LedgerInv'
<1>1. \A v \in Workers : Sound(v)'
  BY OtherSound
<1> QED
  BY <1>1 DEF LedgerInv, Failed

\* Whoever leaves is no longer held to anything.
LEMMA GoneStep ==
    ASSUME SyncTypeOK, LedgerInv, NEW w \in Workers, UNCHANGED <<job, items>>,
           UNCHANGED mode, Goto(w, "left"), Expire(w)
    PROVE  LedgerInv'
<1>1. Sound(w)'
  BY DEF Goto, SyncTypeOK, Sound, Running, Batching, Leaving, Exits
<1>2. \A v \in Workers \ {w} :
        /\ pc'[v] = pc[v] /\ snap'[v] = snap[v]
        /\ batch'[v] = batch[v] /\ seenItems'[v] = seenItems[v]
  BY DEF Goto, Expire, SyncTypeOK
<1> QED
  BY <1>1, <1>2, QuietStep

-----------------------------------------------------------------------------
(* The batch *)

LEMMA OwnRowWritten ==
    ASSUME NEW now \in Jobs, NEW new \in Jobs
    PROVE  WriteBack(now, now, new) = new
BY DEF WriteBack, Column, Jobs

LEMMA SomeAreCounted ==
    ASSUME NEW B \in SUBSET Positions, B # {}
    PROVE  Cardinality(B) > 0
<1>1. IsFiniteSet(Positions)
  BY SyncAssumption, FS_Interval DEF Positions
<1>2. IsFiniteSet(B)
  BY <1>1, FS_Subset
<1>3. Cardinality(B) # 0
  BY <1>2, FS_EmptySet, Zenon
<1>4. Cardinality(B) \in Nat
  BY PositionsFinite
<1> QED
  BY <1>3, <1>4

\* The positions of a batch that got a verdict.
Got(w, outcome, s) == {p \in batch[w] : outcome[p] = s}

\* A batch in hand is committed as it was decided, and counted.
LEMMA BatchCommitted ==
    ASSUME Inv, NEW w \in Workers, CommitBatch(w)
    PROVE  \E outcome \in [batch[w] -> ItemStatus \ {"pending"}] :
             /\ items' = [p \in Positions |->
                            IF p \in batch[w]
                               THEN [status |-> outcome[p], attempts |-> items[p].attempts + 1]
                               ELSE items[p]]
             /\ job'.status = job.status
             /\ job'.done = job.done + Cardinality(Got(w, outcome, "done"))
             /\ job'.failed = job.failed + Cardinality(Got(w, outcome, "failed"))
             /\ job'.skipped = job.skipped + Cardinality(Got(w, outcome, "skipped"))
             /\ job'.processed = job.processed + Cardinality(Got(w, outcome, "done"))
                                   + Cardinality(Got(w, outcome, "failed"))
                                   + Cardinality(Got(w, outcome, "skipped"))
<1>1. PICK outcome \in [batch[w] -> ItemStatus \ {"pending"}] :
        /\ items' = [p \in Positions |->
                       IF p \in batch[w]
                          THEN ItemWriteBack(items[p], seenItems[w][p], outcome[p])
                          ELSE items[p]]
        /\ job' = Renewed(WriteBack(job, snap[w],
                      Counted(snap[w], Got(w, outcome, "done"),
                              Got(w, outcome, "failed"),
                              Got(w, outcome, "skipped"), last[w])))
  BY DEF CommitBatch, Got
<1>2. pc[w] = "enrich" /\ Running(w)
  BY DEF CommitBatch, Running, Batching
<1>3. snap[w] = job /\ InHand(w) /\ job \in Jobs /\ last[w] \in Nat
  BY <1>2 DEF Inv, LedgerInv, Sound, SyncTypeOK
<1>. DEFINE D == Got(w, outcome, "done")
            F == Got(w, outcome, "failed")
            S == Got(w, outcome, "skipped")
            new == Counted(job, D, F, S, last[w])
<1>4. \A s : Got(w, outcome, s) \in SUBSET Positions
  BY DEF Inv, SyncTypeOK, Got
<1>5. /\ new \in Jobs
      /\ new.status = job.status
      /\ new.done = job.done + Cardinality(D)
      /\ new.failed = job.failed + Cardinality(F)
      /\ new.skipped = job.skipped + Cardinality(S)
      /\ new.processed = job.processed + Cardinality(D) + Cardinality(F) + Cardinality(S)
  <2>1. new \in Jobs
    BY <1>3, <1>4, CountedType
  <2> QED
    BY <1>3, <2>1 DEF Counted, Jobs
<1>6. job' = Renewed(new)
  <2>1. job' = Renewed(WriteBack(job, job, new))
    BY <1>1, <1>3
  <2>. HIDE DEF new
  <2> QED
    BY <1>3, <1>5, <2>1, OwnRowWritten
<1>7. /\ job'.status = new.status /\ job'.done = new.done /\ job'.failed = new.failed
      /\ job'.skipped = new.skipped /\ job'.processed = new.processed
  <2>. HIDE DEF new
  <2> QED
    BY <1>5, <1>6 DEF Renewed, Jobs
<1>8. \A p \in batch[w] :
         ItemWriteBack(items[p], seenItems[w][p], outcome[p])
           = [status |-> outcome[p], attempts |-> items[p].attempts + 1]
  BY <1>3 DEF InHand, ItemWriteBack, Column
<1>9. items' = [p \in Positions |->
                  IF p \in batch[w]
                     THEN [status |-> outcome[p], attempts |-> items[p].attempts + 1]
                     ELSE items[p]]
  BY <1>1, <1>8
<1> QED
  BY <1>5, <1>7, <1>9

-----------------------------------------------------------------------------
(* The invariant *)

LEMMA LedgerInit == SyncInit => LedgerInv
BY DEF SyncInit, LedgerInv, Failed, UnloadedItem, Sound, Running, Batching, Leaving, Exits

LEMMA LedgerStep ==
    ASSUME ~ OverrunAllowed
    PROVE  Inv /\ [SyncNext]_syncVars => LedgerInv'
<1>. SUFFICES ASSUME Inv, [SyncNext]_syncVars PROVE LedgerInv'
  OBVIOUS
<1>0. SyncTypeOK /\ LeaseInv /\ CheckpointInv /\ LedgerInv
  BY DEF Inv
<1>1. ASSUME NEW w \in Workers, NEW m \in Modes, Launch(w, m) PROVE LedgerInv'
  <2>1. Sound(w)'
    BY <1>0, <1>1 DEF Launch, Goto, SyncTypeOK, Sound, Running, Batching, Leaving, Exits
  <2>2. \A v \in Workers \ {w} : pc'[v] = pc[v] /\ mode'[v] = mode[v]
    BY <1>0, <1>1 DEF Launch, Goto, SyncTypeOK
  <2> QED
    BY <1>0, <1>1, <2>1, <2>2, QuietStep DEF Launch
<1>2. ASSUME NEW w \in Workers, CreateJob(w) PROVE LedgerInv'
  <2>1. \A v \in Workers : ~ Running(v)'
    <3>1. pc'[w] = "created" /\ \A v \in Workers \ {w} : pc'[v] = pc[v]
      BY <1>0, <1>2 DEF CreateJob, Goto, SyncTypeOK
    <3>2. \A v \in Workers \ {w} : pc[v] \in {"off", "left"}
      BY <1>0, <1>2 DEF CreateJob, LeaseInv
    <3> QED
      BY <3>1, <3>2 DEF Running, Batching, Leaving, Exits
  <2>2. job'.failed = job.failed /\ items' = items
    BY <1>0, <1>2 DEF CreateJob, SyncTypeOK, Jobs
  <2> QED
    BY <1>0, <2>1, <2>2 DEF LedgerInv, Failed, Sound
<1>3. ASSUME NEW w \in Workers, AnnounceJob(w) PROVE LedgerInv'
  <2>1. Sound(w)'
    BY <1>0, <1>3 DEF AnnounceJob, Goto, SyncTypeOK, Sound, Running, Batching, Leaving, Exits
  <2>2. \A v \in Workers \ {w} : pc'[v] = pc[v] /\ snap'[v] = snap[v]
    BY <1>0, <1>3 DEF AnnounceJob, Load, Goto, SyncTypeOK
  <2> QED
    BY <1>0, <1>3, <2>1, <2>2, QuietStep DEF AnnounceJob
<1>4. ASSUME NEW w \in Workers, Sigint(w) PROVE LedgerInv'
  BY <1>0, <1>4 DEF Sigint, LedgerInv, Failed, Sound, Running, InHand, Processed
<1>5. ASSUME NEW w \in Workers, Acquire(w) PROVE LedgerInv'
  <2>1. RowSeen(w) = job /\ job \in Jobs
    BY <1>0, <1>5 DEF RowSeen, Acquire, LeaseInv, SyncTypeOK
  <2>2. job'.failed = job.failed /\ job'.status = "running" /\ items' = items
    <3>1. job' = Renewed(WriteBack(job, job,
                   [job EXCEPT !.owner = w, !.status = "running"]))
      BY <1>5, <2>1 DEF Acquire
    <3> QED
      BY <1>5, <2>1, <3>1 DEF Acquire, Renewed, WriteBack, Column, Jobs
  <2>3. pc'[w] = "reload" /\ \A v \in Workers \ {w} : pc'[v] = pc[v]
    BY <1>0, <1>5 DEF Acquire, Goto, SyncTypeOK
  <2>4. \A v \in Workers \ {w} : ~ Running(v)
    <3>. SUFFICES ASSUME NEW v \in Workers \ {w}, Running(v) PROVE FALSE
      OBVIOUS
    <3>1. job.owner = v /\ job.lease = "live"
      BY <1>0 DEF LeaseInv
    <3> QED
      BY <1>5, <2>1, <3>1, SyncAssumption DEF Acquire, MayAcquire
  <2>5. \A v \in Workers \ {w} : Sound(v)'
    BY <2>3, <2>4 DEF Sound, Running
  <2>6. Sound(w)'
    BY <2>2, <2>3 DEF Sound
  <2>7. \A v \in Workers : Sound(v)'
    BY <2>5, <2>6
  <2> QED
    BY <1>0, <2>2, <2>7 DEF LedgerInv, Failed
<1>6. ASSUME NEW w \in Workers, AcquireRefused(w) PROVE LedgerInv'
  BY <1>0, <1>6, GoneStep DEF AcquireRefused
<1>7. ASSUME NEW w \in Workers, Reload(w) PROVE LedgerInv'
  <2>1. Sound(w)'
    BY <1>0, <1>7 DEF Reload, Load, Goto, SyncTypeOK, LedgerInv, Sound, Running, Batching
  <2>2. \A v \in Workers \ {w} : pc'[v] = pc[v] /\ snap'[v] = snap[v]
    BY <1>0, <1>7 DEF Reload, Load, Goto, SyncTypeOK
  <2> QED
    BY <1>0, <1>7, <2>1, <2>2, QuietStep DEF Reload
<1>8. ASSUME NEW w \in Workers, Select(w) PROVE LedgerInv'
  <2>1. PICK top \in Eligible(w) :
          LET B == {p \in Eligible(w) : p <= top} IN
          /\ \/ Cardinality(B) = BatchSize
             \/ Cardinality(B) < BatchSize /\ B = Eligible(w)
          /\ batch' = [batch EXCEPT ![w] = B]
          /\ seenItems' = [seenItems EXCEPT ![w] =
                        [p \in Positions |-> IF p \in B THEN items[p] ELSE UnloadedItem]]
    BY <1>8 DEF Select
  <2>. DEFINE B == {p \in Eligible(w) : p <= top}
  <2>2. Eligible(w) \subseteq Positions
    BY DEF Eligible
  <2>3. \A p \in B : p \in Positions /\ items[p].status \in {"pending", "failed"}
    BY <2>2 DEF Eligible
  <2>4. top \in B
    BY <2>1, <2>2, SyncAssumption DEF Positions
  <2>5. Cardinality(B) <= BatchSize
    <3>1. Cardinality(B) \in Nat
      BY <2>2, PositionsFinite
    <3>2. Cardinality(B) = BatchSize \/ Cardinality(B) < BatchSize
      BY <2>1
    <3>. HIDE DEF B
    <3> QED
      BY <3>1, <3>2, SyncAssumption
  <2>6. batch'[w] = B /\ \A v \in Workers \ {w} : batch'[v] = batch[v]
    BY <1>0, <2>1 DEF SyncTypeOK
  <2>7. /\ \A p \in B : seenItems'[w][p] = items[p]
        /\ \A v \in Workers \ {w} : seenItems'[v] = seenItems[v]
    BY <1>0, <2>1, <2>3 DEF SyncTypeOK
  <2>8. /\ pc'[w] = "enrich" /\ UNCHANGED <<job, items, mode, snap>>
        /\ \A v \in Workers \ {w} : pc'[v] = pc[v]
    BY <1>0, <1>8 DEF Select, Goto, SyncTypeOK
  <2>9. job.status = "running" /\ snap[w] = job
    BY <1>0, <1>8 DEF Select, LedgerInv, Sound, Running, Batching
  <2>10. InHand(w)'
    BY <2>3, <2>4, <2>5, <2>6, <2>7, <2>8 DEF InHand
  <2>11. Sound(w)'
    BY <2>8, <2>9, <2>10 DEF Sound
  <2> QED
    BY <1>0, <2>6, <2>7, <2>8, <2>11, QuietStep
<1>9. ASSUME NEW w \in Workers, SelectNothing(w) PROVE LedgerInv'
  <2>1. pc[w] = "select" /\ Running(w) /\ Eligible(w) = {}
    BY <1>9 DEF SelectNothing, Running, Batching
  <2>2. job.status = "running" /\ snap[w] = job
    BY <1>0, <2>1 DEF LedgerInv, Sound
  <2>3. ASSUME mode[w] # "retry", NEW p \in Positions PROVE Processed(p)
    <3>1. p < job.checkpoint => Processed(p)
      BY <1>0 DEF CheckpointInv, CheckpointSafe, Processed
    <3>2. p >= job.checkpoint => Processed(p)
      BY <2>1, <2>2, <2>3 DEF Eligible, Processed
    <3>3. p \in Nat /\ job.checkpoint \in Nat
      BY <1>0, SyncAssumption DEF SyncTypeOK, Jobs, Positions
    <3> QED
      BY <3>1, <3>2, <3>3
  <2>4. /\ pc'[w] = "completing"
        /\ UNCHANGED <<job, items, mode, snap, batch, seenItems>>
        /\ \A v \in Workers \ {w} : pc'[v] = pc[v]
    BY <1>0, <1>9 DEF SelectNothing, Goto, SyncTypeOK
  <2>5. Sound(w)'
    BY <2>2, <2>3, <2>4 DEF Sound, Processed
  <2> QED
    BY <1>0, <2>4, <2>5, QuietStep
<1>10. ASSUME NEW w \in Workers, Interrupted(w) PROVE LedgerInv'
  <2>1. /\ pc'[w] = "pausing" /\ pc[w] = "select"
        /\ UNCHANGED <<job, items, mode, snap, batch, seenItems>>
        /\ \A v \in Workers \ {w} : pc'[v] = pc[v]
    BY <1>0, <1>10 DEF Interrupted, Goto, SyncTypeOK
  <2>2. Sound(w)'
    BY <1>0, <2>1 DEF LedgerInv, Sound, Running, Batching
  <2> QED
    BY <1>0, <2>1, <2>2, QuietStep
<1>11. ASSUME NEW w \in Workers, EnrichRetry(w) PROVE LedgerInv'
  BY <1>0, <1>11 DEF EnrichRetry, LedgerInv, Failed, Sound, Running, InHand, Processed
<1>12. ASSUME NEW w \in Workers, EnrichFailed(w) PROVE LedgerInv'
  <2>1. /\ pc'[w] = "failing" /\ pc[w] = "enrich"
        /\ UNCHANGED <<job, items, mode, snap, batch, seenItems>>
        /\ \A v \in Workers \ {w} : pc'[v] = pc[v]
    BY <1>0, <1>12 DEF EnrichFailed, Goto, SyncTypeOK
  <2>2. Sound(w)'
    BY <1>0, <2>1 DEF LedgerInv, Sound, Running, Batching
  <2> QED
    BY <1>0, <2>1, <2>2, QuietStep
<1>13. ASSUME NEW w \in Workers, CommitBatch(w) PROVE LedgerInv'
  <2>1. PICK outcome \in [batch[w] -> ItemStatus \ {"pending"}] :
          /\ items' = [p \in Positions |->
                         IF p \in batch[w]
                            THEN [status |-> outcome[p], attempts |-> items[p].attempts + 1]
                            ELSE items[p]]
          /\ job'.status = job.status
          /\ job'.failed = job.failed + Cardinality(Got(w, outcome, "failed"))
    BY <1>13, BatchCommitted
  <2>2. Running(w)
    BY <1>13 DEF CommitBatch, Running, Batching
  <2>3. pc'[w] = "reload" /\ \A v \in Workers \ {w} : pc'[v] = pc[v]
    BY <1>0, <1>13 DEF CommitBatch, Goto, SyncTypeOK
  <2>. DEFINE F == Got(w, outcome, "failed")
  <2>4. job.failed \in Nat /\ F \in SUBSET Positions /\ Cardinality(F) \in Nat
    BY <1>0, PositionsFinite DEF SyncTypeOK, Jobs, Got
  <2>5. ASSUME NEW p \in Positions, Failed(p)' PROVE job'.failed > 0
    <3>1. CASE p \in batch[w]
      <4>1. p \in F
        BY <2>1, <2>5, <3>1 DEF Failed, Got
      <4>2. Cardinality(F) > 0
        BY <2>4, <4>1, SomeAreCounted
      <4>. HIDE DEF F
      <4> QED
        BY <2>1, <2>4, <4>2 DEF F
    <3>2. CASE p \notin batch[w]
      <4>1. Failed(p)
        BY <2>1, <2>5, <3>2 DEF Failed
      <4>2. job.failed > 0
        BY <1>0, <4>1 DEF LedgerInv
      <4> QED
        BY <2>1, <2>4, <4>2
    <3> QED
      BY <3>1, <3>2
  <2>6. Sound(w)'
    BY <1>0, <2>1, <2>2, <2>3 DEF Sound, LedgerInv
  <2>7. \A v \in Workers : Sound(v)'
    BY <1>0, <2>2, <2>3, <2>6, OthersAreOut
  <2> QED
    BY <2>5, <2>7 DEF LedgerInv
<1>14. ASSUME NEW w \in Workers, RefreshJob(w) PROVE LedgerInv'
  <2>1. /\ \/ pc[w] = "pausing" /\ pc'[w] = "paused"
           \/ pc[w] = "failing" /\ pc'[w] = "failed"
           \/ pc[w] = "completing" /\ pc'[w] = "completed"
        /\ snap'[w] = job
        /\ UNCHANGED <<job, items, mode, batch, seenItems>>
        /\ \A v \in Workers \ {w} : pc'[v] = pc[v] /\ snap'[v] = snap[v]
    BY <1>0, <1>14 DEF RefreshJob, Load, Goto, SyncTypeOK
  <2>2. Sound(w)'
    BY <1>0, <2>1 DEF LedgerInv, Sound, Running, Leaving, Processed
  <2> QED
    BY <1>0, <2>1, <2>2, QuietStep
<1>15. ASSUME NEW w \in Workers, Leave(w) PROVE LedgerInv'
  <2>. DEFINE new == [snap[w] EXCEPT !.status = FinalStatus(w),
                                     !.owner = NoOwner, !.lease = "none"]
  <2>1. Running(w) /\ snap[w] = job
    BY <1>0, <1>15 DEF Leave, LedgerInv, Sound, Running, Exits
  <2>2. job'.failed = job.failed /\ items' = items
    <3>1. job' = WriteBack(job, job, new)
      BY <1>15, <2>1 DEF Leave
    <3>2. new.failed = job.failed
      BY <1>0, <2>1 DEF SyncTypeOK, Jobs
    <3>. HIDE DEF new
    <3> QED
      BY <1>15, <3>1, <3>2 DEF Leave, WriteBack, Column
  <2>3. pc'[w] = "left" /\ \A v \in Workers \ {w} : pc'[v] = pc[v]
    BY <1>0, <1>15 DEF Leave, Goto, SyncTypeOK
  <2>4. Sound(w)'
    BY <2>3 DEF Sound, Running, Batching, Leaving, Exits
  <2>5. \A v \in Workers : Sound(v)'
    BY <1>0, <2>1, <2>3, <2>4, OthersAreOut
  <2> QED
    BY <1>0, <2>2, <2>5 DEF LedgerInv, Failed
<1>16. ASSUME NEW w \in Workers, Crash(w) PROVE LedgerInv'
  BY <1>0, <1>16, GoneStep DEF Crash
<1>17. CASE LeaseExpires
  <2>1. \A v \in Workers : ~ Running(v)
    BY <1>0, <1>17 DEF LeaseExpires, LeaseInv
  <2>2. job'.failed = job.failed /\ items' = items /\ pc' = pc
    BY <1>0, <1>17 DEF LeaseExpires, SyncTypeOK, Jobs
  <2> QED
    BY <1>0, <2>1, <2>2 DEF LedgerInv, Failed, Sound, Running
<1>18. CASE UNCHANGED syncVars
  BY <1>0, <1>18 DEF syncVars, LedgerInv, Failed, Sound, Running, InHand, Processed
<1>. QED
  BY <1>1, <1>2, <1>3, <1>4, <1>5, <1>6, <1>7, <1>8, <1>9, <1>10, <1>11, <1>12,
     <1>13, <1>14, <1>15, <1>16, <1>17, <1>18 DEF SyncNext, RunStep

LEMMA InvInit == SyncInit => Inv
BY TypeInit, LeaseInit, CheckpointInit, LedgerInit DEF Inv

LEMMA InvStep ==
    ASSUME ~ OverrunAllowed, ~ EarlyResume
    PROVE  Inv /\ [SyncNext]_syncVars => Inv'
BY TypeStep, LeaseStep, CheckpointStep, LedgerStep DEF Inv

-----------------------------------------------------------------------------
(***************************************************************************)
(* The counters agree with the items, also with --retry-errors.  A batch   *)
(* in hand is what is in the base (InHand) and the counters it increments  *)
(* are those of the row (Sound), so each is incremented by what the batch  *)
(* adds to the set it counts.                                              *)
(***************************************************************************)

LEMMA SubsetsFinite ==
    ASSUME NEW B \in SUBSET Positions
    PROVE  IsFiniteSet(B)
<1>1. IsFiniteSet(Positions)
  BY SyncAssumption, FS_Interval DEF Positions
<1> QED
  BY <1>1, FS_Subset

LEMMA DisjointUnion ==
    ASSUME NEW A, NEW B, IsFiniteSet(A), IsFiniteSet(B), A \cap B = {}
    PROVE  /\ IsFiniteSet(A \cup B)
           /\ Cardinality(A \cup B) = Cardinality(A) + Cardinality(B)
<1>1. Cardinality(A \cap B) = 0
  BY FS_EmptySet
<1>2. Cardinality(A) \in Nat /\ Cardinality(B) \in Nat
  BY FS_CardinalityType
<1>3. /\ IsFiniteSet(A \cup B)
      /\ Cardinality(A \cup B) = Cardinality(A) + Cardinality(B) - Cardinality(A \cap B)
  BY FS_Union
<1> QED
  BY <1>1, <1>2, <1>3

LEMMA AttemptsFinite ==
    ASSUME SyncTypeOK
    PROVE  IsFiniteSet(Attempts)
<1>1. \A p \in Positions : IsFiniteSet(AttemptsOn(p))
  <2>. SUFFICES ASSUME NEW p \in Positions PROVE IsFiniteSet(AttemptsOn(p))
    OBVIOUS
  <2>1. items[p].attempts \in Nat
    BY DEF SyncTypeOK, Items
  <2>2. IsFiniteSet(1 .. items[p].attempts)
    BY <2>1, FS_Interval
  <2>3. IsFiniteSet({p})
    BY FS_Singleton
  <2> QED
    BY <2>2, <2>3, FS_Product DEF AttemptsOn
<1>2. IsFiniteSet({AttemptsOn(p) : p \in Positions})
  <2>. DEFINE f == [p \in Positions |-> AttemptsOn(p)]
             R == {AttemptsOn(p) : p \in Positions}
  <2>1. f \in Surjection(Positions, R)
    BY DEF Surjection
  <2>2. IsFiniteSet(Positions)
    BY SubsetsFinite
  <2>. HIDE DEF f, R
  <2>3. IsFiniteSet(R)
    BY <2>1, <2>2, FS_Surjection
  <2> QED
    BY <2>3 DEF R
<1> QED
  BY <1>1, <1>2, FS_UNION DEF Attempts

\* The attempts a batch adds: one for each of its items.
NewAttempts(B) == {<<p, items[p].attempts + 1>> : p \in B}

LEMMA OneAttemptEach ==
    ASSUME SyncTypeOK, NEW B \in SUBSET Positions
    PROVE  /\ IsFiniteSet(NewAttempts(B))
           /\ Cardinality(NewAttempts(B)) = Cardinality(B)
           /\ Attempts \cap NewAttempts(B) = {}
<1>. DEFINE f == [p \in B |-> <<p, items[p].attempts + 1>>]
<1>1. f \in Bijection(B, NewAttempts(B))
  <2>1. f \in [B -> NewAttempts(B)]
    BY DEF NewAttempts
  <2>2. \A p, q \in B : f[p] = f[q] => p = q
    OBVIOUS
  <2>3. \A t \in NewAttempts(B) : \E p \in B : f[p] = t
    BY DEF NewAttempts
  <2>. HIDE DEF f
  <2> QED
    BY <2>1, <2>2, <2>3 DEF Bijection, Injection, IsInjective, Surjection
<1>2. ExistsBijection(B, NewAttempts(B))
  BY <1>1 DEF ExistsBijection
<1>3. ASSUME NEW t \in Attempts, t \in NewAttempts(B) PROVE FALSE
  <2>1. PICK p \in Positions : t \in AttemptsOn(p)
    BY DEF Attempts
  <2>2. PICK q \in B : t = <<q, items[q].attempts + 1>>
    BY <1>3 DEF NewAttempts
  <2>3. p = q /\ items[q].attempts + 1 <= items[q].attempts
    BY <2>1, <2>2 DEF AttemptsOn
  <2>4. items[q].attempts \in Nat
    BY DEF SyncTypeOK, Items
  <2> QED
    BY <2>3, <2>4
<1> QED
  BY <1>2, <1>3, SubsetsFinite, FS_Bijection

\* What a batch does to the tables the counters count.
LEMMA BatchAdds ==
    ASSUME SyncTypeOK, NEW w \in Workers, InHand(w),
           NEW outcome \in [batch[w] -> ItemStatus \ {"pending"}],
           items' = [p \in Positions |->
                       IF p \in batch[w]
                          THEN [status |-> outcome[p], attempts |-> items[p].attempts + 1]
                          ELSE items[p]]
    PROVE  /\ \A s \in {"done", "skipped"} :
                /\ Having(s)' = Having(s) \cup Got(w, outcome, s)
                /\ Having(s) \cap Got(w, outcome, s) = {}
           /\ Having("failed")' \subseteq Having("failed") \cup Got(w, outcome, "failed")
           /\ Attempts' = Attempts \cup NewAttempts(batch[w])
<1>1. batch[w] \subseteq Positions /\ \A p \in Positions : items[p] \in Items
  BY DEF SyncTypeOK
<1>2. ASSUME NEW s \in {"done", "skipped"}
      PROVE  /\ Having(s)' = Having(s) \cup Got(w, outcome, s)
             /\ Having(s) \cap Got(w, outcome, s) = {}
  <2>1. \A p \in batch[w] : p \notin Having(s)
    BY DEF InHand, Having
  <2>2. \A p \in Positions : p \in Having(s)' <=> p \in Having(s) \/ p \in Got(w, outcome, s)
    BY <2>1 DEF Having, Got
  <2> QED
    BY <1>1, <2>1, <2>2 DEF Having, Got
<1>3. Having("failed")' \subseteq Having("failed") \cup Got(w, outcome, "failed")
  BY <1>1 DEF Having, Got
<1>4. \A p \in batch[w] : AttemptsOn(p)' = AttemptsOn(p) \cup {<<p, items[p].attempts + 1>>}
  <2>. SUFFICES ASSUME NEW p \in batch[w]
                PROVE  AttemptsOn(p)' = AttemptsOn(p) \cup {<<p, items[p].attempts + 1>>}
    OBVIOUS
  <2>1. items'[p].attempts = items[p].attempts + 1 /\ items[p].attempts \in Nat
    BY <1>1 DEF Items
  <2>2. 1 .. items[p].attempts + 1 = (1 .. items[p].attempts) \cup {items[p].attempts + 1}
    BY <2>1
  <2> QED
    BY <2>1, <2>2 DEF AttemptsOn
<1>5. \A p \in Positions \ batch[w] : AttemptsOn(p)' = AttemptsOn(p)
  BY DEF AttemptsOn
<1>6. Attempts' = Attempts \cup NewAttempts(batch[w])
  <2>1. ASSUME NEW t \in Attempts' PROVE t \in Attempts \cup NewAttempts(batch[w])
    <3>1. PICK p \in Positions : t \in AttemptsOn(p)'
      BY <2>1 DEF Attempts
    <3>2. t \in AttemptsOn(p) \/ (p \in batch[w] /\ t = <<p, items[p].attempts + 1>>)
      BY <3>1, <1>4, <1>5
    <3> QED
      BY <3>2 DEF Attempts, NewAttempts
  <2>2. ASSUME NEW t \in Attempts PROVE t \in Attempts'
    <3>1. PICK p \in Positions : t \in AttemptsOn(p)
      BY DEF Attempts
    <3>2. t \in AttemptsOn(p)'
      BY <3>1, <1>4, <1>5
    <3> QED
      BY <3>2 DEF Attempts
  <2>3. ASSUME NEW t \in NewAttempts(batch[w]) PROVE t \in Attempts'
    <3>1. PICK p \in batch[w] : t = <<p, items[p].attempts + 1>>
      BY DEF NewAttempts
    <3>2. t \in AttemptsOn(p)'
      BY <3>1, <1>4
    <3> QED
      BY <1>1, <3>2 DEF Attempts
  <2> QED
    BY <2>1, <2>2, <2>3
<1> QED
  BY <1>2, <1>3, <1>6

\* A batch is what was done, what failed and what was skipped of it.
LEMMA BatchIsCounted ==
    ASSUME NEW w \in Workers, batch[w] \in SUBSET Positions,
           NEW outcome \in [batch[w] -> ItemStatus \ {"pending"}]
    PROVE  Cardinality(batch[w]) = Cardinality(Got(w, outcome, "done"))
                                    + Cardinality(Got(w, outcome, "failed"))
                                    + Cardinality(Got(w, outcome, "skipped"))
<1>. DEFINE D == Got(w, outcome, "done")
            F == Got(w, outcome, "failed")
            S == Got(w, outcome, "skipped")
<1>1. IsFiniteSet(D) /\ IsFiniteSet(F) /\ IsFiniteSet(S)
  BY SubsetsFinite DEF Got
<1>2. /\ batch[w] = (D \cup F) \cup S
      /\ D \cap F = {} /\ (D \cup F) \cap S = {}
  BY DEF Got, ItemStatus
<1>. HIDE DEF D, F, S
<1>3. IsFiniteSet(D \cup F) /\ Cardinality(D \cup F) = Cardinality(D) + Cardinality(F)
  BY <1>1, <1>2, DisjointUnion
<1>4. Cardinality(batch[w]) = Cardinality(D \cup F) + Cardinality(S)
  BY <1>1, <1>2, <1>3, DisjointUnion
<1> QED
  BY <1>3, <1>4 DEF D, F, S

LEMMA CountersBatch ==
    ASSUME Inv, CountersMatchItems, NEW w \in Workers, CommitBatch(w)
    PROVE  CountersMatchItems'
<1>1. PICK outcome \in [batch[w] -> ItemStatus \ {"pending"}] :
        /\ items' = [p \in Positions |->
                       IF p \in batch[w]
                          THEN [status |-> outcome[p], attempts |-> items[p].attempts + 1]
                          ELSE items[p]]
        /\ job'.done = job.done + Cardinality(Got(w, outcome, "done"))
        /\ job'.failed = job.failed + Cardinality(Got(w, outcome, "failed"))
        /\ job'.skipped = job.skipped + Cardinality(Got(w, outcome, "skipped"))
        /\ job'.processed = job.processed + Cardinality(Got(w, outcome, "done"))
                              + Cardinality(Got(w, outcome, "failed"))
                              + Cardinality(Got(w, outcome, "skipped"))
  BY BatchCommitted
<1>. DEFINE D == Got(w, outcome, "done")
            F == Got(w, outcome, "failed")
            S == Got(w, outcome, "skipped")
<1>2. SyncTypeOK /\ InHand(w) /\ batch[w] \in SUBSET Positions
  BY DEF Inv, LedgerInv, Sound, SyncTypeOK, CommitBatch, Running, Batching
<1>3. /\ \A s \in {"done", "skipped"} :
           /\ Having(s)' = Having(s) \cup Got(w, outcome, s)
           /\ Having(s) \cap Got(w, outcome, s) = {}
      /\ Having("failed")' \subseteq Having("failed") \cup F
      /\ Attempts' = Attempts \cup NewAttempts(batch[w])
  BY <1>1, <1>2, BatchAdds
<1>4. \A s : /\ Having(s) \in SUBSET Positions /\ Got(w, outcome, s) \in SUBSET Positions
             /\ IsFiniteSet(Having(s)) /\ IsFiniteSet(Got(w, outcome, s))
             /\ Cardinality(Having(s)) \in Nat /\ Cardinality(Got(w, outcome, s)) \in Nat
  <2>1. \A s : Having(s) \in SUBSET Positions /\ Got(w, outcome, s) \in SUBSET Positions
    BY <1>2 DEF Having, Got
  <2> QED
    BY <2>1, SubsetsFinite, PositionsFinite
<1>5. \A s \in {"done", "skipped"} :
        Cardinality(Having(s)') = Cardinality(Having(s)) + Cardinality(Got(w, outcome, s))
  BY <1>3, <1>4, DisjointUnion
<1>6. job'.done = Cardinality(Having("done")')
  BY <1>1, <1>5 DEF CountersMatchItems
<1>7. job'.skipped = Cardinality(Having("skipped")')
  BY <1>1, <1>5 DEF CountersMatchItems
<1>8. job'.failed >= Cardinality(Having("failed")')
  <2>1. /\ IsFiniteSet(Having("failed") \cup F)
        /\ Cardinality(Having("failed") \cup F) <= Cardinality(Having("failed")) + Cardinality(F)
    <3>1. /\ IsFiniteSet(Having("failed") \cup F)
          /\ Cardinality(Having("failed") \cup F) =
               Cardinality(Having("failed")) + Cardinality(F)
                 - Cardinality(Having("failed") \cap F)
      BY <1>4, FS_Union
    <3>2. Having("failed") \cap F \in SUBSET Positions
      BY <1>4
    <3>3. Cardinality(Having("failed") \cap F) \in Nat
      BY <3>2, PositionsFinite
    <3>. HIDE DEF F
    <3> QED
      BY <1>4, <3>1, <3>3 DEF F
  <2>2. Cardinality(Having("failed")') <= Cardinality(Having("failed") \cup F)
    BY <1>3, <2>1, FS_Subset
  <2>3. /\ Cardinality(Having("failed")') \in Nat
        /\ Cardinality(Having("failed") \cup F) \in Nat
    BY <1>3, <1>4, <2>1, FS_CardinalityType, FS_Subset
  <2>4. job.failed >= Cardinality(Having("failed")) /\ job.failed \in Nat
    BY <1>2 DEF CountersMatchItems, SyncTypeOK, Jobs
  <2> QED
    BY <1>1, <1>4, <2>1, <2>2, <2>3, <2>4
<1>9. /\ job.done \in Nat /\ job.failed \in Nat /\ job.skipped \in Nat
      /\ job.processed \in Nat
  BY <1>2 DEF SyncTypeOK, Jobs
<1>10. job'.processed = job'.done + job'.failed + job'.skipped
  BY <1>1, <1>4, <1>9 DEF CountersMatchItems
<1>11. job'.processed = Cardinality(Attempts')
  <2>1. Cardinality(Attempts') = Cardinality(Attempts) + Cardinality(batch[w])
    BY <1>2, <1>3, AttemptsFinite, OneAttemptEach, DisjointUnion
  <2>2. Cardinality(batch[w]) = Cardinality(D) + Cardinality(F) + Cardinality(S)
    BY <1>2, BatchIsCounted
  <2> QED
    BY <1>1, <1>4, <1>9, <2>1, <2>2 DEF CountersMatchItems
<1> QED
  BY <1>6, <1>7, <1>8, <1>10, <1>11 DEF CountersMatchItems

\* A step that leaves the items and the counters alone.
LEMMA CountersStand ==
    ASSUME CountersMatchItems, items' = items,
           job'.done = job.done, job'.failed = job.failed,
           job'.skipped = job.skipped, job'.processed = job.processed
    PROVE  CountersMatchItems'
<1>1. Attempts' = Attempts /\ \A s : Having(s)' = Having(s)
  BY DEF Attempts, AttemptsOn, Having
<1> QED
  BY <1>1 DEF CountersMatchItems

LEMMA CountersInit == SyncInit => CountersMatchItems
<1>. SUFFICES ASSUME SyncInit PROVE CountersMatchItems
  OBVIOUS
<1>1. \A p \in Positions : items[p].status = "pending" /\ items[p].attempts = 0
  BY DEF SyncInit, UnloadedItem
<1>2. \A s \in {"done", "failed", "skipped"} : Having(s) = {}
  BY <1>1 DEF Having
<1>3. Attempts = {}
  <2>1. \A p \in Positions : AttemptsOn(p) = {}
    BY <1>1 DEF AttemptsOn
  <2> QED
    BY <2>1 DEF Attempts
<1>4. job.done = 0 /\ job.failed = 0 /\ job.skipped = 0 /\ job.processed = 0
  BY DEF SyncInit, FreshJob
<1>5. Cardinality({}) = 0
  BY FS_EmptySet
<1> QED
  BY <1>2, <1>3, <1>4, <1>5 DEF CountersMatchItems

LEMMA CountersStep == Inv /\ CountersMatchItems /\ [SyncNext]_syncVars => CountersMatchItems'
<1>. SUFFICES ASSUME Inv, CountersMatchItems, [SyncNext]_syncVars PROVE CountersMatchItems'
  OBVIOUS
<1>1. ASSUME NEW w \in Workers, CommitBatch(w) PROVE CountersMatchItems'
  BY <1>1, CountersBatch
<1>2. ASSUME NEW w \in Workers, Leave(w) PROVE CountersMatchItems'
  <2>. DEFINE new == [snap[w] EXCEPT !.status = FinalStatus(w),
                                     !.owner = NoOwner, !.lease = "none"]
  <2>1. snap[w] = job /\ job \in Jobs
    BY <1>2 DEF Leave, Inv, LedgerInv, Sound, Running, Exits, SyncTypeOK
  <2>2. job' = WriteBack(job, job, new)
    BY <1>2, <2>1 DEF Leave
  <2>3. /\ new.done = job.done /\ new.failed = job.failed
        /\ new.skipped = job.skipped /\ new.processed = job.processed
    BY <2>1 DEF Jobs
  <2>. HIDE DEF new
  <2>4. /\ job'.done = job.done /\ job'.failed = job.failed
        /\ job'.skipped = job.skipped /\ job'.processed = job.processed
    BY <2>2, <2>3 DEF WriteBack, Column
  <2> QED
    BY <1>2, <2>4, CountersStand DEF Leave
<1>3. ASSUME NEW w \in Workers, Acquire(w) PROVE CountersMatchItems'
  <2>1. RowSeen(w) = job /\ job \in Jobs
    BY <1>3 DEF RowSeen, Acquire, Inv, LeaseInv, SyncTypeOK
  <2>2. job' = Renewed(WriteBack(job, job,
                 [job EXCEPT !.owner = w, !.status = "running"]))
    BY <1>3, <2>1 DEF Acquire
  <2>3. /\ job'.done = job.done /\ job'.failed = job.failed
        /\ job'.skipped = job.skipped /\ job'.processed = job.processed
    BY <2>1, <2>2 DEF Renewed, WriteBack, Column, Jobs
  <2> QED
    BY <1>3, <2>3, CountersStand DEF Acquire
<1>4. ASSUME NEW w \in Workers, CreateJob(w) PROVE CountersMatchItems'
  BY <1>4, CountersStand DEF CreateJob, Inv, SyncTypeOK, Jobs
<1>5. CASE LeaseExpires
  BY <1>5, CountersStand DEF LeaseExpires, Inv, SyncTypeOK, Jobs
<1>6. CASE UNCHANGED <<job, items>>
  BY <1>6, CountersStand
<1>7. ASSUME NEW w \in Workers, NEW m \in Modes, Launch(w, m)
      PROVE  UNCHANGED <<job, items>>
  BY <1>7 DEF Launch
<1>8. ASSUME NEW w \in Workers,
             \/ AnnounceJob(w) \/ Sigint(w) \/ AcquireRefused(w) \/ Reload(w)
             \/ Select(w) \/ SelectNothing(w) \/ Interrupted(w) \/ EnrichRetry(w)
             \/ EnrichFailed(w) \/ RefreshJob(w) \/ Crash(w)
      PROVE  UNCHANGED <<job, items>>
  BY <1>8 DEF AnnounceJob, Sigint, AcquireRefused, Reload, Select, SelectNothing,
              Interrupted, EnrichRetry, EnrichFailed, RefreshJob, Crash
<1> QED
  BY <1>1, <1>2, <1>3, <1>4, <1>5, <1>6, <1>7, <1>8 DEF SyncNext, RunStep, syncVars

\* The counters of a job agree with its items after any number of processes,
\* crashes and resumptions, retries of errors included, if no lease is overrun
\* and no job resumed before its creator has taken it.
THEOREM CountersAgree ==
    ASSUME ~ OverrunAllowed, ~ EarlyResume
    PROVE  SyncSpec => []CountersMatchItems
<1>1. SyncInit => Inv /\ CountersMatchItems
  BY InvInit, CountersInit
<1>2. Inv /\ CountersMatchItems /\ [SyncNext]_syncVars => (Inv /\ CountersMatchItems)'
  BY InvStep, CountersStep
<1> QED
  BY <1>1, <1>2, PTL DEF SyncSpec

-----------------------------------------------------------------------------
(* The refinement *)

\* What SyncLedger sees of the tables.
Verdict == [p \in Positions |-> items[p].status]
Closed == job.status = "completed"

LEMMA LedgerInitially == SyncInit => Ledger!Init
<1>. SUFFICES ASSUME SyncInit PROVE Ledger!Init
  OBVIOUS
<1>1. \A p \in Positions : items[p].status = "pending"
  BY DEF SyncInit, UnloadedItem
<1>2. job.status # "completed"
  BY DEF SyncInit, FreshJob
<1> QED
  BY <1>1, <1>2 DEF Ledger!Init, Ledger!Pos, Positions

\* While it runs, the job is not closed, and nobody takes a closed one.
LEMMA NotClosed ==
    ASSUME Inv, NEW w \in Workers,
           Running(w) \/ (pc[w] \in {"stale", "ready"} /\ MayAcquire(w))
    PROVE  ~ Closed
<1>1. CASE Running(w)
  BY <1>1 DEF Inv, LedgerInv, Sound, Closed
<1>2. CASE pc[w] \in {"stale", "ready"} /\ MayAcquire(w)
  <2>1. RowSeen(w) = job
    BY <1>2 DEF RowSeen, Inv, LeaseInv
  <2> QED
    BY <1>2, <2>1 DEF MayAcquire, Closed
<1> QED
  BY <1>1, <1>2

\* The ledger counts as this module does.
LEMMA SameCardinality == \A S : Ledger!Cardinality(S) = Cardinality(S)
BY DEF Ledger!Cardinality, Cardinality

\* A committed batch is a batch of the ledger.
LEMMA BatchIsOfTheLedger ==
    ASSUME Inv, NEW w \in Workers, CommitBatch(w)
    PROVE  \E B \in SUBSET Ledger!Pos : Ledger!Batch(B)
<1>1. PICK outcome \in [batch[w] -> ItemStatus \ {"pending"}] :
        /\ items' = [p \in Positions |->
                       IF p \in batch[w]
                          THEN [status |-> outcome[p], attempts |-> items[p].attempts + 1]
                          ELSE items[p]]
        /\ job'.status = job.status
  BY BatchCommitted
<1>2. pc[w] = "enrich" /\ Running(w)
  BY DEF CommitBatch, Running, Batching
<1>3. InHand(w) /\ ~ Closed /\ batch[w] \subseteq Positions
  BY <1>2, NotClosed DEF Inv, LedgerInv, Sound, SyncTypeOK
<1>4. \A p \in batch[w] : Verdict[p] \notin {"done", "skipped"}
  BY <1>3 DEF InHand, Verdict
<1>5. ASSUME NEW p \in Positions \ batch[w], NEW q \in batch[w], Verdict[p] = "pending"
      PROVE  q < p
  <2>1. ~ Processed(p)
    BY <1>5 DEF Verdict, Processed
  <2>2. ~ (p <= last[w]) /\ q <= last[w]
    BY <1>2, <1>5, <2>1 DEF Inv, CheckpointInv
  <2>3. p \in Nat /\ q \in Nat /\ last[w] \in Nat
    BY <1>3, SyncAssumption DEF Inv, SyncTypeOK, Positions
  <2> QED
    BY <2>2, <2>3
<1>6. outcome \in [batch[w] -> {"done", "skipped"} \cup {"failed"}]
  BY DEF ItemStatus
<1>7. Verdict' = [p \in Positions |-> IF p \in batch[w] THEN outcome[p] ELSE Verdict[p]]
  BY <1>1 DEF Verdict
<1>8. Closed' = Closed
  BY <1>1 DEF Closed
<1>9. PICK B \in SUBSET Positions : B = batch[w]
  BY <1>3
<1>10. Ledger!Batch(B)
  BY <1>3, <1>4, <1>5, <1>6, <1>7, <1>8, <1>9, SameCardinality
  DEF Ledger!Batch, Ledger!Settled, Ledger!Pos, Positions, Verdict, Closed, InHand
<1> QED
  BY <1>10 DEF Ledger!Pos, Positions

\* Leaving closes the job in the ledger, or nothing happens there.
LEMMA LeavingClosesOrNot ==
    ASSUME Inv, "retry" \notin Modes, NEW w \in Workers, Leave(w)
    PROVE  Ledger!Close \/ (Closed' = Closed /\ Verdict' = Verdict)
<1>. DEFINE new == [snap[w] EXCEPT !.status = FinalStatus(w),
                                   !.owner = NoOwner, !.lease = "none"]
<1>1. Running(w) /\ snap[w] = job /\ job \in Jobs /\ items' = items
  BY DEF Leave, Inv, LedgerInv, Sound, Running, Exits, SyncTypeOK
<1>2. ~ Closed
  BY <1>1, NotClosed
<1>3. job'.status = FinalStatus(w)
  <2>1. job' = WriteBack(job, job, new)
    BY <1>1 DEF Leave
  <2>2. new.status = FinalStatus(w)
    BY <1>1 DEF Jobs
  <2>. HIDE DEF new
  <2> QED
    BY <2>1, <2>2 DEF WriteBack, Column
<1>4. CASE FinalStatus(w) = "completed"
  <2>1. pc[w] = "completed" /\ ~ (job.failed > 0)
    BY <1>1, <1>4 DEF FinalStatus
  <2>2. \A p \in Positions : Processed(p) /\ ~ Failed(p)
    <3>1. mode[w] # "retry"
      BY DEF Inv, SyncTypeOK
    <3> QED
      BY <1>1, <2>1, <3>1 DEF Inv, LedgerInv, Sound
  <2>3. \A p \in Positions : items[p].status \in {"done", "skipped"}
    BY <2>2 DEF Processed, Failed, Inv, SyncTypeOK, Items, ItemStatus
  <2>4. /\ Closed' = TRUE /\ Verdict' = Verdict
        /\ \A p \in Positions : Verdict[p] \in {"done", "skipped"}
    BY <1>1, <1>3, <1>4, <2>3 DEF Closed, Verdict
  <2> QED
    BY <1>2, <2>4 DEF Ledger!Close, Ledger!Settled, Ledger!Pos, Positions, Verdict, Closed
<1>5. CASE FinalStatus(w) # "completed"
  BY <1>1, <1>2, <1>3, <1>5 DEF Closed, Verdict
<1> QED
  BY <1>4, <1>5

LEMMA LedgerSteps ==
    ASSUME "retry" \notin Modes
    PROVE  Inv /\ [SyncNext]_syncVars => Ledger!Next \/ (Closed' = Closed /\ Verdict' = Verdict)
<1>. SUFFICES ASSUME Inv, [SyncNext]_syncVars
              PROVE  Ledger!Next \/ (Closed' = Closed /\ Verdict' = Verdict)
  OBVIOUS
<1>1. ASSUME NEW w \in Workers, CommitBatch(w) PROVE Ledger!Next
  BY <1>1, BatchIsOfTheLedger DEF Ledger!Next
<1>2. ASSUME NEW w \in Workers, Leave(w)
      PROVE  Ledger!Next \/ (Closed' = Closed /\ Verdict' = Verdict)
  BY <1>2, LeavingClosesOrNot DEF Ledger!Next
<1>3. ASSUME NEW w \in Workers, Acquire(w) PROVE Closed' = Closed /\ Verdict' = Verdict
  <2>1. ~ Closed
    BY <1>3, NotClosed DEF Acquire
  <2>2. RowSeen(w) = job /\ job \in Jobs
    BY <1>3 DEF RowSeen, Acquire, Inv, LeaseInv, SyncTypeOK
  <2>3. job'.status = "running"
    <3>1. job' = Renewed(WriteBack(job, job,
                   [job EXCEPT !.owner = w, !.status = "running"]))
      BY <1>3, <2>2 DEF Acquire
    <3> QED
      BY <2>2, <3>1 DEF Renewed, WriteBack, Column, Jobs
  <2> QED
    BY <1>3, <2>1, <2>3 DEF Acquire, Closed, Verdict
<1>4. ASSUME NEW w \in Workers, CreateJob(w) PROVE Closed' = Closed /\ Verdict' = Verdict
  <2>1. job.status = "absent" /\ job'.status = "pending" /\ items' = items
    BY <1>4 DEF CreateJob, Inv, SyncTypeOK, Jobs
  <2> QED
    BY <2>1 DEF Closed, Verdict
<1>5. CASE LeaseExpires
  <2>1. job'.status = job.status /\ items' = items
    BY <1>5 DEF LeaseExpires, Inv, SyncTypeOK, Jobs
  <2> QED
    BY <2>1 DEF Closed, Verdict
<1>6. CASE UNCHANGED <<job, items>>
  BY <1>6 DEF Closed, Verdict
<1>7. ASSUME NEW w \in Workers, NEW m \in Modes, Launch(w, m)
      PROVE  UNCHANGED <<job, items>>
  BY <1>7 DEF Launch
<1>8. ASSUME NEW w \in Workers,
             \/ AnnounceJob(w) \/ Sigint(w) \/ AcquireRefused(w) \/ Reload(w)
             \/ Select(w) \/ SelectNothing(w) \/ Interrupted(w) \/ EnrichRetry(w)
             \/ EnrichFailed(w) \/ RefreshJob(w) \/ Crash(w)
      PROVE  UNCHANGED <<job, items>>
  BY <1>8 DEF AnnounceJob, Sigint, AcquireRefused, Reload, Select, SelectNothing,
              Interrupted, EnrichRetry, EnrichFailed, RefreshJob, Crash
<1> QED
  BY <1>1, <1>2, <1>3, <1>4, <1>5, <1>6, <1>7, <1>8 DEF SyncNext, RunStep, syncVars

\* A synchronisation is one of the ledger, however its processes interleave, are
\* interrupted, die and resume: items are taken in order and settled once, and the
\* job is closed once, when every item is settled.
THEOREM SyncImplementsLedger ==
    ASSUME ~ OverrunAllowed, ~ EarlyResume, "retry" \notin Modes
    PROVE  SyncSpec => LedgerSpec
<1>1. Inv /\ [SyncNext]_syncVars => [Ledger!Next]_<<Verdict, Closed>>
  BY LedgerSteps
<1> QED
  BY <1>1, InvInit, InvStep, LedgerInitially, PTL
  DEF SyncSpec, LedgerSpec, Ledger!Spec, Verdict, Closed

-----------------------------------------------------------------------------
(* The references of the imports *)

Reading == {"resolve", "read", "write"}
Deleting == {"select offers", "delete offers", "select refs", "delete refs", "unlink"}
Kinds(s, K) == op[s] # None /\ op[s].kind \in K

\* A session has flushed nothing yet, about the references R.
Clean(s, R) == \A r \in R : rowDraft[s][r] = Untouched

\* Where a request may be, and what it has in hand there.
Phased(s) ==
    /\ at[s] = "idle" <=> op[s] = None
    /\ at[s] = "resolve" => op[s].kind = "import"
    /\ at[s] \in {"read", "write"} => op[s].kind # "delete"
    /\ at[s] \in Deleting => op[s].kind = "delete"
    /\ Kinds(s, {"import", "brico", "gedimat"}) =>
         /\ mine[s] \in Catalogs
         /\ at[s] \in Reading => todo[s] \subseteq DOMAIN op[s].file
    /\ at[s] \in {"idle", "resolve"} \cup (Deleting \ {"unlink"}) => Clean(s, Refs)
    /\ at[s] = "read" /\ ~ Stepwise(s) => Clean(s, Refs)
    /\ at[s] \in Reading => Clean(s, todo[s])
    /\ at[s] = "write" /\ op[s].kind = "pass" =>
         \A r \in todo[s] : seen[s][r] \in Rows /\ seen[s][r].product = None
    /\ at[s] = "write" /\ op[s].kind = "reconcile" =>
         \A r \in todo[s] : seen[s][r] \in Rows /\ seen[s][r].source = "specific"
    /\ at[s] = "delete refs" =>
         \A r \in todo[s] : seen[s][r] \in Rows /\ seen[s][r].product = None
    /\ at[s] = "unlink" => \A r \in Refs : rowDraft[s][r] \in {Untouched, NoRow}

Editing == {"map", "correct", "clear"}
Feeding == {"brico", "gedimat"}
ByHand(row) == row.source = "manual" /\ row.product # None
MayDetach(s, r) == op[s].kind = "map" \/ (op[s].kind = "import" /\ r \in DOMAIN op[s].chosen)

\* What request s may make of row: it detaches only where it may, a feed keeps the
\* product, and what was decided by hand is kept.
Keeps(s, r, row, new) ==
    /\ new.product = None => row.product = None \/ MayDetach(s, r)
    /\ op[s].kind \in Feeding => new.product = row.product
    /\ ByHand(row) /\ op[s].kind \notin Editing =>
         new.product = row.product /\ new.quantity = row.quantity /\ new.source = "manual"

\* A draft, beside the committed row it will replace.
Faithful(s, r) ==
    /\ rowDraft[s][r] = NoRow =>
         op[s].kind = "delete" /\ seen[s][r] \in Rows /\ seen[s][r].product = None
    /\ rowDraft[s][r] # NoRow /\ refs[r] # NoRow =>
         /\ rowDraft[s][r].product = None => refs[r].product = None \/ MayDetach(s, r)
         /\ op[s].kind \in Feeding => rowDraft[s][r].product = refs[r].product
         /\ seen[s][r] = refs[r] => Keeps(s, r, refs[r], rowDraft[s][r])

Drafted(s) == \A r \in Refs : rowDraft[s][r] # Untouched => Faithful(s, r)

\* Two sessions never hold one row.
RowLock ==
    \A s, t \in Sessions : \A r \in Refs :
        s # t => rowDraft[s][r] = Untouched \/ rowDraft[t][r] = Untouched

RowInv == TypeOK /\ RowLock /\ \A s \in Sessions : Phased(s) /\ Drafted(s)

-----------------------------------------------------------------------------
(* Requests and rows *)

\* What the requests that name references and products are made of.
LEMMA RequestFields ==
    ASSUME NEW q \in Requests
    PROVE  /\ q.kind \in {"import", "brico", "gedimat"} => q.file \in Files
           /\ q.kind = "import" => q.chosen \in Choices
           /\ q.kind \in Editing => q.ref \in Refs
           /\ q.kind = "map" => q.product \in Products \cup {None}
           /\ q.kind = "correct" => q.quantity \in Quantities
           /\ q.kind = "delete" => q.catalog \in Catalogs
           /\ q.kind = "pass" => q.source \in {"ean", "exact_rule", "specific"}
<1>1. q \in AllRequests
    BY RequestsAssumption
<1> QED
    BY <1>1, Zenon DEF AllRequests, Editing

LEMMA FileFields ==
    ASSUME NEW f \in Files
    PROVE  /\ DOMAIN f \subseteq Refs
           /\ \A r \in DOMAIN f : f[r].code \in Products \cup {None}
                                  /\ f[r].quantity \in Quantities
BY DEF Files, Lines

LEMMA ChoiceFields ==
    ASSUME NEW c \in Choices
    PROVE  DOMAIN c \subseteq Refs /\ \A r \in DOMAIN c : c[r] \in Products \cup {None}
BY DEF Choices

\* An update of a row that has not changed since it was loaded writes what was wanted.
LEMMA UpdateFields ==
    ASSUME NEW now \in Rows, NEW loaded \in Rows, NEW wanted \in Rows
    PROVE  /\ Update(now, loaded, wanted) \in Rows
           /\ now = loaded => Update(now, loaded, wanted) = wanted
           /\ wanted.product = loaded.product =>
                Update(now, loaded, wanted).product = now.product
           /\ Update(now, loaded, wanted).product \in {now.product, wanted.product}
BY DEF Update, Rows

LEMMA CountBegun ==
    ASSUME NEW n \in 0..MaxBegun, n < MaxBegun
    PROVE  n + 1 \in 0..MaxBegun
BY MaxBegunAssumption

LEMMA RowDistinct == NoRow \notin Rows /\ Untouched \notin Rows /\ Unread \notin Rows
                     /\ NoRow # Untouched /\ NoRow # Unread
BY RowsAssumption

-----------------------------------------------------------------------------
(* Types *)

\* The rows each writer makes of one it loaded.
LEMMA ImportedType ==
    ASSUME TypeOK, NEW s \in Sessions, NEW r \in Refs, Phased(s),
           at[s] = "write", op[s].kind = "import", r \in todo[s],
           NEW row \in Rows \cup {NoRow}
    PROVE  ImportedRow(s, r, row) \in Rows
<1>1. op[s] \in Requests /\ op[s] # None
    BY DEF Phased, TypeOK
<1>2. r \in DOMAIN op[s].file /\ mine[s] \in Catalogs
    BY <1>1 DEF Phased, Kinds, Reading
<1>3. op[s].file[r].quantity \in Quantities
    BY <1>1, <1>2, RequestFields, FileFields
<1>4. plan[s][r] \in Products \cup {None}
    BY DEF TypeOK
<1>5. "import" \in Sources
    BY DEF Sources
<1>6. CASE row = NoRow
    BY <1>2, <1>3, <1>4, <1>5, <1>6 DEF ImportedRow, NewRow, Rows
<1>7. CASE row \in Rows
    BY <1>2, <1>3, <1>4, <1>5, <1>7, RowDistinct DEF ImportedRow, Rows
<1> QED
    BY <1>6, <1>7

LEMMA FedType ==
    ASSUME TypeOK, NEW s \in Sessions, NEW r \in Refs, Phased(s),
           at[s] = "write", r \in todo[s], NEW row \in Rows \cup {NoRow}
    PROVE  /\ op[s].kind = "brico" => BricoRow(s, row) \in Rows
           /\ op[s].kind = "gedimat" => GedimatRow(s, r, row) \in Rows
<1>1. op[s] \in Requests /\ op[s] # None
    BY DEF Phased, TypeOK
<1>2. op[s].kind \in {"brico", "gedimat"} => mine[s] \in Catalogs /\ r \in DOMAIN op[s].file
    BY <1>1 DEF Phased, Kinds, Reading
<1>3. op[s].kind = "gedimat" => op[s].file[r].quantity \in Quantities
    BY <1>1, <1>2, RequestFields, FileFields
<1>4. "import" \in Sources
    BY DEF Sources
<1>5. CASE row = NoRow
    BY <1>2, <1>3, <1>4, <1>5, QuantitiesAssumption
       DEF BricoRow, GedimatRow, NewRow, Rows
<1>6. CASE row \in Rows
    BY <1>2, <1>3, <1>4, <1>6, RowDistinct DEF BricoRow, GedimatRow, Linked, Rows
<1> QED
    BY <1>5, <1>6

LEMMA PassedType ==
    ASSUME TypeOK, NEW s \in Sessions, Phased(s), at[s] # "idle", NEW row \in Rows
    PROVE  /\ op[s].kind = "pass" => PassedRows(s, row) \subseteq Rows
           /\ ReconciledRows(row) \subseteq Rows
           /\ op[s].kind \in Editing => EditedRow(s, row) \in Rows
<1>1. op[s] \in Requests /\ op[s] # None
    BY DEF Phased, TypeOK
<1>2. /\ op[s].kind = "map" => op[s].product \in Products \cup {None}
      /\ op[s].kind = "correct" => op[s].quantity \in Quantities
      /\ op[s].kind = "pass" => op[s].source \in Sources
    BY <1>1, RequestFields DEF Sources, Protected
<1>3. {"manual", "equiv"} \subseteq Sources
    BY DEF Sources, Protected
<1>4. op[s].kind = "pass" => PassedRows(s, row) \subseteq Rows
    <2> SUFFICES ASSUME op[s].kind = "pass", NEW new \in PassedRows(s, row)
                 PROVE  new \in Rows
        OBVIOUS
    <2>1. CASE new = row
        BY <2>1
    <2>2. CASE new # row
        <3>1. PICK p \in Products :
                new \in {[row EXCEPT !.product = p, !.source = op[s].source, !.quantity = n] :
                         n \in IF op[s].source = "exact_rule" /\ row.quantity = 1
                               THEN Quantities ELSE {row.quantity}}
            BY <2>2 DEF PassedRows
        <3>2. PICK n \in Quantities :
                new = [row EXCEPT !.product = p, !.source = op[s].source, !.quantity = n]
            BY <3>1 DEF Rows
        <3> QED
            BY <1>2, <3>2 DEF Rows
    <2> QED
        BY <2>1, <2>2
<1>5. ReconciledRows(row) \subseteq Rows
    BY <1>3 DEF ReconciledRows, Rows
<1>6. op[s].kind \in Editing => EditedRow(s, row) \in Rows
    BY <1>2, <1>3 DEF EditedRow, Rows, Editing
<1> QED
    BY <1>4, <1>5, <1>6

\* What a session writes of a reference is a row that keeps what it must keep.
LEMMA Written ==
    ASSUME TypeOK, NEW s \in Sessions, NEW r \in Refs, Phased(s),
           WriteImported(s, r) \/ WriteRow(s, r)
    PROVE  \E row \in Rows : Flushed(s, r, row)
                             /\ (seen[s][r] \in Rows => Keeps(s, r, seen[s][r], row))
<1>1. /\ at[s] = "write" /\ r \in todo[s] /\ seen[s][r] \in Rows \cup {NoRow}
      /\ op[s] # None /\ op[s] \in Requests
    <2>1. at[s] = "write" /\ r \in todo[s] /\ seen[s][r] # Unread
        BY DEF WriteImported, WriteRow
    <2>2. seen[s][r] \in Rows \cup {NoRow, Unread} /\ op[s] \in Requests \cup {None}
        BY DEF TypeOK
    <2>3. op[s] # None
        BY <2>1 DEF Phased
    <2> QED
        BY <2>1, <2>2, <2>3
<1> DEFINE L == seen[s][r]
<1>2. CASE WriteImported(s, r)
    <2>1. op[s].kind = "import" /\ Flushed(s, r, ImportedRow(s, r, L))
        BY <1>2 DEF WriteImported
    <2>2. ImportedRow(s, r, L) \in Rows
        BY <1>1, <2>1, ImportedType
    <2>3. L \in Rows => Keeps(s, r, L, ImportedRow(s, r, L))
        <3> SUFFICES ASSUME L \in Rows PROVE Keeps(s, r, L, ImportedRow(s, r, L))
            OBVIOUS
        <3> HIDE DEF L
        <3>1. CASE L.source \in Protected
            <4>1. ImportedRow(s, r, L) = L
                BY <3>1, RowDistinct DEF ImportedRow
            <4> QED
                BY <2>1, <4>1 DEF Keeps, ByHand
        <3>2. CASE L.source \notin Protected
            <4>1. ImportedRow(s, r, L) =
                    [L EXCEPT !.product = IF r \in DOMAIN op[s].chosen \/ plan[s][r] # None
                                          THEN plan[s][r] ELSE @,
                              !.quantity = op[s].file[r].quantity,
                              !.source = "import"]
                BY <3>2, RowDistinct DEF ImportedRow
            <4>2. ~ ByHand(L)
                BY <3>2 DEF ByHand, Protected
            <4>3. ImportedRow(s, r, L).product \in {L.product, plan[s][r]}
                  /\ (ImportedRow(s, r, L).product # L.product =>
                        r \in DOMAIN op[s].chosen \/ plan[s][r] # None)
                BY <4>1 DEF Rows
            <4> QED
                BY <2>1, <4>2, <4>3 DEF Keeps, MayDetach, Feeding
        <3> QED
            BY <3>1, <3>2
    <2> QED
        BY <2>1, <2>2, <2>3
<1>3. CASE WriteRow(s, r) /\ op[s].kind = "brico"
    <2>1. Flushed(s, r, BricoRow(s, L)) /\ BricoRow(s, L) \in Rows
        BY <1>1, <1>3, FedType DEF WriteRow
    <2>2. L \in Rows => Keeps(s, r, L, BricoRow(s, L))
        BY <1>3, RowDistinct DEF Keeps, ByHand, BricoRow, Linked, Rows, Protected
    <2> QED
        BY <2>1, <2>2
<1>4. CASE WriteRow(s, r) /\ op[s].kind = "gedimat"
    <2>1. Flushed(s, r, GedimatRow(s, r, L)) /\ GedimatRow(s, r, L) \in Rows
        BY <1>1, <1>4, FedType DEF WriteRow
    <2>2. L \in Rows => Keeps(s, r, L, GedimatRow(s, r, L))
        BY <1>4, RowDistinct DEF Keeps, ByHand, GedimatRow, Linked, Rows, Protected
    <2> QED
        BY <2>1, <2>2
<1>5. CASE WriteRow(s, r) /\ op[s].kind = "pass"
    <2>1. PICK row \in PassedRows(s, L) : Flushed(s, r, row)
        BY <1>5 DEF WriteRow
    <2>2. L \in Rows /\ L.product = None
        BY <1>1, <1>5 DEF Phased
    <2>3. row \in Rows
        BY <1>1, <1>5, <2>1, <2>2, PassedType
    <2>4. Keeps(s, r, L, row)
        BY <1>5, <2>2 DEF Keeps, ByHand, Feeding
    <2> QED
        BY <2>1, <2>3, <2>4
<1>6. CASE WriteRow(s, r) /\ op[s].kind = "reconcile"
    <2>1. PICK row \in ReconciledRows(L) : Flushed(s, r, row)
        BY <1>6 DEF WriteRow
    <2>2. L \in Rows /\ L.source = "specific"
        BY <1>1, <1>6 DEF Phased
    <2>3. row \in Rows
        BY <1>1, <2>1, <2>2, PassedType
    <2>4. row = L \/ row.product \in Products
        BY <2>1, <2>2 DEF ReconciledRows, Rows
    <2>5. Keeps(s, r, L, row)
        BY <1>6, <2>2, <2>4, NoneAssumption DEF Keeps, ByHand, Feeding
    <2> QED
        BY <2>1, <2>3, <2>5
<1>7. CASE WriteRow(s, r) /\ op[s].kind \in Editing
    <2>1. ~ Refused(s, L) /\ Flushed(s, r, EditedRow(s, L))
        BY <1>7 DEF WriteRow, Editing
    <2>2. L \in Rows
        BY <1>1, <2>1 DEF Refused
    <2>3. EditedRow(s, L) \in Rows
        BY <1>1, <1>7, <2>2, PassedType
    <2>4. Keeps(s, r, L, EditedRow(s, L))
        BY <1>7, <2>2 DEF Keeps, EditedRow, MayDetach, Rows, Editing, Feeding
    <2> QED
        BY <2>1, <2>2, <2>3, <2>4
<1> QED
    BY <1>2, <1>3, <1>4, <1>5, <1>6, <1>7 DEF WriteRow, Editing

-----------------------------------------------------------------------------
(* Steps *)

\* The other sessions see nothing of a step of s but the rows it commits.
OnlyBy(s) ==
    \A t \in Sessions \ {s} :
        /\ op'[t] = op[t] /\ at'[t] = at[t] /\ todo'[t] = todo[t] /\ mine'[t] = mine[t]
        /\ seen'[t] = seen[t] /\ rowDraft'[t] = rowDraft[t]

LEMMA RowBystander ==
    ASSUME NEW s \in Sessions, NEW t \in Sessions \ {s}, OnlyBy(s), Phased(t), Drafted(t),
           \A r \in Refs : rowDraft[t][r] # Untouched => refs'[r] = refs[r]
    PROVE  Phased(t)' /\ Drafted(t)'
<1>1. /\ op'[t] = op[t] /\ at'[t] = at[t] /\ todo'[t] = todo[t] /\ mine'[t] = mine[t]
      /\ seen'[t] = seen[t] /\ rowDraft'[t] = rowDraft[t]
    BY DEF OnlyBy
<1>2. Phased(t)'
    BY <1>1 DEF Phased, Kinds, Clean, Stepwise
<1>3. Drafted(t)'
    BY <1>1 DEF Drafted, Faithful, Keeps, MayDetach
<1> QED
    BY <1>2, <1>3

\* A step that commits nothing and flushes only rows that are free.
LEMMA Composed ==
    ASSUME RowInv, TypeOK', NEW s \in Sessions, OnlyBy(s), UNCHANGED refs,
           \A r \in Refs : rowDraft'[s][r] # Untouched =>
               rowDraft[s][r] # Untouched \/ RowFree(s, r),
           Phased(s)', Drafted(s)'
    PROVE  RowInv'
<1>1. \A t \in Sessions : Phased(t)' /\ Drafted(t)'
    BY RowBystander DEF RowInv
<1>2. RowLock'
    BY DEF RowInv, RowLock, OnlyBy, RowFree
<1> QED
    BY <1>1, <1>2 DEF RowInv

\* A session that flushes nothing, and forgets nothing of what it loaded for a draft.
LEMMA NothingFlushed ==
    ASSUME RowInv, TypeOK', NEW s \in Sessions, OnlyBy(s), UNCHANGED <<refs, op, rowDraft>>,
           \A r \in Refs : rowDraft[s][r] # Untouched => seen'[s][r] = seen[s][r],
           Phased(s)'
    PROVE  RowInv'
<1>1. Drafted(s)'
    BY DEF RowInv, Drafted, Faithful, Keeps, MayDetach
<1> QED
    BY <1>1, Composed

\* A request begins.
LEMMA BeginRows ==
    ASSUME RowInv, NEW s \in Sessions, NEW q \in Requests,
           \/ BeginImport(s, q) \/ BeginFeed(s, q) \/ BeginEdit(s, q)
           \/ BeginPass(s, q) \/ BeginDelete(s, q)
    PROVE  RowInv'
<1>1. \E phase \in {"resolve", "read", "select offers"}, c \in Catalogs \cup {None},
         which \in SUBSET Refs :
        /\ Begin(s, q, phase, c, which)
        /\ phase = "resolve" => q.kind = "import"
        /\ phase = "read" => q.kind # "delete"
        /\ phase = "select offers" => q.kind = "delete"
        /\ q.kind \in {"import", "brico", "gedimat"} =>
             c \in Catalogs /\ which \subseteq DOMAIN q.file
    <2>1. q.kind \in {"import", "brico", "gedimat"} => DOMAIN q.file \subseteq Refs
        BY RequestFields, FileFields
    <2>2. CASE BeginImport(s, q)
        <3>1. PICK c \in Imports : Begin(s, q, "resolve", c, DOMAIN q.file)
            BY <2>2 DEF BeginImport
        <3>2. q.kind = "import"
            BY <2>2 DEF BeginImport
        <3> QED
            BY <2>1, <3>1, <3>2 DEF Catalogs
    <2>3. CASE BeginFeed(s, q)
        <3>1. PICK c \in Feeds : Begin(s, q, "read", c, DOMAIN q.file)
            BY <2>3 DEF BeginFeed
        <3>2. q.kind \in {"brico", "gedimat"}
            BY <2>3 DEF BeginFeed
        <3> QED
            BY <2>1, <3>1, <3>2 DEF Catalogs
    <2>4. CASE BeginEdit(s, q)
        <3>1. q.kind \in Editing /\ Begin(s, q, "read", None, {q.ref}) /\ q.ref \in Refs
            BY <2>4, RequestFields DEF BeginEdit, Editing
        <3> QED
            BY <3>1 DEF Editing
    <2>5. CASE BeginPass(s, q)
        <3>1. q.kind \in {"pass", "reconcile"} /\ Begin(s, q, "read", None, Refs)
            BY <2>5 DEF BeginPass
        <3>2. PICK which \in SUBSET Refs : Begin(s, q, "read", None, which)
            BY <3>1, Zenon
        <3> QED
            BY <3>1, <3>2
    <2>6. CASE BeginDelete(s, q)
        <3>1. q.kind = "delete" /\ Begin(s, q, "select offers", q.catalog, {})
              /\ q.catalog \in Catalogs
            BY <2>6, RequestFields DEF BeginDelete
        <3>2. PICK which \in SUBSET Refs : Begin(s, q, "select offers", q.catalog, which)
            BY <3>1, Zenon
        <3> QED
            BY <3>1, <3>2
    <2> QED
        BY <2>2, <2>3, <2>4, <2>5, <2>6
<1>2. PICK phase \in {"resolve", "read", "select offers"}, c \in Catalogs \cup {None},
           which \in SUBSET Refs :
        /\ Begin(s, q, phase, c, which)
        /\ phase = "resolve" => q.kind = "import"
        /\ phase = "read" => q.kind # "delete"
        /\ phase = "select offers" => q.kind = "delete"
        /\ q.kind \in {"import", "brico", "gedimat"} =>
             c \in Catalogs /\ which \subseteq DOMAIN q.file
    BY <1>1
<1>3. /\ at[s] = "idle" /\ begun < MaxBegun /\ begun' = begun + 1
      /\ op' = [op EXCEPT ![s] = q] /\ at' = [at EXCEPT ![s] = phase]
      /\ mine' = [mine EXCEPT ![s] = c] /\ todo' = [todo EXCEPT ![s] = which]
      /\ UNCHANGED <<refs, offers, catalogs, seen, plan, rowDraft, offerDraft>>
    BY <1>2 DEF Begin, tables
<1>4. TypeOK'
    <2>1. TypeOK /\ phase \in Phases
        BY DEF RowInv, Phases
    <2>2. begun' \in 0..MaxBegun
        <3>1. begun \in 0..MaxBegun
            BY <2>1 DEF TypeOK
        <3>2. begun < MaxBegun /\ begun' = begun + 1
            BY <1>3
        <3> QED
            BY <3>1, <3>2, CountBegun
    <2>3. /\ op' \in [Sessions -> Requests \cup {None}] /\ at' \in [Sessions -> Phases]
          /\ todo' \in [Sessions -> SUBSET Refs]
          /\ mine' \in [Sessions -> Catalogs \cup {None}]
        BY <1>3, <2>1 DEF TypeOK
    <2> QED
        BY <1>3, <2>1, <2>2, <2>3 DEF TypeOK
<1>5. /\ op'[s] = q /\ at'[s] = phase /\ mine'[s] = c /\ todo'[s] = which
      /\ OnlyBy(s)
    BY <1>3 DEF RowInv, TypeOK, OnlyBy
<1>6. Clean(s, Refs)'
    BY <1>3 DEF RowInv, Phased, Clean
<1>7. Phased(s)'
    <2>1. q # None
        BY NoneAssumption
    <2> QED
        BY <1>2, <1>5, <1>6, <2>1 DEF Phased, Kinds, Clean, Reading, Deleting
<1>8. Drafted(s)'
    BY <1>6 DEF Drafted, Clean
<1> QED
    BY <1>3, <1>4, <1>5, <1>6, <1>7, <1>8, Composed DEF Clean

\* An import resolves the products of its lines.
LEMMA ResolveRows ==
    ASSUME RowInv, NEW s \in Sessions, Resolve(s)
    PROVE  RowInv'
<1>1. /\ at[s] = "resolve" /\ at' = [at EXCEPT ![s] = "read"]
      /\ UNCHANGED <<refs, offers, catalogs, op, todo, seen, mine, rowDraft, offerDraft, begun>>
    BY DEF Resolve, tables
<1>2. TypeOK /\ Phased(s)
    BY DEF RowInv
<1>3. op[s].kind = "import" /\ op[s] \in Requests /\ op[s] # None
    BY <1>1, <1>2 DEF Phased, TypeOK
<1>4. todo[s] \subseteq DOMAIN op[s].file
    BY <1>1, <1>2, <1>3 DEF Phased, Kinds, Reading
<1>5. plan' \in [Sessions -> [Refs -> Products \cup {None}]]
    <2> DEFINE P == [r \in Refs |->
           IF r \in DOMAIN op[s].chosen THEN op[s].chosen[r]
           ELSE IF r \notin todo[s] THEN None
           ELSE IF op[s].file[r].code # None THEN op[s].file[r].code
           ELSE IF refs[r] # NoRow THEN refs[r].product ELSE None]
    <2>1. plan' = [plan EXCEPT ![s] = P]
        BY DEF Resolve
    <2>2. ASSUME NEW r \in Refs
          PROVE  P[r] \in Products \cup {None}
        <3>1. r \in DOMAIN op[s].chosen => op[s].chosen[r] \in Products \cup {None}
            BY <1>3, RequestFields, ChoiceFields
        <3>2. r \in todo[s] => op[s].file[r].code \in Products \cup {None}
            BY <1>3, <1>4, RequestFields, FileFields
        <3>3. refs[r] # NoRow => refs[r].product \in Products \cup {None}
            BY <1>2 DEF TypeOK, Rows
        <3> QED
            BY <3>1, <3>2, <3>3
    <2>3. P \in [Refs -> Products \cup {None}]
        BY <2>2
    <2> HIDE DEF P
    <2> QED
        BY <1>2, <2>1, <2>3 DEF TypeOK
<1>6. TypeOK'
    <2>1. at' \in [Sessions -> Phases]
        BY <1>1, <1>2 DEF TypeOK, Phases
    <2> QED
        BY <1>1, <1>2, <1>5, <2>1 DEF TypeOK
<1>7. OnlyBy(s) /\ at'[s] = "read"
    BY <1>1, <1>2 DEF OnlyBy, TypeOK
<1>8. Phased(s)'
    BY <1>1, <1>2, <1>3, <1>7 DEF Phased, Kinds, Clean, Stepwise, Reading, Deleting
<1> QED
    BY <1>1, <1>6, <1>7, <1>8, NothingFlushed

\* A session loads the reference it will write next.
LEMMA ReadRowRows ==
    ASSUME RowInv, NEW s \in Sessions, NEW r \in Refs, ReadRow(s, r)
    PROVE  RowInv'
<1>1. /\ at[s] = "read" /\ r \in todo[s] /\ Stepwise(s)
      /\ at' = [at EXCEPT ![s] = "write"]
      /\ seen' = [seen EXCEPT ![s][r] = RowFor(s, r)]
      /\ UNCHANGED <<refs, offers, catalogs, op, todo, plan, mine, rowDraft, offerDraft, begun>>
    BY DEF ReadRow, tables
<1>2. TypeOK /\ Phased(s)
    BY DEF RowInv
<1>3. rowDraft[s][r] = Untouched /\ RowFor(s, r) = refs[r]
    BY <1>1, <1>2 DEF Phased, Clean, Reading, RowFor
<1>4. TypeOK'
    <2>1. at' \in [Sessions -> Phases]
        BY <1>1, <1>2 DEF TypeOK, Phases
    <2>2. seen' \in [Sessions -> [Refs -> Rows \cup {NoRow, Unread}]]
        BY <1>1, <1>2, <1>3 DEF TypeOK
    <2> QED
        BY <1>1, <1>2, <2>1, <2>2 DEF TypeOK
<1>5. OnlyBy(s) /\ at'[s] = "write" /\ \A x \in Refs \ {r} : seen'[s][x] = seen[s][x]
    BY <1>1, <1>2 DEF OnlyBy, TypeOK
<1>6. op[s].kind \notin {"pass", "reconcile"}
    BY <1>1 DEF Stepwise
<1>7. Phased(s)'
    BY <1>1, <1>2, <1>5, <1>6 DEF Phased, Kinds, Clean, Reading, Deleting
<1> QED
    BY <1>1, <1>3, <1>4, <1>5, <1>7, NothingFlushed

\* The Gedimat feed and the passes load everything first.
LEMMA ReadAllRows ==
    ASSUME RowInv, NEW s \in Sessions, ReadAll(s)
    PROVE  RowInv'
<1> DEFINE R == {r \in Refs : Wanted(s, r)}
<1>1. /\ at[s] = "read" /\ ~ Stepwise(s)
      /\ at' = [at EXCEPT ![s] = IF R = {} THEN "commit" ELSE "write"]
      /\ todo' = [todo EXCEPT ![s] = R]
      /\ seen' = [seen EXCEPT ![s] = [r \in Refs |-> IF r \in R THEN refs[r] ELSE Unread]]
      /\ UNCHANGED <<refs, offers, catalogs, op, plan, mine, rowDraft, offerDraft, begun>>
    BY DEF ReadAll, tables
<1>2. TypeOK /\ Phased(s) /\ R \subseteq Refs
    BY DEF RowInv
<1>3. /\ op[s].kind = "gedimat" => R \subseteq todo[s]
      /\ op[s].kind = "pass" => \A r \in R : refs[r] # NoRow /\ refs[r].product = None
      /\ op[s].kind = "reconcile" => \A r \in R : refs[r] # NoRow /\ refs[r].source = "specific"
    BY DEF Wanted
<1> HIDE DEF R
<1>4. TypeOK'
    <2>1. at' \in [Sessions -> Phases] /\ todo' \in [Sessions -> SUBSET Refs]
        BY <1>1, <1>2 DEF TypeOK, Phases
    <2>2. seen' \in [Sessions -> [Refs -> Rows \cup {NoRow, Unread}]]
        BY <1>1, <1>2 DEF TypeOK
    <2> QED
        BY <1>1, <1>2, <2>1, <2>2 DEF TypeOK
<1>5. /\ OnlyBy(s) /\ at'[s] \in {"commit", "write"} /\ todo'[s] = R
      /\ \A r \in R : seen'[s][r] = refs[r]
    BY <1>1, <1>2 DEF OnlyBy, TypeOK
<1>6. Clean(s, Refs)
    BY <1>1, <1>2 DEF Phased
<1>7. op[s].kind \notin {"import", "brico"} /\ op[s].kind # "delete"
    BY <1>1, <1>2 DEF Stepwise, Phased
<1>8. \A r \in R : refs[r] \in Rows \cup {NoRow}
    BY <1>2 DEF TypeOK
<1>9. Phased(s)'
    BY <1>1, <1>2, <1>3, <1>5, <1>6, <1>7, <1>8
       DEF Phased, Kinds, Clean, Reading, Deleting
<1> QED
    BY <1>1, <1>4, <1>5, <1>6, <1>9, NothingFlushed DEF Clean

\* A row is flushed over the committed one, which stays what it is until the end.
LEMMA FlushedRow ==
    ASSUME TypeOK, NEW s \in Sessions, NEW r \in Refs, rowDraft[s][r] = Untouched,
           seen[s][r] # Unread, NEW row \in Rows, Flushed(s, r, row),
           seen[s][r] \in Rows => Keeps(s, r, seen[s][r], row)
    PROVE  /\ rowDraft' \in [Sessions -> [Refs -> Rows \cup {NoRow, Untouched}]]
           /\ \A t \in Sessions, x \in Refs : <<t, x>> # <<s, r>> => rowDraft'[t][x] = rowDraft[t][x]
           /\ rowDraft'[s][r] # Untouched => RowFree(s, r) /\ rowDraft'[s][r] \in Rows
           /\ rowDraft'[s][r] # Untouched /\ refs[r] # NoRow =>
                /\ rowDraft'[s][r].product = None => refs[r].product = None \/ MayDetach(s, r)
                /\ op[s].kind \in Feeding => rowDraft'[s][r].product = refs[r].product
                /\ seen[s][r] = refs[r] => Keeps(s, r, refs[r], rowDraft'[s][r])
<1>1. /\ refs[r] \in Rows \cup {NoRow} /\ seen[s][r] \in Rows \cup {NoRow}
      /\ rowDraft \in [Sessions -> [Refs -> Rows \cup {NoRow, Untouched}]]
    BY DEF TypeOK
<1>2. RowFor(s, r) = refs[r]
    BY DEF RowFor
<1>3. CASE rowDraft' = rowDraft
    BY <1>1, <1>3
<1>4. CASE rowDraft' # rowDraft
    <2> DEFINE d == IF seen[s][r] = NoRow THEN row ELSE Update(refs[r], seen[s][r], row)
    <2>1. /\ RowFree(s, r) /\ (seen[s][r] = NoRow <=> refs[r] = NoRow)
          /\ rowDraft' = [rowDraft EXCEPT ![s][r] = d]
        BY <1>2, <1>4 DEF Flushed
    <2>2. d \in Rows
        BY <1>1, <2>1, UpdateFields
    <2>3. refs[r] # NoRow =>
            /\ refs[r] \in Rows /\ seen[s][r] \in Rows
            /\ seen[s][r] = refs[r] => d = row
            /\ row.product = seen[s][r].product => d.product = refs[r].product
            /\ d.product \in {refs[r].product, row.product}
        BY <1>1, <2>1, UpdateFields
    <2> HIDE DEF d
    <2>4. rowDraft'[s][r] = d
        BY <1>1, <2>1
    <2>5. refs[r] # NoRow =>
            /\ d.product = None => refs[r].product = None \/ MayDetach(s, r)
            /\ op[s].kind \in Feeding => d.product = refs[r].product
            /\ seen[s][r] = refs[r] => Keeps(s, r, refs[r], d)
        BY <2>3 DEF Keeps
    <2> QED
        BY <1>1, <2>1, <2>2, <2>4, <2>5
<1> QED
    BY <1>3, <1>4

\* The offer of an import.
LEMMA ImportedOffer ==
    ASSUME TypeOK, NEW s \in Sessions, NEW r \in Refs, Phased(s), WriteImported(s, r)
    PROVE  offerDraft' \in [Sessions -> [Refs -> Offers \cup {NoRow, Untouched}]]
<1> DEFINE row == ImportedRow(s, r, seen[s][r])
           offer == [catalog |-> mine[s], packed |-> StockedIn(s, r, row)]
<1>1. /\ at[s] = "write" /\ op[s].kind = "import" /\ r \in todo[s] /\ seen[s][r] # Unread
      /\ offerDraft' \in {offerDraft, [offerDraft EXCEPT ![s][r] = offer]}
    BY DEF WriteImported
<1>2. seen[s][r] \in Rows \cup {NoRow} /\ op[s] # None
    BY <1>1 DEF TypeOK, Phased
<1>3. row \in Rows
    BY <1>1, <1>2, ImportedType
<1>4. mine[s] \in Catalogs
    BY <1>1, <1>2 DEF Phased, Kinds
<1>5. offer \in Offers
    BY <1>3, <1>4 DEF Offers, StockedIn, Rows
<1> HIDE DEF offer
<1>6. offerDraft \in [Sessions -> [Refs -> Offers \cup {NoRow, Untouched}]]
    BY DEF TypeOK
<1> QED
    BY <1>1, <1>5, <1>6

\* A session writes the reference it loaded.
LEMMA WriteRows ==
    ASSUME RowInv, NEW s \in Sessions, NEW r \in Refs,
           WriteImported(s, r) \/ WriteRow(s, r)
    PROVE  RowInv'
<1>1. TypeOK /\ Phased(s) /\ Drafted(s)
    BY DEF RowInv
<1>2. /\ at[s] = "write" /\ r \in todo[s] /\ seen[s][r] # Unread
      /\ todo' = [todo EXCEPT ![s] = @ \ {r}]
      /\ \E p \in {"read", "write", "commit"} :
           at' = [at EXCEPT ![s] = p] /\ (p = "read" => Stepwise(s))
      /\ UNCHANGED <<refs, offers, catalogs, op, seen, plan, mine, begun>>
    BY DEF WriteImported, WriteRow, Next1, tables
<1>3. rowDraft[s][r] = Untouched
    BY <1>1, <1>2 DEF Phased, Clean, Reading
<1>4. PICK row \in Rows : Flushed(s, r, row)
                          /\ (seen[s][r] \in Rows => Keeps(s, r, seen[s][r], row))
    BY <1>1, Written
<1>5. /\ rowDraft' \in [Sessions -> [Refs -> Rows \cup {NoRow, Untouched}]]
      /\ \A t \in Sessions, x \in Refs : <<t, x>> # <<s, r>> => rowDraft'[t][x] = rowDraft[t][x]
      /\ rowDraft'[s][r] # Untouched => RowFree(s, r) /\ rowDraft'[s][r] \in Rows
      /\ rowDraft'[s][r] # Untouched /\ refs[r] # NoRow =>
           /\ rowDraft'[s][r].product = None => refs[r].product = None \/ MayDetach(s, r)
           /\ op[s].kind \in Feeding => rowDraft'[s][r].product = refs[r].product
           /\ seen[s][r] = refs[r] => Keeps(s, r, refs[r], rowDraft'[s][r])
    BY <1>1, <1>2, <1>3, <1>4, FlushedRow
<1>6. TypeOK'
    <2>1. offerDraft' \in [Sessions -> [Refs -> Offers \cup {NoRow, Untouched}]]
        <3>1. CASE WriteImported(s, r)
            BY <1>1, <3>1, ImportedOffer
        <3>2. CASE WriteRow(s, r)
            BY <1>1, <3>2 DEF WriteRow, TypeOK
        <3> QED
            BY <3>1, <3>2
    <2>2. at' \in [Sessions -> Phases] /\ todo' \in [Sessions -> SUBSET Refs]
        BY <1>1, <1>2 DEF TypeOK, Phases
    <2> QED
        BY <1>1, <1>2, <1>5, <2>1, <2>2 DEF TypeOK
<1>7. PICK p \in {"read", "write", "commit"} :
        at' = [at EXCEPT ![s] = p] /\ (p = "read" => Stepwise(s))
    BY <1>2
<1>8. /\ at'[s] = p /\ todo'[s] = todo[s] \ {r}
      /\ \A x \in Refs \ {r} : rowDraft'[s][x] = rowDraft[s][x]
    BY <1>1, <1>2, <1>5, <1>7 DEF TypeOK
<1>9. OnlyBy(s)
    <2>1. \A t \in Sessions \ {s} : rowDraft'[t] = rowDraft[t]
        BY <1>1, <1>5 DEF TypeOK
    <2> QED
        BY <1>1, <1>2, <1>7, <2>1 DEF OnlyBy, TypeOK
<1>10. Phased(s)'
    <2>1. todo[s] \subseteq Refs
        BY <1>1 DEF TypeOK
    <2>2. Clean(s, todo[s])
        BY <1>1, <1>2 DEF Phased, Reading
    <2>3. Clean(s, todo[s])'
        BY <1>8, <2>1, <2>2 DEF Clean
    <2>4. (p = "read" => Stepwise(s))' /\ op[s].kind # "delete" /\ op[s] # None
        BY <1>1, <1>2, <1>7 DEF Phased, Stepwise
    <2> QED
        BY <1>1, <1>2, <1>7, <1>8, <2>3, <2>4
           DEF Phased, Kinds, Clean, Stepwise, Reading, Deleting
<1>11. Drafted(s)'
    <2>1. ASSUME NEW x \in Refs \ {r}, rowDraft'[s][x] # Untouched
          PROVE  Faithful(s, x)'
        <3>1. Faithful(s, x)
            BY <1>1, <1>8, <2>1 DEF Drafted
        <3> QED
            BY <1>2, <1>8, <3>1 DEF Faithful, Keeps, MayDetach
    <2>2. ASSUME rowDraft'[s][r] # Untouched
          PROVE  Faithful(s, r)'
        <3>1. rowDraft'[s][r] # NoRow
            BY <1>5, <2>2, RowDistinct
        <3> QED
            BY <1>2, <1>5, <2>2, <3>1 DEF Faithful, Keeps, MayDetach
    <2> QED
        BY <2>1, <2>2 DEF Drafted
<1> QED
    BY <1>2, <1>5, <1>6, <1>8, <1>9, <1>10, <1>11, Composed

\* What a session is left with at the end.
LEMMA EndRows ==
    ASSUME TypeOK, NEW s \in Sessions, Idle(s)
    PROVE  /\ OnlyBy(s) /\ Phased(s)' /\ Drafted(s)' /\ Clean(s, Refs)'
           /\ op' \in [Sessions -> Requests \cup {None}]
           /\ at' \in [Sessions -> Phases]
           /\ todo' \in [Sessions -> SUBSET Refs]
           /\ seen' \in [Sessions -> [Refs -> Rows \cup {NoRow, Unread}]]
           /\ plan' \in [Sessions -> [Refs -> Products \cup {None}]]
           /\ mine' \in [Sessions -> Catalogs \cup {None}]
           /\ rowDraft' \in [Sessions -> [Refs -> Rows \cup {NoRow, Untouched}]]
           /\ offerDraft' \in [Sessions -> [Refs -> Offers \cup {NoRow, Untouched}]]
<1>1. /\ op' = [op EXCEPT ![s] = None] /\ at' = [at EXCEPT ![s] = "idle"]
      /\ todo' = [todo EXCEPT ![s] = {}] /\ mine' = [mine EXCEPT ![s] = None]
      /\ seen' = [seen EXCEPT ![s] = [r \in Refs |-> Unread]]
      /\ plan' = [plan EXCEPT ![s] = [r \in Refs |-> None]]
      /\ rowDraft' = [rowDraft EXCEPT ![s] = [r \in Refs |-> Untouched]]
      /\ offerDraft' = [offerDraft EXCEPT ![s] = [r \in Refs |-> Untouched]]
    BY DEF Idle
<1>2. /\ op' \in [Sessions -> Requests \cup {None}]
      /\ at' \in [Sessions -> Phases]
      /\ todo' \in [Sessions -> SUBSET Refs]
      /\ mine' \in [Sessions -> Catalogs \cup {None}]
    BY <1>1 DEF TypeOK, Phases
<1>3. /\ seen' \in [Sessions -> [Refs -> Rows \cup {NoRow, Unread}]]
      /\ plan' \in [Sessions -> [Refs -> Products \cup {None}]]
    BY <1>1 DEF TypeOK
<1>4. /\ rowDraft' \in [Sessions -> [Refs -> Rows \cup {NoRow, Untouched}]]
      /\ offerDraft' \in [Sessions -> [Refs -> Offers \cup {NoRow, Untouched}]]
    BY <1>1 DEF TypeOK
<1>5. OnlyBy(s)
    BY <1>1 DEF OnlyBy, TypeOK
<1>6. Clean(s, Refs)' /\ at'[s] = "idle" /\ op'[s] = None
    BY <1>1 DEF Clean, TypeOK
<1>7. Phased(s)' /\ Drafted(s)'
    BY <1>6 DEF Phased, Kinds, Clean, Drafted, Reading, Deleting
<1> QED
    BY <1>2, <1>3, <1>4, <1>5, <1>6, <1>7

\* A transaction rolled back.
LEMMA RollbackRows ==
    ASSUME RowInv, NEW s \in Sessions, Idle(s), UNCHANGED <<tables, begun>>
    PROVE  RowInv'
<1>1. TypeOK /\ UNCHANGED <<refs, offers, catalogs, begun>>
    BY DEF RowInv, tables
<1>2. TypeOK'
    BY <1>1, EndRows DEF TypeOK
<1> QED
    BY <1>1, <1>2, EndRows, Composed DEF Clean

\* The offers of a deletion.
LEMMA OffersRows ==
    ASSUME RowInv, NEW s \in Sessions, SelectOffers(s) \/ DeleteOffers(s)
    PROVE  RowInv'
<1>1. TypeOK /\ Phased(s)
    BY DEF RowInv
<1>2. /\ at[s] \in {"select offers", "delete offers"}
      /\ \E p \in {"delete offers", "select refs"} : at' = [at EXCEPT ![s] = p]
      /\ UNCHANGED <<refs, offers, catalogs, op, seen, plan, mine, rowDraft, begun>>
    BY DEF SelectOffers, DeleteOffers, tables
<1>3. todo' \in [Sessions -> SUBSET Refs] /\ \A t \in Sessions \ {s} : todo'[t] = todo[t]
    <2>1. CASE SelectOffers(s)
        <3> DEFINE R == {r \in Refs : offers[r] # NoRow /\ offers[r].catalog = mine[s]}
        <3>1. todo' = [todo EXCEPT ![s] = R] /\ R \subseteq Refs
            BY <2>1 DEF SelectOffers
        <3> HIDE DEF R
        <3> QED
            BY <1>1, <3>1 DEF TypeOK
    <2>2. CASE DeleteOffers(s)
        BY <1>1, <2>2 DEF DeleteOffers, TypeOK
    <2> QED
        BY <2>1, <2>2
<1>4. offerDraft' \in [Sessions -> [Refs -> Offers \cup {NoRow, Untouched}]]
    <2>1. CASE SelectOffers(s)
        BY <1>1, <2>1 DEF SelectOffers, TypeOK
    <2>2. CASE DeleteOffers(s)
        BY <1>1, <2>2 DEF DeleteOffers, TypeOK
    <2> QED
        BY <2>1, <2>2
<1>5. PICK p \in {"delete offers", "select refs"} : at' = [at EXCEPT ![s] = p]
    BY <1>2
<1>6. TypeOK'
    <2>1. at' \in [Sessions -> Phases]
        BY <1>1, <1>5 DEF TypeOK, Phases
    <2> QED
        BY <1>1, <1>2, <1>3, <1>4, <2>1 DEF TypeOK
<1>7. OnlyBy(s) /\ at'[s] = p
    BY <1>1, <1>2, <1>3, <1>5 DEF OnlyBy, TypeOK
<1>8. Phased(s)'
    <2>1. op[s].kind = "delete" /\ op[s] # None /\ Clean(s, Refs)
        BY <1>1, <1>2 DEF Phased, Deleting
    <2> QED
        BY <1>1, <1>2, <1>7, <2>1 DEF Phased, Kinds, Clean, Reading, Deleting
<1> QED
    BY <1>2, <1>6, <1>7, <1>8, NothingFlushed

\* The references of a deletion: those without a product that it brought.
LEMMA SelectOrphansRows ==
    ASSUME RowInv, NEW s \in Sessions, SelectOrphans(s)
    PROVE  RowInv'
<1> DEFINE R == {r \in Refs : /\ Introduced(s, r) /\ refs[r].product = None
                              /\ OfferFor(s, r) = NoRow}
<1>1. /\ at[s] = "select refs" /\ at' = [at EXCEPT ![s] = "delete refs"]
      /\ todo' = [todo EXCEPT ![s] = R]
      /\ seen' = [seen EXCEPT ![s] = [r \in Refs |-> IF r \in R THEN refs[r] ELSE Unread]]
      /\ UNCHANGED <<refs, offers, catalogs, op, plan, mine, rowDraft, offerDraft, begun>>
    BY DEF SelectOrphans, tables
<1>2. TypeOK /\ Phased(s) /\ R \subseteq Refs
    BY DEF RowInv
<1>3. op[s].kind = "delete" /\ op[s] # None /\ Clean(s, Refs)
    BY <1>1, <1>2 DEF Phased, Deleting
<1>4. \A r \in R : refs[r] \in Rows /\ refs[r].product = None
    <2>1. \A r \in Refs : RowFor(s, r) = refs[r] /\ refs[r] \in Rows \cup {NoRow}
        BY <1>2, <1>3 DEF RowFor, Clean, TypeOK
    <2> QED
        BY <2>1 DEF Introduced
<1> HIDE DEF R
<1>5. TypeOK'
    <2>1. at' \in [Sessions -> Phases] /\ todo' \in [Sessions -> SUBSET Refs]
        BY <1>1, <1>2 DEF TypeOK, Phases
    <2>2. seen' \in [Sessions -> [Refs -> Rows \cup {NoRow, Unread}]]
        BY <1>1, <1>2, <1>4 DEF TypeOK
    <2> QED
        BY <1>1, <1>2, <2>1, <2>2 DEF TypeOK
<1>6. /\ OnlyBy(s) /\ at'[s] = "delete refs" /\ todo'[s] = R
      /\ \A r \in R : seen'[s][r] = refs[r]
    BY <1>1, <1>2 DEF OnlyBy, TypeOK
<1>7. Phased(s)'
    BY <1>1, <1>2, <1>3, <1>4, <1>6 DEF Phased, Kinds, Clean, Reading, Deleting
<1> QED
    BY <1>1, <1>3, <1>5, <1>6, <1>7, NothingFlushed DEF Clean

LEMMA DeleteOrphansRows ==
    ASSUME RowInv, NEW s \in Sessions, DeleteOrphans(s)
    PROVE  RowInv'
<1>1. /\ at[s] = "delete refs" /\ at' = [at EXCEPT ![s] = "unlink"]
      /\ \A r \in todo[s] : RowFree(s, r)
      /\ rowDraft' = [rowDraft EXCEPT ![s] = [r \in Refs |->
             IF r \in todo[s] /\ refs[r] # NoRow THEN NoRow ELSE @[r]]]
      /\ UNCHANGED <<refs, offers, catalogs, op, todo, seen, plan, mine, offerDraft, begun>>
    BY DEF DeleteOrphans, tables
<1>2. TypeOK /\ Phased(s)
    BY DEF RowInv
<1>3. op[s].kind = "delete" /\ op[s] # None /\ Clean(s, Refs)
    BY <1>1, <1>2 DEF Phased, Deleting
<1>4. \A r \in todo[s] : seen[s][r] \in Rows /\ seen[s][r].product = None
    BY <1>1, <1>2 DEF Phased
<1>5. \A r \in Refs : rowDraft'[s][r] = Untouched \/ (rowDraft'[s][r] = NoRow /\ r \in todo[s])
    BY <1>1, <1>2, <1>3 DEF Clean, TypeOK
<1>6. TypeOK'
    <2>1. at' \in [Sessions -> Phases]
        BY <1>1, <1>2 DEF TypeOK, Phases
    <2>2. rowDraft' \in [Sessions -> [Refs -> Rows \cup {NoRow, Untouched}]]
        BY <1>1, <1>2 DEF TypeOK
    <2> QED
        BY <1>1, <1>2, <2>1, <2>2 DEF TypeOK
<1>7. OnlyBy(s) /\ at'[s] = "unlink"
    BY <1>1, <1>2 DEF OnlyBy, TypeOK
<1>8. Phased(s)'
    BY <1>1, <1>2, <1>3, <1>5, <1>7 DEF Phased, Kinds, Clean, Reading, Deleting
<1>9. Drafted(s)'
    BY <1>1, <1>3, <1>4, <1>5 DEF Drafted, Faithful
<1> QED
    BY <1>1, <1>5, <1>6, <1>7, <1>8, <1>9, Composed

\* Those it keeps no longer name its catalogue.
LEMMA UnlinkRows ==
    ASSUME RowInv, NEW s \in Sessions, Unlink(s)
    PROVE  RowInv'
<1>1. /\ at[s] = "unlink" /\ at' = [at EXCEPT ![s] = "commit"]
      /\ \A r \in Refs : Introduced(s, r) => RowFree(s, r)
      /\ seen' = [seen EXCEPT ![s] = [r \in Refs |->
             IF Introduced(s, r) THEN RowFor(s, r) ELSE @[r]]]
      /\ rowDraft' = [rowDraft EXCEPT ![s] = [r \in Refs |->
             IF Introduced(s, r) THEN [RowFor(s, r) EXCEPT !.intro = None] ELSE @[r]]]
      /\ UNCHANGED <<refs, offers, catalogs, op, todo, plan, mine, offerDraft, begun>>
    BY DEF Unlink, tables
<1>2. TypeOK /\ Phased(s) /\ Drafted(s)
    BY DEF RowInv
<1>3. op[s].kind = "delete" /\ op[s] # None
    BY <1>1, <1>2 DEF Phased, Deleting
<1>4. \A r \in Refs : Introduced(s, r) => RowFor(s, r) = refs[r] /\ refs[r] \in Rows
    <2> SUFFICES ASSUME NEW r \in Refs, Introduced(s, r)
                 PROVE  RowFor(s, r) = refs[r] /\ refs[r] \in Rows
        OBVIOUS
    <2>1. rowDraft[s][r] \in {Untouched, NoRow} /\ refs[r] \in Rows \cup {NoRow}
        BY <1>1, <1>2 DEF Phased, TypeOK
    <2> QED
        BY <2>1 DEF Introduced, RowFor
<1>5. ASSUME NEW r \in Refs, Introduced(s, r)
      PROVE  /\ seen'[s][r] = refs[r]
             /\ rowDraft'[s][r] \in Rows
             /\ rowDraft'[s][r].product = refs[r].product
             /\ rowDraft'[s][r].quantity = refs[r].quantity
             /\ rowDraft'[s][r].source = refs[r].source
    <2>1. refs[r] \in Rows /\ seen'[s][r] = refs[r]
          /\ rowDraft'[s][r] = [refs[r] EXCEPT !.intro = None]
        BY <1>1, <1>2, <1>4, <1>5 DEF TypeOK
    <2> QED
        BY <2>1 DEF Rows
<1>6. ASSUME NEW r \in Refs, ~ Introduced(s, r)
      PROVE  seen'[s][r] = seen[s][r] /\ rowDraft'[s][r] = rowDraft[s][r]
    BY <1>1, <1>2, <1>6 DEF TypeOK
<1>7. TypeOK'
    <2>1. at' \in [Sessions -> Phases]
        BY <1>1, <1>2 DEF TypeOK, Phases
    <2>2. seen' \in [Sessions -> [Refs -> Rows \cup {NoRow, Unread}]]
        BY <1>1, <1>2, <1>4 DEF TypeOK
    <2>3. \A r \in Refs : Introduced(s, r) => [RowFor(s, r) EXCEPT !.intro = None] \in Rows
        BY <1>4 DEF Rows
    <2>4. rowDraft' \in [Sessions -> [Refs -> Rows \cup {NoRow, Untouched}]]
        BY <1>1, <1>2, <2>3 DEF TypeOK
    <2> QED
        BY <1>1, <1>2, <2>1, <2>2, <2>4 DEF TypeOK
<1>8. OnlyBy(s) /\ at'[s] = "commit"
    BY <1>1, <1>2 DEF OnlyBy, TypeOK
<1>9. Phased(s)'
    BY <1>1, <1>2, <1>3, <1>8 DEF Phased, Kinds, Clean, Reading, Deleting
<1>10. Drafted(s)'
    <2>1. ASSUME NEW r \in Refs, Introduced(s, r)
          PROVE  Faithful(s, r)'
        BY <1>1, <1>3, <1>5, <2>1, RowDistinct DEF Faithful, Keeps, ByHand, Feeding
    <2>2. ASSUME NEW r \in Refs, ~ Introduced(s, r), rowDraft'[s][r] # Untouched
          PROVE  Faithful(s, r)'
        <3>1. Faithful(s, r)
            BY <1>2, <1>6, <2>2 DEF Drafted
        <3> QED
            BY <1>1, <1>6, <2>2, <3>1 DEF Faithful, Keeps, MayDetach
    <2> QED
        BY <2>1, <2>2 DEF Drafted
<1> QED
    BY <1>1, <1>6, <1>7, <1>8, <1>9, <1>10, Composed

\* A transaction commits its drafts: the rows under those of the others are not its.
LEMMA CommitRows ==
    ASSUME RowInv, NEW s \in Sessions, Commit(s)
    PROVE  RowInv'
<1>1. /\ Idle(s) /\ UNCHANGED begun
      /\ refs' = [r \in Refs |-> RowFor(s, r)]
      /\ offers' = [r \in Refs |-> OfferFor(s, r)]
      /\ catalogs' = [c \in Catalogs |->
             IF c # mine[s] THEN catalogs[c]
             ELSE IF op[s].kind = "delete" THEN "deleted"
             ELSE IF catalogs[c] = "none" THEN "present" ELSE catalogs[c]]
    BY DEF Commit
<1>2. TypeOK
    BY DEF RowInv
<1>3. TypeOK'
    <2>1. refs' \in [Refs -> Rows \cup {NoRow}]
        <3>1. \A r \in Refs : RowFor(s, r) \in Rows \cup {NoRow}
            BY <1>2 DEF RowFor, TypeOK
        <3> QED
            BY <1>1, <3>1
    <2>2. offers' \in [Refs -> Offers \cup {NoRow}]
        <3>1. \A r \in Refs : OfferFor(s, r) \in Offers \cup {NoRow}
            BY <1>2 DEF OfferFor, TypeOK
        <3> QED
            BY <1>1, <3>1
    <2>3. catalogs' \in [Catalogs -> {"none", "present", "deleted"}]
        <3>1. catalogs \in [Catalogs -> {"none", "present", "deleted"}]
            BY <1>2 DEF TypeOK
        <3> QED
            BY <1>1, <3>1
    <2>4. begun' \in 0..MaxBegun
        BY <1>1, <1>2, Zenon DEF TypeOK
    <2> QED
        BY <1>1, <1>2, <2>1, <2>2, <2>3, <2>4, EndRows DEF TypeOK
<1>4. ASSUME NEW t \in Sessions \ {s}, NEW r \in Refs, rowDraft[t][r] # Untouched
      PROVE  refs'[r] = refs[r]
    <2>1. rowDraft[s][r] = Untouched
        BY <1>4 DEF RowInv, RowLock
    <2> QED
        BY <1>1, <2>1 DEF RowFor
<1>5. OnlyBy(s) /\ Phased(s)' /\ Drafted(s)' /\ Clean(s, Refs)'
    BY <1>1, <1>2, EndRows
<1>6. \A t \in Sessions \ {s} : Phased(t)' /\ Drafted(t)'
    BY <1>4, <1>5, RowBystander DEF RowInv
<1>7. RowLock'
    BY <1>5 DEF RowInv, RowLock, OnlyBy, Clean
<1> QED
    BY <1>3, <1>5, <1>6, <1>7 DEF RowInv

-----------------------------------------------------------------------------
(* The specification *)

LEMMA InitRows == Init => RowInv
<1> SUFFICES ASSUME Init PROVE RowInv
    OBVIOUS
<1>1. TypeOK
    <2>1. begun \in 0..MaxBegun
        BY MaxBegunAssumption DEF Init
    <2> QED
        BY <2>1 DEF Init, TypeOK, Phases
<1>2. RowLock
    BY DEF Init, RowLock
<1>3. \A s \in Sessions : Phased(s) /\ Drafted(s)
    BY DEF Init, Phased, Kinds, Clean, Drafted, Reading, Deleting
<1> QED
    BY <1>1, <1>2, <1>3 DEF RowInv

\* Every step of every request.
LEMMA StepRows == RowInv /\ [Next]_vars => RowInv'
<1> SUFFICES ASSUME RowInv, [Next]_vars
             PROVE  RowInv'
    OBVIOUS
<1>1. CASE UNCHANGED vars
    <2>1. UNCHANGED <<refs, offers, catalogs, op, at, todo, seen, plan, mine, rowDraft,
                      offerDraft, begun>>
        BY <1>1 DEF vars, tables, session
    <2>2. TypeOK' /\ RowLock'
        BY <2>1 DEF RowInv, TypeOK, RowLock
    <2>3. ASSUME NEW s \in Sessions
          PROVE  Phased(s)' /\ Drafted(s)'
        <3>1. Phased(s) /\ Drafted(s)
            BY DEF RowInv
        <3>2. Phased(s)'
            BY <2>1, <3>1 DEF Phased, Kinds, Clean, Stepwise
        <3>3. Drafted(s)'
            BY <2>1, <3>1 DEF Drafted, Faithful, Keeps, MayDetach
        <3> QED
            BY <3>2, <3>3
    <2> QED
        BY <2>2, <2>3 DEF RowInv
<1>2. CASE Next
    <2>1. PICK s \in Sessions :
            \/ \E q \in Requests :
                 \/ BeginImport(s, q) \/ BeginFeed(s, q) \/ BeginEdit(s, q)
                 \/ BeginPass(s, q) \/ BeginDelete(s, q)
            \/ Resolve(s) \/ ReadAll(s)
            \/ \E r \in Refs : ReadRow(s, r) \/ WriteImported(s, r) \/ WriteRow(s, r)
            \/ Refuse(s)
            \/ SelectOffers(s) \/ DeleteOffers(s) \/ SelectOrphans(s)
            \/ DeleteOrphans(s) \/ Unlink(s)
            \/ Commit(s) \/ Fails(s)
        BY <1>2 DEF Next
    <2>2. CASE \E q \in Requests :
                 \/ BeginImport(s, q) \/ BeginFeed(s, q) \/ BeginEdit(s, q)
                 \/ BeginPass(s, q) \/ BeginDelete(s, q)
        BY <2>2, BeginRows
    <2>3. CASE Resolve(s) \/ ReadAll(s)
        BY <2>3, ResolveRows, ReadAllRows
    <2>4. CASE \E r \in Refs : ReadRow(s, r) \/ WriteImported(s, r) \/ WriteRow(s, r)
        BY <2>4, ReadRowRows, WriteRows
    <2>5. CASE Refuse(s) \/ Fails(s)
        BY <2>5, RollbackRows DEF Refuse, Fails
    <2>6. CASE SelectOffers(s) \/ DeleteOffers(s)
        BY <2>6, OffersRows
    <2>7. CASE SelectOrphans(s) \/ DeleteOrphans(s) \/ Unlink(s)
        BY <2>7, SelectOrphansRows, DeleteOrphansRows, UnlinkRows
    <2>8. CASE Commit(s)
        BY <2>8, CommitRows
    <2> QED
        BY <2>1, <2>2, <2>3, <2>4, <2>5, <2>6, <2>7, <2>8
<1> QED
    BY <1>1, <1>2

LEMMA RowInvariant == Spec => []RowInv
BY InitRows, StepRows, PTL DEF Spec

\* The types of the tables and of the sessions.
THEOREM TypeCorrect == Spec => []TypeOK
<1>1. RowInv => TypeOK
    BY DEF RowInv
<1> QED
    BY <1>1, RowInvariant, PTL

\* What a commit makes of a row.
LEMMA CommittedRow ==
    ASSUME RowInv, [Next]_vars, NEW s \in Sessions, NEW r \in Refs, Commits(s)
    PROVE  /\ op[s] # None /\ Drafted(s)
           /\ refs'[r] = RowFor(s, r) /\ offers'[r] = OfferFor(s, r)
<1>1. TypeOK /\ Phased(s) /\ Drafted(s)
    BY DEF RowInv
<1>2. at[s] = "commit" /\ at'[s] = "idle" /\ tables' # tables
    BY DEF Commits
<1>3. Next
    BY <1>2 DEF vars
<1>4. \E t \in Sessions : Commit(t)
    <2>1. PICK t \in Sessions :
            \/ \E q \in Requests :
                 \/ BeginImport(t, q) \/ BeginFeed(t, q) \/ BeginEdit(t, q)
                 \/ BeginPass(t, q) \/ BeginDelete(t, q)
            \/ Resolve(t) \/ ReadAll(t)
            \/ \E x \in Refs : ReadRow(t, x) \/ WriteImported(t, x) \/ WriteRow(t, x)
            \/ Refuse(t)
            \/ SelectOffers(t) \/ DeleteOffers(t) \/ SelectOrphans(t)
            \/ DeleteOrphans(t) \/ Unlink(t)
            \/ Commit(t) \/ Fails(t)
        BY <1>3 DEF Next
    <2>2. ASSUME NEW q \in Requests,
                 \/ BeginImport(t, q) \/ BeginFeed(t, q) \/ BeginEdit(t, q)
                 \/ BeginPass(t, q) \/ BeginDelete(t, q)
          PROVE  UNCHANGED tables
        BY <2>2 DEF BeginImport, BeginFeed, BeginEdit, BeginPass, BeginDelete, Begin
    <2>3. ASSUME NEW x \in Refs, ReadRow(t, x) \/ WriteImported(t, x) \/ WriteRow(t, x)
          PROVE  UNCHANGED tables
        BY <2>3 DEF ReadRow, WriteImported, WriteRow
    <2>4. CASE Resolve(t) \/ ReadAll(t) \/ Refuse(t) \/ Fails(t)
        BY <1>2, <2>4 DEF Resolve, ReadAll, Refuse, Fails
    <2>5. CASE SelectOffers(t) \/ DeleteOffers(t) \/ SelectOrphans(t)
               \/ DeleteOrphans(t) \/ Unlink(t)
        BY <1>2, <2>5 DEF SelectOffers, DeleteOffers, SelectOrphans, DeleteOrphans, Unlink
    <2> QED
        BY <1>2, <2>1, <2>2, <2>3, <2>4, <2>5
<1>5. PICK t \in Sessions : Commit(t)
    BY <1>4
<1>6. t = s
    <2>1. OnlyBy(t)
        BY <1>1, <1>5, EndRows DEF Commit
    <2> QED
        BY <1>2, <2>1 DEF OnlyBy
<1>7. refs'[r] = RowFor(s, r) /\ offers'[r] = OfferFor(s, r)
    BY <1>5, <1>6 DEF Commit
<1> QED
    BY <1>1, <1>2, <1>7 DEF Phased

-----------------------------------------------------------------------------
(* An import is whole *)

\* The offer of a line is drafted with the conditioning its reference will have, and
\* nobody is deleting that reference: the foreign key would have to be free.
Covered(s, r) ==
    /\ offerDraft[s][r] \in Offers /\ offerDraft[s][r].catalog = mine[s]
    /\ RowFor(s, r) # NoRow
    /\ \A t \in Sessions \ {s} : rowDraft[t][r] # NoRow
    /\ rowDraft[s][r] = Untouched => offerDraft[s][r].packed = seen[s][r].quantity
    /\ rowDraft[s][r] # Untouched /\ seen[s][r] = refs[r] =>
         offerDraft[s][r].packed = rowDraft[s][r].quantity

Importing(s) ==
    Kinds(s, {"import"}) =>
      /\ at[s] = "commit" => todo[s] = {}
      /\ \A r \in DOMAIN op[s].file \ todo[s] : op[s].file[r].priced => Covered(s, r)

ImportInv == \A s \in Sessions : Importing(s)

\* What the others do to a reference that is covered.
LEMMA StaysCovered ==
    ASSUME RowInv, NEW s \in Sessions, NEW r \in Refs, Covered(s, r),
           mine'[s] = mine[s], seen'[s][r] = seen[s][r],
           rowDraft'[s][r] = rowDraft[s][r], offerDraft'[s][r] = offerDraft[s][r],
           \A t \in Sessions \ {s} : rowDraft'[t][r] # NoRow,
           refs'[r] = refs[r] \/ (rowDraft[s][r] = Untouched /\ refs'[r] # NoRow)
    PROVE  Covered(s, r)'
<1>1. RowFor(s, r)' # NoRow
    BY DEF Covered, RowFor
<1> QED
    BY <1>1 DEF Covered

\* The import itself covers the line it writes.
LEMMA LineCovered ==
    ASSUME RowInv, NEW s \in Sessions, NEW r \in Refs, WriteImported(s, r),
           op[s].file[r].priced
    PROVE  Covered(s, r)'
<1> DEFINE row == ImportedRow(s, r, seen[s][r])
           offer == [catalog |-> mine[s], packed |-> StockedIn(s, r, row)]
<1>1. /\ at[s] = "write" /\ op[s].kind = "import" /\ r \in todo[s] /\ seen[s][r] # Unread
      /\ Flushed(s, r, row) /\ OfferFree(s, r)
      /\ RowFor(s, r) # NoRow \/ seen[s][r] = NoRow
      /\ \A t \in Sessions \ {s} : rowDraft[t][r] # NoRow
      /\ offerDraft' = [offerDraft EXCEPT ![s][r] = offer]
      /\ UNCHANGED <<refs, seen, mine>>
    BY DEF WriteImported, tables
<1>2. TypeOK /\ Phased(s)
    BY DEF RowInv
<1>3. rowDraft[s][r] = Untouched /\ RowFor(s, r) = refs[r] /\ op[s] # None
    BY <1>1, <1>2 DEF Phased, Clean, Reading, RowFor
<1>4. seen[s][r] \in Rows \cup {NoRow} /\ refs[r] \in Rows \cup {NoRow} /\ mine[s] \in Catalogs
    BY <1>1, <1>2, <1>3 DEF TypeOK, Phased, Kinds
<1>5. row \in Rows
    BY <1>1, <1>2, <1>4, ImportedType
<1>6. offer.catalog = mine[s] /\ offer.packed = row.quantity /\ offer \in Offers
    BY <1>4, <1>5 DEF Offers, StockedIn, Rows
<1>7. offerDraft'[s][r] = offer
    BY <1>1, <1>2 DEF TypeOK
<1>8. CASE row = seen[s][r]
    <2>1. rowDraft' = rowDraft /\ refs[r] # NoRow
        BY <1>1, <1>3, <1>4, <1>5, <1>8, RowDistinct DEF Flushed
    <2>2. RowFor(s, r)' # NoRow
        BY <1>1, <1>3, <2>1 DEF RowFor
    <2> HIDE DEF row, offer
    <2> QED
        BY <1>1, <1>3, <1>6, <1>7, <1>8, <2>1, <2>2 DEF Covered
<1>9. CASE row # seen[s][r]
    <2> DEFINE d == IF seen[s][r] = NoRow THEN row ELSE Update(refs[r], seen[s][r], row)
    <2>1. /\ (seen[s][r] = NoRow <=> refs[r] = NoRow)
          /\ rowDraft' = [rowDraft EXCEPT ![s][r] = d]
        BY <1>1, <1>3, <1>9 DEF Flushed
    <2>2. d \in Rows /\ (seen[s][r] = refs[r] => d = row)
        BY <1>4, <1>5, <2>1, UpdateFields
    <2> HIDE DEF row, offer, d
    <2>3. /\ rowDraft'[s][r] = d /\ d # Untouched /\ d # NoRow
          /\ \A t \in Sessions \ {s} : rowDraft'[t] = rowDraft[t]
        BY <1>2, <2>1, <2>2, RowDistinct DEF TypeOK
    <2>4. RowFor(s, r)' # NoRow
        BY <2>3 DEF RowFor
    <2> QED
        BY <1>1, <1>6, <1>7, <2>2, <2>3, <2>4 DEF Covered
<1> QED
    BY <1>8, <1>9

\* A step of t leaves the lines that s has covered.
LEMMA OthersCover ==
    ASSUME RowInv, RowInv', NEW t \in Sessions, NEW s \in Sessions \ {t}, OnlyBy(t),
           Importing(s), offerDraft'[s] = offerDraft[s],
           \A r \in Refs : rowDraft'[t][r] = NoRow =>
               rowDraft[t][r] = NoRow \/ OfferFree(t, r),
           \/ UNCHANGED refs
           \/ \A r \in Refs : refs'[r] = RowFor(t, r)
    PROVE  Importing(s)'
<1>1. /\ op'[s] = op[s] /\ at'[s] = at[s] /\ todo'[s] = todo[s] /\ mine'[s] = mine[s]
      /\ seen'[s] = seen[s] /\ rowDraft'[s] = rowDraft[s]
    BY DEF OnlyBy
<1>2. ASSUME NEW r \in Refs, Covered(s, r)
      PROVE  Covered(s, r)'
    <2>1. offerDraft[s][r] # Untouched
        BY <1>2, RowsAssumption DEF Covered
    <2>2. ~ OfferFree(t, r)
        BY <2>1 DEF OfferFree
    <2>3. \A u \in Sessions \ {s} : rowDraft'[u][r] # NoRow
        BY <1>2, <2>2 DEF Covered, OnlyBy
    <2>4. refs'[r] = refs[r] \/ (rowDraft[s][r] = Untouched /\ refs'[r] # NoRow)
        <3>1. CASE UNCHANGED refs
            BY <3>1
        <3>2. CASE refs'[r] = RowFor(t, r) /\ rowDraft[t][r] = Untouched
            BY <3>2 DEF RowFor
        <3>3. CASE refs'[r] = RowFor(t, r) /\ rowDraft[t][r] # Untouched
            BY <1>2, <3>3 DEF RowFor, RowInv, RowLock, Covered
        <3> QED
            BY <3>1, <3>2, <3>3
    <2> QED
        BY <1>1, <1>2, <2>3, <2>4, StaysCovered
<1>3. Kinds(s, {"import"}) => DOMAIN op[s].file \subseteq Refs
    BY RequestFields, FileFields DEF RowInv, TypeOK, Kinds
<1> QED
    BY <1>1, <1>2, <1>3 DEF Importing, Kinds

\* The others keep what they have in hand.
LEMMA ActsAlone ==
    ASSUME TypeOK, NEW t \in Sessions,
           \/ \E q \in Requests :
                \/ BeginImport(t, q) \/ BeginFeed(t, q) \/ BeginEdit(t, q)
                \/ BeginPass(t, q) \/ BeginDelete(t, q)
           \/ Resolve(t) \/ ReadAll(t)
           \/ \E r \in Refs : ReadRow(t, r) \/ WriteImported(t, r) \/ WriteRow(t, r)
           \/ SelectOffers(t) \/ DeleteOffers(t) \/ SelectOrphans(t)
           \/ DeleteOrphans(t) \/ Unlink(t)
           \/ Idle(t)
    PROVE  OnlyBy(t) /\ \A s \in Sessions \ {t} : offerDraft'[s] = offerDraft[s]
<1>1. /\ DOMAIN op = Sessions /\ DOMAIN at = Sessions /\ DOMAIN todo = Sessions
      /\ DOMAIN mine = Sessions /\ DOMAIN seen = Sessions
      /\ DOMAIN rowDraft = Sessions /\ DOMAIN offerDraft = Sessions
    BY DEF TypeOK
<1>2. CASE \E q \in Requests :
                \/ BeginImport(t, q) \/ BeginFeed(t, q) \/ BeginEdit(t, q)
                \/ BeginPass(t, q) \/ BeginDelete(t, q)
    <2>1. \E q, phase, c, which : Begin(t, q, phase, c, which)
        BY <1>2, Zenon DEF BeginImport, BeginFeed, BeginEdit, BeginPass, BeginDelete
    <2> QED
        BY <1>1, <2>1 DEF Begin, OnlyBy
<1>3. CASE Resolve(t)
    BY <1>1, <1>3 DEF Resolve, OnlyBy
<1>4. CASE ReadAll(t)
    BY <1>1, <1>4 DEF ReadAll, OnlyBy
<1>5. ASSUME NEW r \in Refs, ReadRow(t, r) \/ WriteImported(t, r) \/ WriteRow(t, r)
      PROVE  OnlyBy(t) /\ \A s \in Sessions \ {t} : offerDraft'[s] = offerDraft[s]
    <2>1. \A row : Flushed(t, r, row) => \A s \in Sessions \ {t} : rowDraft'[s] = rowDraft[s]
        BY <1>1 DEF Flushed
    <2>2. CASE ReadRow(t, r)
        BY <1>1, <2>2 DEF ReadRow, OnlyBy
    <2>3. CASE WriteImported(t, r)
        BY <1>1, <2>1, <2>3 DEF WriteImported, Next1, OnlyBy
    <2>4. CASE WriteRow(t, r)
        BY <1>1, <2>1, <2>4 DEF WriteRow, Next1, OnlyBy
    <2> QED
        BY <1>5, <2>2, <2>3, <2>4
<1>6. CASE SelectOffers(t) \/ DeleteOffers(t)
    BY <1>1, <1>6 DEF SelectOffers, DeleteOffers, OnlyBy
<1>7. CASE SelectOrphans(t) \/ DeleteOrphans(t) \/ Unlink(t)
    BY <1>1, <1>7 DEF SelectOrphans, DeleteOrphans, Unlink, OnlyBy
<1>8. CASE Idle(t)
    BY <1>1, <1>8 DEF Idle, OnlyBy
<1> QED
    BY <1>2, <1>3, <1>4, <1>5, <1>6, <1>7, <1>8

\* Only the deletion of orphans drafts the end of a row, and their offers are free.
LEMMA EndsFreeRows ==
    ASSUME RowInv, NEW t \in Sessions, NEW r \in Refs, rowDraft'[t][r] = NoRow,
           \/ \E q \in Requests :
                \/ BeginImport(t, q) \/ BeginFeed(t, q) \/ BeginEdit(t, q)
                \/ BeginPass(t, q) \/ BeginDelete(t, q)
           \/ Resolve(t) \/ ReadAll(t)
           \/ \E x \in Refs : ReadRow(t, x) \/ WriteImported(t, x) \/ WriteRow(t, x)
           \/ SelectOffers(t) \/ DeleteOffers(t) \/ SelectOrphans(t)
           \/ DeleteOrphans(t) \/ Unlink(t)
           \/ Idle(t)
    PROVE  rowDraft[t][r] = NoRow \/ OfferFree(t, r)
<1>1. TypeOK /\ Phased(t)
    BY DEF RowInv
<1>2. CASE UNCHANGED rowDraft
    BY <1>2
<1>3. ASSUME NEW x \in Refs, WriteImported(t, x) \/ WriteRow(t, x)
      PROVE  rowDraft[t][r] = NoRow
    <2>1. /\ at[t] = "write" /\ x \in todo[t] /\ seen[t][x] # Unread
        BY <1>3 DEF WriteImported, WriteRow
    <2>2. rowDraft[t][x] = Untouched
        BY <1>1, <2>1 DEF Phased, Clean, Reading
    <2>3. PICK row \in Rows : Flushed(t, x, row)
                              /\ (seen[t][x] \in Rows => Keeps(t, x, seen[t][x], row))
        BY <1>1, <1>3, Written
    <2>4. /\ \A y \in Refs : <<t, y>> # <<t, x>> => rowDraft'[t][y] = rowDraft[t][y]
          /\ rowDraft'[t][x] # Untouched => rowDraft'[t][x] \in Rows
        BY <1>1, <2>1, <2>2, <2>3, FlushedRow
    <2> QED
        BY <2>4, RowDistinct
<1>4. CASE DeleteOrphans(t)
    <2>1. r \notin todo[t] => rowDraft'[t][r] = rowDraft[t][r]
        <3>1. rowDraft' = [rowDraft EXCEPT ![t] = [x \in Refs |->
                 IF x \in todo[t] /\ refs[x] # NoRow THEN NoRow ELSE @[x]]]
            BY <1>4 DEF DeleteOrphans
        <3> QED
            BY <1>1, <3>1 DEF TypeOK
    <2>2. r \in todo[t] => OfferFree(t, r)
        BY <1>4 DEF DeleteOrphans
    <2> QED
        BY <2>1, <2>2
<1>5. CASE Unlink(t)
    <2>1. ~ Introduced(t, r) => rowDraft'[t][r] = rowDraft[t][r]
        BY <1>1, <1>5 DEF Unlink, TypeOK
    <2>2. Introduced(t, r) => rowDraft'[t][r] = [RowFor(t, r) EXCEPT !.intro = None]
        BY <1>1, <1>5 DEF Unlink, TypeOK
    <2>3. Introduced(t, r) => RowFor(t, r) \in Rows
        BY <1>1, <1>5 DEF Unlink, Introduced, RowFor, Phased, TypeOK
    <2>4. \A row \in Rows : [row EXCEPT !.intro = None] \in Rows
        BY DEF Rows
    <2> QED
        BY <2>1, <2>2, <2>3, <2>4, RowDistinct
<1>6. CASE Idle(t)
    BY <1>1, <1>6, RowDistinct DEF Idle, TypeOK
<1>7. (\E q \in Requests :
                \/ BeginImport(t, q) \/ BeginFeed(t, q) \/ BeginEdit(t, q)
                \/ BeginPass(t, q) \/ BeginDelete(t, q)) => UNCHANGED rowDraft
    BY DEF BeginImport, BeginFeed, BeginEdit, BeginPass, BeginDelete, Begin
<1>8. Resolve(t) \/ ReadAll(t) \/ (\E x \in Refs : ReadRow(t, x))
      \/ SelectOffers(t) \/ DeleteOffers(t) \/ SelectOrphans(t) => UNCHANGED rowDraft
    BY DEF Resolve, ReadAll, ReadRow, SelectOffers, DeleteOffers, SelectOrphans
<1> QED
    BY <1>2, <1>3, <1>4, <1>5, <1>6, <1>7, <1>8

\* What the session that acts has covered.
LEMMA OwnCover ==
    ASSUME RowInv, RowInv', NEW t \in Sessions, Importing(t),
           \/ \E q \in Requests :
                \/ BeginImport(t, q) \/ BeginFeed(t, q) \/ BeginEdit(t, q)
                \/ BeginPass(t, q) \/ BeginDelete(t, q)
           \/ Resolve(t) \/ ReadAll(t)
           \/ \E r \in Refs : ReadRow(t, r) \/ WriteImported(t, r) \/ WriteRow(t, r)
           \/ SelectOffers(t) \/ DeleteOffers(t) \/ SelectOrphans(t)
           \/ DeleteOrphans(t) \/ Unlink(t)
           \/ Idle(t)
    PROVE  Importing(t)'
<1>1. /\ TypeOK /\ Phased(t) /\ OnlyBy(t)
    BY ActsAlone DEF RowInv
<1>2. CASE \E q \in Requests :
                \/ BeginImport(t, q) \/ BeginFeed(t, q) \/ BeginEdit(t, q)
                \/ BeginPass(t, q) \/ BeginDelete(t, q)
    <2>1. PICK q \in Requests :
                \/ BeginImport(t, q) \/ BeginFeed(t, q) \/ BeginEdit(t, q)
                \/ BeginPass(t, q) \/ BeginDelete(t, q)
        BY <1>2
    <2>2. op'[t] = q
        BY <1>1, <2>1 DEF BeginImport, BeginFeed, BeginEdit, BeginPass, BeginDelete, Begin,
              TypeOK
    <2>3. q.kind = "import" => at'[t] = "resolve" /\ todo'[t] = DOMAIN q.file
        <3>1. q.kind = "import" => BeginImport(t, q)
            BY <2>1 DEF BeginFeed, BeginEdit, BeginPass, BeginDelete
        <3> QED
            BY <1>1, <3>1 DEF BeginImport, Begin, TypeOK
    <2> QED
        BY <2>2, <2>3 DEF Importing, Kinds
<1>3. CASE ~ Kinds(t, {"import"}) /\ op'[t] = op[t]
    BY <1>3 DEF Importing, Kinds
<1>4. CASE Idle(t)
    <2>1. op'[t] = None
        BY <1>1, <1>4 DEF Idle, TypeOK
    <2> QED
        BY <2>1 DEF Importing, Kinds
<1>5. ASSUME Kinds(t, {"import"}),
             Resolve(t) \/ \E r \in Refs : ReadRow(t, r) \/ WriteImported(t, r)
      PROVE  Importing(t)'
    <2>1. op[t].kind = "import" /\ DOMAIN op[t].file \subseteq Refs
        BY <1>1, <1>5, RequestFields, FileFields DEF TypeOK, Kinds
    <2>2. CASE Resolve(t)
        <3>1. /\ UNCHANGED <<refs, op, todo, seen, mine, rowDraft, offerDraft>>
              /\ at'[t] = "read"
            BY <1>1, <2>2 DEF Resolve, tables, TypeOK
        <3>2. \A r \in Refs : Covered(t, r) => Covered(t, r)'
            BY <3>1 DEF Covered, RowFor
        <3> QED
            BY <1>5, <2>1, <3>1, <3>2 DEF Importing, Kinds
    <2>3. ASSUME NEW r \in Refs, ReadRow(t, r)
          PROVE  Importing(t)'
        <3>1. /\ UNCHANGED <<refs, op, todo, mine, rowDraft, offerDraft>>
              /\ at'[t] = "write" /\ r \in todo[t]
              /\ \A x \in Refs \ {r} : seen'[t][x] = seen[t][x]
            BY <1>1, <2>3 DEF ReadRow, tables, TypeOK
        <3>2. \A x \in Refs \ {r} : Covered(t, x) => Covered(t, x)'
            BY <3>1 DEF Covered, RowFor
        <3> QED
            BY <1>5, <2>1, <3>1, <3>2 DEF Importing, Kinds
    <2>4. ASSUME NEW r \in Refs, WriteImported(t, r)
          PROVE  Importing(t)'
        <3>1. /\ UNCHANGED <<refs, op, seen, mine>>
              /\ todo' = [todo EXCEPT ![t] = @ \ {r}]
              /\ at' = [at EXCEPT ![t] = IF todo[t] = {r} THEN "commit"
                                         ELSE IF Stepwise(t) THEN "read" ELSE "write"]
            BY <2>4 DEF WriteImported, Next1, tables
        <3>2. todo'[t] = todo[t] \ {r} /\ (at'[t] = "commit" => todo'[t] = {})
            BY <1>1, <3>1 DEF TypeOK
        <3>3. \A x \in Refs \ {r} : /\ rowDraft'[t][x] = rowDraft[t][x]
                                    /\ offerDraft'[t][x] = offerDraft[t][x]
            BY <1>1, <2>4 DEF WriteImported, Flushed, TypeOK
        <3>4. ASSUME NEW x \in Refs \ {r}, Covered(t, x)
              PROVE  Covered(t, x)'
            <4>1. \A u \in Sessions \ {t} : rowDraft'[u][x] # NoRow
                BY <1>1, <3>4 DEF Covered, OnlyBy
            <4> QED
                BY <3>1, <3>3, <3>4, <4>1, StaysCovered
        <3>5. op[t].file[r].priced => Covered(t, r)'
            BY <2>4, LineCovered
        <3> QED
            BY <1>5, <2>1, <3>1, <3>2, <3>4, <3>5 DEF Importing, Kinds
    <2> QED
        BY <1>5, <2>2, <2>3, <2>4
<1>6. Kinds(t, {"import"}) =>
        ~ (ReadAll(t) \/ (\E r \in Refs : WriteRow(t, r)) \/ SelectOffers(t)
           \/ DeleteOffers(t) \/ SelectOrphans(t) \/ DeleteOrphans(t) \/ Unlink(t))
    <2>1. Kinds(t, {"import"}) => at[t] \notin Deleting /\ Stepwise(t) /\ op[t].kind = "import"
        BY <1>1 DEF Kinds, Phased, Stepwise
    <2> QED
        BY <2>1 DEF ReadAll, WriteRow, SelectOffers, DeleteOffers, SelectOrphans,
              DeleteOrphans, Unlink, Deleting
<1>7. Resolve(t) \/ ReadAll(t)
      \/ (\E r \in Refs : ReadRow(t, r) \/ WriteImported(t, r) \/ WriteRow(t, r))
      \/ SelectOffers(t) \/ DeleteOffers(t) \/ SelectOrphans(t)
      \/ DeleteOrphans(t) \/ Unlink(t) => op'[t] = op[t]
    BY DEF Resolve, ReadAll, ReadRow, WriteImported, WriteRow, SelectOffers, DeleteOffers,
          SelectOrphans, DeleteOrphans, Unlink
<1> QED
    BY <1>2, <1>3, <1>4, <1>5, <1>6, <1>7

LEMMA StepImports == RowInv /\ RowInv' /\ ImportInv /\ [Next]_vars => ImportInv'
<1> SUFFICES ASSUME RowInv, RowInv', ImportInv, [Next]_vars
             PROVE  ImportInv'
    OBVIOUS
<1>1. CASE UNCHANGED vars
    BY <1>1 DEF ImportInv, Importing, Kinds, Covered, RowFor, vars, tables, session
<1>2. CASE Next
    <2>1. PICK t \in Sessions :
            \/ \E q \in Requests :
                 \/ BeginImport(t, q) \/ BeginFeed(t, q) \/ BeginEdit(t, q)
                 \/ BeginPass(t, q) \/ BeginDelete(t, q)
            \/ Resolve(t) \/ ReadAll(t)
            \/ \E r \in Refs : ReadRow(t, r) \/ WriteImported(t, r) \/ WriteRow(t, r)
            \/ Refuse(t)
            \/ SelectOffers(t) \/ DeleteOffers(t) \/ SelectOrphans(t)
            \/ DeleteOrphans(t) \/ Unlink(t)
            \/ Commit(t) \/ Fails(t)
        BY <1>2 DEF Next
    <2>2. Refuse(t) \/ Commit(t) \/ Fails(t) => Idle(t)
        BY DEF Refuse, Commit, Fails
    <2>3. UNCHANGED refs \/ \A r \in Refs : refs'[r] = RowFor(t, r)
        BY <2>1 DEF BeginImport, BeginFeed, BeginEdit, BeginPass, BeginDelete, Begin,
              Resolve, ReadAll, ReadRow, WriteImported, WriteRow, Refuse, SelectOffers,
              DeleteOffers, SelectOrphans, DeleteOrphans, Unlink, Commit, Fails, tables
    <2>4. OnlyBy(t) /\ \A s \in Sessions \ {t} : offerDraft'[s] = offerDraft[s]
        BY <2>1, <2>2, ActsAlone DEF RowInv
    <2>5. \A r \in Refs : rowDraft'[t][r] = NoRow => rowDraft[t][r] = NoRow \/ OfferFree(t, r)
        BY <2>1, <2>2, EndsFreeRows
    <2>6. \A s \in Sessions \ {t} : Importing(s)'
        BY <2>3, <2>4, <2>5, OthersCover DEF ImportInv
    <2>7. Importing(t)'
        BY <2>1, <2>2, OwnCover DEF ImportInv
    <2> QED
        BY <2>6, <2>7 DEF ImportInv
<1> QED
    BY <1>1, <1>2

\* An import is in the base as a whole, although others delete and import beside it.
THEOREM ImportsAreWhole == Spec => ImportIsWhole
<1>1. RowInv /\ ImportInv /\ [Next]_vars =>
        \A s \in Sessions :
          Commits(s) /\ op[s].kind = "import" =>
            \A r \in DOMAIN op[s].file :
              /\ op[s].file[r].priced \/ rowDraft[s][r] # Untouched => refs'[r] # NoRow
              /\ op[s].file[r].priced =>
                   /\ offers'[r] # NoRow /\ offers'[r].catalog = mine[s]
                   /\ seen[s][r] = refs[r] => offers'[r].packed = refs'[r].quantity
    <2> SUFFICES ASSUME RowInv, ImportInv, [Next]_vars, NEW s \in Sessions,
                        Commits(s), op[s].kind = "import", NEW r \in DOMAIN op[s].file
                 PROVE  /\ op[s].file[r].priced \/ rowDraft[s][r] # Untouched => refs'[r] # NoRow
                        /\ op[s].file[r].priced =>
                             /\ offers'[r] # NoRow /\ offers'[r].catalog = mine[s]
                             /\ seen[s][r] = refs[r] => offers'[r].packed = refs'[r].quantity
        OBVIOUS
    <2>1. r \in Refs
        <3>1. op[s] \in Requests
            BY DEF RowInv, TypeOK, Phased, Commits
        <3> QED
            BY <3>1, RequestFields, FileFields
    <2>2. /\ op[s] # None /\ Drafted(s) /\ refs'[r] = RowFor(s, r)
          /\ offers'[r] = OfferFor(s, r)
        BY <2>1, CommittedRow
    <2>3. rowDraft[s][r] # Untouched => rowDraft[s][r] # NoRow
        BY <2>1, <2>2 DEF Drafted, Faithful
    <2>4. op[s].file[r].priced => Covered(s, r)
        BY <2>2 DEF ImportInv, Importing, Kinds, Commits
    <2>5. op[s].file[r].priced =>
            offerDraft[s][r] # Untouched /\ offerDraft[s][r] # NoRow
        BY <2>4, RowsAssumption DEF Covered
    <2> QED
        BY <2>2, <2>3, <2>4, <2>5 DEF Covered, RowFor, OfferFor
<1>2. Init => ImportInv
    BY DEF Init, ImportInv, Importing, Kinds
<1> QED
    BY <1>1, <1>2, InitRows, StepRows, StepImports, PTL DEF Spec, ImportIsWhole

\* No file detaches a reference, and a feed leaves every mapping as it finds it, even
\* one made after it loaded the reference: the ORM writes the columns that changed.
THEOREM FilesDetachNothing == Spec => NoFileDetaches
<1>1. RowInv /\ [Next]_vars =>
        \A s \in Sessions, r \in Refs :
          Commits(s) /\ refs[r] # NoRow =>
            /\ (/\ rowDraft[s][r] # Untouched /\ refs[r].product # None
                /\ refs'[r] # NoRow /\ refs'[r].product = None) =>
                 \/ op[s].kind = "map"
                 \/ op[s].kind = "import" /\ r \in DOMAIN op[s].chosen
            /\ op[s].kind \in {"brico", "gedimat"} =>
                 refs'[r] # NoRow /\ refs'[r].product = refs[r].product
    <2> SUFFICES ASSUME RowInv, [Next]_vars, NEW s \in Sessions, NEW r \in Refs,
                        Commits(s), refs[r] # NoRow
                 PROVE  /\ (/\ rowDraft[s][r] # Untouched /\ refs[r].product # None
                            /\ refs'[r] # NoRow /\ refs'[r].product = None) =>
                             \/ op[s].kind = "map"
                             \/ op[s].kind = "import" /\ r \in DOMAIN op[s].chosen
                        /\ op[s].kind \in {"brico", "gedimat"} =>
                             refs'[r] # NoRow /\ refs'[r].product = refs[r].product
        OBVIOUS
    <2>1. refs'[r] = RowFor(s, r) /\ Drafted(s)
        BY CommittedRow
    <2>2. CASE rowDraft[s][r] = Untouched
        BY <2>1, <2>2 DEF RowFor
    <2>3. CASE rowDraft[s][r] # Untouched
        <3>1. refs'[r] = rowDraft[s][r] /\ Faithful(s, r)
            BY <2>1, <2>3 DEF RowFor, Drafted
        <3> QED
            BY <2>3, <3>1 DEF Faithful, MayDetach, Feeding
    <2> QED
        BY <2>2, <2>3
<1> QED
    BY <1>1, RowInvariant, PTL DEF Spec, NoFileDetaches

\* A mapping made by hand, and the conditioning beside it, are changed by hand only,
\* by every request that read them.
THEOREM HandDecisionsStand == Spec => HandStands
<1>1. RowInv /\ [Next]_vars =>
        \A s \in Sessions, r \in Refs :
          (/\ Commits(s) /\ rowDraft[s][r] # Untouched /\ seen[s][r] = refs[r]
           /\ refs[r] # NoRow /\ refs[r].source = "manual" /\ refs[r].product # None
           /\ op[s].kind \notin {"map", "correct", "clear"}) =>
            /\ refs'[r] # NoRow
            /\ refs'[r].product = refs[r].product
            /\ refs'[r].quantity = refs[r].quantity
            /\ refs'[r].source = "manual"
    <2> SUFFICES ASSUME RowInv, [Next]_vars, NEW s \in Sessions, NEW r \in Refs,
                        Commits(s), rowDraft[s][r] # Untouched, seen[s][r] = refs[r],
                        refs[r] # NoRow, ByHand(refs[r]), op[s].kind \notin Editing
                 PROVE  /\ refs'[r] # NoRow
                        /\ refs'[r].product = refs[r].product
                        /\ refs'[r].quantity = refs[r].quantity
                        /\ refs'[r].source = "manual"
        BY DEF ByHand, Editing
    <2>1. refs'[r] = rowDraft[s][r] /\ Faithful(s, r)
        BY CommittedRow DEF RowFor, Drafted
    <2>2. rowDraft[s][r] # NoRow
        BY <2>1 DEF Faithful, ByHand
    <2> QED
        BY <2>1, <2>2 DEF Faithful, Keeps
<1> QED
    BY <1>1, RowInvariant, PTL DEF Spec, HandStands

-----------------------------------------------------------------------------
(***************************************************************************)
(* Proofs about SupplierCatalogue, for any references, catalogues, number  *)
(* of sessions and requests.                                               *)
(*                                                                         *)
(* No offer outlives its catalogue, although neither the import nor the    *)
(* deletion locks the catalogue: an import inserts one of its own, that    *)
(* nobody can ask to delete before it is committed, and whoever deletes it *)
(* later finds all the offers it will ever have.                           *)
(***************************************************************************)

Serves(s, kind) == at[s] # "idle" /\ op[s].kind = kind

\* The tables have their rows, the sessions their drafts.
Shape ==
    /\ DOMAIN catalogs = Catalogs
    /\ \A r \in Refs : offers[r] # NoRow => offers[r].catalog \in Catalogs
    /\ DOMAIN op = Sessions /\ DOMAIN at = Sessions /\ DOMAIN mine = Sessions
    /\ DOMAIN todo = Sessions
    /\ DOMAIN offerDraft = Sessions /\ \A s \in Sessions : DOMAIN offerDraft[s] = Refs

\* An import has a catalogue nobody else is about, absent until it commits; a deletion
\* has one that is no longer absent.
Owns(s) ==
    /\ at[s] = "idle" => mine[s] = None
    /\ Serves(s, "import") =>
         /\ mine[s] \in Catalogs /\ catalogs[mine[s]] = "none"
         /\ \A t \in Sessions \ {s} : mine[t] # mine[s]
    /\ Serves(s, "delete") => mine[s] \in Catalogs /\ catalogs[mine[s]] # "none"
    /\ at[s] \in Deleting => op[s].kind = "delete"
    /\ at[s] \in {"resolve", "read", "write"} => op[s].kind # "delete"

OwnerInv == \A s \in Sessions : Owns(s)

\* Only an import drafts offers, of its catalogue.
Drafts(s) ==
    \A r \in Refs : offerDraft[s][r] \notin {Untouched, NoRow} =>
        Serves(s, "import") /\ offerDraft[s][r].catalog = mine[s]

DraftInv == \A s \in Sessions : Drafts(s)

\* A deletion has found, then deleted, every offer of its catalogue.
Deletes(s) ==
    \A r \in Refs : (offers[r] # NoRow /\ offers[r].catalog = mine[s]) =>
      /\ at[s] = "delete offers" => r \in todo[s]
      /\ at[s] \in {"select refs", "delete refs", "unlink"} => offerDraft[s][r] = NoRow
      /\ at[s] = "commit" /\ op[s].kind = "delete" => offerDraft[s][r] = NoRow

DeleteInv == \A s \in Sessions : Deletes(s)

OfferInv == Shape /\ OwnerInv /\ DraftInv /\ DeleteInv /\ OffersHaveTheirCatalog

USE DEF Serves, Deleting, tables, session

-----------------------------------------------------------------------------
(* Steps *)

\* A session that does nothing keeps its drafts and what it has found.
LEMMA Bystander ==
    ASSUME NEW t \in Sessions, OfferInv,
           op'[t] = op[t], at'[t] = at[t], mine'[t] = mine[t], todo'[t] = todo[t],
           offerDraft'[t] = offerDraft[t], UNCHANGED offers
    PROVE  Drafts(t)' /\ Deletes(t)'
<1>1. Drafts(t) /\ Deletes(t)
    BY DEF OfferInv, DraftInv, DeleteInv
<1>2. Drafts(t)'
    BY <1>1 DEF Drafts
<1>3. Deletes(t)'
    BY <1>1 DEF Deletes
<1> QED
    BY <1>2, <1>3

\* How the five of them begin, on the catalogue c.
Begins(s, q, phase, c, which) ==
    /\ Begin(s, q, phase, c, which)
    /\ phase \notin {"commit", "idle"}
    /\ q.kind = "import" => c \in Catalogs /\ catalogs[c] = "none" /\ \A t \in Sessions : mine[t] # c
    /\ q.kind = "delete" => c \in Catalogs /\ catalogs[c] = "present" /\ phase = "select offers"
    /\ q.kind # "delete" => phase \in {"resolve", "read"}
    /\ c # None => catalogs[c] = "present" \/ \A t \in Sessions : mine[t] # c

\* A request begins: its catalogue is nobody's, or is present.
LEMMA BeginStep ==
    ASSUME OfferInv, NEW s \in Sessions, NEW q \in Requests,
           \/ BeginImport(s, q) \/ BeginFeed(s, q) \/ BeginEdit(s, q)
           \/ BeginPass(s, q) \/ BeginDelete(s, q)
    PROVE  OfferInv'
<1> USE DEF OfferInv
<1>1. \E phase \in Phases, c \in Catalogs \cup {None} : \E which : Begins(s, q, phase, c, which)
    <2> USE DEF Begins
    <2>2. CASE BeginImport(s, q)
        BY <2>2, Zenon DEF BeginImport, Fresh, Phases, Catalogs
    <2>3. CASE BeginFeed(s, q)
        <3>1. PICK c \in Feeds :
                 /\ catalogs[c] = "present" \/ \A t \in Sessions : mine[t] # c
                 /\ Begin(s, q, "read", c, DOMAIN q.file)
            BY <2>3 DEF BeginFeed, Fresh
        <3>2. q.kind # "import" /\ q.kind # "delete"
            BY <2>3 DEF BeginFeed
        <3> QED
            BY <3>1, <3>2 DEF Phases, Catalogs
    <2>4. CASE BeginEdit(s, q)
        <3>1. q.kind # "import" /\ q.kind # "delete" /\ Begin(s, q, "read", None, {q.ref})
            BY <2>4 DEF BeginEdit
        <3> QED
            BY <3>1 DEF Phases
    <2>5. CASE BeginPass(s, q)
        <3>1. q.kind # "import" /\ q.kind # "delete" /\ Begin(s, q, "read", None, Refs)
            BY <2>5 DEF BeginPass
        <3> QED
            BY <3>1 DEF Phases
    <2>6. CASE BeginDelete(s, q)
        <3>1. q.kind = "delete" /\ catalogs[q.catalog] = "present"
              /\ Begin(s, q, "select offers", q.catalog, {})
            BY <2>6 DEF BeginDelete
        <3>2. q.catalog \in Catalogs
            BY <3>1, RequestsAssumption DEF AllRequests
        <3> QED
            BY <3>1, <3>2 DEF Phases
    <2> QED
        BY <2>2, <2>3, <2>4, <2>5, <2>6
<1>p. PICK phase \in Phases, c \in Catalogs \cup {None} : \E which : Begins(s, q, phase, c, which)
    BY <1>1
<1>w. PICK which : Begins(s, q, phase, c, which)
    BY <1>p
<1>b. /\ Begin(s, q, phase, c, which)
      /\ phase \notin {"commit", "idle"}
      /\ q.kind = "import" => c \in Catalogs /\ catalogs[c] = "none" /\ \A t \in Sessions : mine[t] # c
      /\ q.kind = "delete" => c \in Catalogs /\ catalogs[c] = "present" /\ phase = "select offers"
      /\ q.kind # "delete" => phase \in {"resolve", "read"}
      /\ c # None => catalogs[c] = "present" \/ \A t \in Sessions : mine[t] # c
    BY <1>w DEF Begins
<1>2. /\ at[s] = "idle" /\ UNCHANGED <<refs, offers, catalogs, offerDraft>>
      /\ op' = [op EXCEPT ![s] = q] /\ at' = [at EXCEPT ![s] = phase]
      /\ mine' = [mine EXCEPT ![s] = c] /\ todo' = [todo EXCEPT ![s] = which]
    BY <1>b DEF Begin
<1>3. Shape' /\ OffersHaveTheirCatalog'
    BY <1>2 DEF Shape, OffersHaveTheirCatalog
<1>4. /\ op'[s] = q /\ at'[s] = phase /\ mine'[s] = c
      /\ \A t \in Sessions \ {s} : op'[t] = op[t] /\ at'[t] = at[t] /\ mine'[t] = mine[t]
                                   /\ todo'[t] = todo[t]
    BY <1>2 DEF Shape
<1>5. OwnerInv'
    <2>1. ASSUME NEW t \in Sessions, t # s
          PROVE  Owns(t)'
        <3>1. Serves(t, "import") => mine[t] # c
            BY <1>b, NoneAssumption DEF OwnerInv, Owns
        <3>2. Owns(t) /\ UNCHANGED catalogs /\ op'[t] = op[t] /\ at'[t] = at[t] /\ mine'[t] = mine[t]
            BY <1>2, <1>4, <2>1 DEF OwnerInv
        <3>3. Serves(t, "import") => \A u \in Sessions \ {t} : mine'[u] # mine[t]
            BY <1>4, <3>1, <3>2 DEF Owns
        <3> QED
            BY <3>2, <3>3 DEF Owns
    <2>2. Owns(s)'
        BY <1>b, <1>2, <1>4 DEF Owns
    <2> QED
        BY <2>1, <2>2 DEF OwnerInv
<1>6. DraftInv'
    <2>1. ASSUME NEW t \in Sessions, t # s
          PROVE  Drafts(t)'
        BY <1>2, <1>4, <2>1, Bystander
    <2>2. Drafts(s)'
        BY <1>2 DEF DraftInv, Drafts
    <2> QED
        BY <2>1, <2>2 DEF DraftInv
<1>7. DeleteInv'
    <2>1. ASSUME NEW t \in Sessions, t # s
          PROVE  Deletes(t)'
        BY <1>2, <1>4, <2>1, Bystander
    <2>2. Deletes(s)'
        BY <1>b, <1>4 DEF Deletes
    <2> QED
        BY <2>1, <2>2 DEF DeleteInv
<1> QED
    BY <1>3, <1>5, <1>6, <1>7

\* A session reads and writes references: offers are not touched.
LEMMA RowStep ==
    ASSUME OfferInv, NEW s \in Sessions,
           at[s] \in {"resolve", "read", "write"},
           UNCHANGED <<offers, catalogs, op, mine, offerDraft>>,
           todo' = todo \/ \E S : todo' = [todo EXCEPT ![s] = S],
           \E p \in {"read", "write", "commit"} : at' = [at EXCEPT ![s] = p]
    PROVE  OfferInv'
<1> USE DEF OfferInv
<1>1. PICK p \in {"read", "write", "commit"} : at' = [at EXCEPT ![s] = p]
    OBVIOUS
<1>2. DOMAIN todo' = Sessions /\ \A t \in Sessions \ {s} : todo'[t] = todo[t]
    BY DEF Shape
<1>3. at'[s] = p /\ \A t \in Sessions \ {s} : at'[t] = at[t]
    BY <1>1 DEF Shape
<1>4. Shape' /\ OffersHaveTheirCatalog'
    BY <1>1, <1>2 DEF Shape, OffersHaveTheirCatalog
<1>5. op[s].kind # "delete"
    BY DEF OwnerInv, Owns
<1>6. OwnerInv'
    <2>1. ASSUME NEW t \in Sessions, t # s
          PROVE  Owns(t)'
        <3>1. Owns(t) /\ at'[t] = at[t]
            BY <1>3, <2>1 DEF OwnerInv
        <3> QED
            BY <3>1 DEF Owns
    <2>2. Owns(s)'
        <3>1. Owns(s)
            BY DEF OwnerInv
        <3> QED
            BY <1>3, <1>5, <3>1 DEF Owns
    <2> QED
        BY <2>1, <2>2 DEF OwnerInv
<1>7. DraftInv'
    <2>1. ASSUME NEW t \in Sessions, t # s
          PROVE  Drafts(t)'
        BY <1>2, <1>3, <2>1, Bystander
    <2>2. Drafts(s)'
        BY <1>3 DEF DraftInv, Drafts
    <2> QED
        BY <2>1, <2>2 DEF DraftInv
<1>8. DeleteInv'
    <2>1. ASSUME NEW t \in Sessions, t # s
          PROVE  Deletes(t)'
        BY <1>2, <1>3, <2>1, Bystander
    <2>2. Deletes(s)'
        BY <1>3, <1>5 DEF Deletes
    <2> QED
        BY <2>1, <2>2 DEF DeleteInv
<1> QED
    BY <1>4, <1>6, <1>7, <1>8

\* The import drafts an offer of its own catalogue.
LEMMA ImportStep ==
    ASSUME OfferInv, NEW s \in Sessions, NEW r \in Refs, WriteImported(s, r)
    PROVE  OfferInv'
<1> USE DEF OfferInv
<1>1. /\ at[s] = "write" /\ op[s].kind = "import"
      /\ UNCHANGED <<refs, offers, catalogs, op, mine>>
    BY DEF WriteImported
<1>2. PICK v : v.catalog = mine[s] /\ offerDraft' \in {offerDraft, [offerDraft EXCEPT ![s][r] = v]}
    <2> DEFINE v == [catalog |-> mine[s],
                     packed |-> StockedIn(s, r, ImportedRow(s, r, seen[s][r]))]
    <2>1. offerDraft' \in {offerDraft, [offerDraft EXCEPT ![s][r] = v]}
        BY DEF WriteImported
    <2>2. v.catalog = mine[s]
        OBVIOUS
    <2> HIDE DEF v
    <2> QED
        BY <2>1, <2>2
<1>3. PICK p \in {"read", "write", "commit"} : at' = [at EXCEPT ![s] = p]
    BY DEF WriteImported, Next1
<1>4. todo' = [todo EXCEPT ![s] = @ \ {r}]
    BY DEF WriteImported, Next1
<1>5. at'[s] = p /\ \A t \in Sessions \ {s} :
          at'[t] = at[t] /\ todo'[t] = todo[t] /\ offerDraft'[t] = offerDraft[t]
    BY <1>2, <1>3, <1>4 DEF Shape
<1>6. \A x \in Refs : offerDraft'[s][x] = offerDraft[s][x] \/ offerDraft'[s][x] = v
    BY <1>2 DEF Shape
<1>7. Shape' /\ OffersHaveTheirCatalog'
    BY <1>1, <1>2, <1>3, <1>4 DEF Shape, OffersHaveTheirCatalog
<1>8. OwnerInv'
    <2>1. ASSUME NEW t \in Sessions
          PROVE  Owns(t)'
        <3>1. Owns(t) /\ (t # s => at'[t] = at[t])
            BY <1>5 DEF OwnerInv
        <3> QED
            BY <1>1, <1>5, <3>1 DEF Owns
    <2> QED
        BY <2>1 DEF OwnerInv
<1>9. DraftInv' /\ DeleteInv'
    <2>1. ASSUME NEW t \in Sessions, t # s
          PROVE  Drafts(t)' /\ Deletes(t)'
        BY <1>1, <1>5, <2>1, Bystander
    <2>2. Drafts(s)'
        <3>1. Drafts(s)
            BY DEF DraftInv
        <3> QED
            BY <1>1, <1>2, <1>5, <1>6, <3>1 DEF Drafts
    <2>3. Deletes(s)'
        BY <1>1, <1>5 DEF Deletes
    <2> QED
        BY <2>1, <2>2, <2>3 DEF DraftInv, DeleteInv
<1> QED
    BY <1>7, <1>8, <1>9

\* What a session is left with at the end.
LEMMA EndStep ==
    ASSUME OfferInv, NEW s \in Sessions, Idle(s)
    PROVE  /\ DOMAIN op' = Sessions /\ DOMAIN at' = Sessions /\ DOMAIN mine' = Sessions
           /\ DOMAIN todo' = Sessions /\ DOMAIN offerDraft' = Sessions
           /\ \A t \in Sessions : DOMAIN offerDraft'[t] = Refs
           /\ at'[s] = "idle" /\ mine'[s] = None
           /\ \A r \in Refs : offerDraft'[s][r] = Untouched
           /\ \A t \in Sessions \ {s} :
                op'[t] = op[t] /\ at'[t] = at[t] /\ mine'[t] = mine[t]
                /\ todo'[t] = todo[t] /\ offerDraft'[t] = offerDraft[t]
<1> USE DEF OfferInv, Shape, Idle
<1>1. /\ op' = [op EXCEPT ![s] = None] /\ at' = [at EXCEPT ![s] = "idle"]
      /\ mine' = [mine EXCEPT ![s] = None] /\ todo' = [todo EXCEPT ![s] = {}]
      /\ offerDraft' = [offerDraft EXCEPT ![s] = [r \in Refs |-> Untouched]]
    OBVIOUS
<1> QED
    BY <1>1

\* A transaction rolled back leaves everything as it was.
LEMMA RollbackStep ==
    ASSUME OfferInv, NEW s \in Sessions, Idle(s), UNCHANGED tables
    PROVE  OfferInv'
<1>1. Shape' /\ OffersHaveTheirCatalog'
    BY EndStep DEF OfferInv, Shape, OffersHaveTheirCatalog
<1>2. ASSUME NEW t \in Sessions, t # s
      PROVE  Owns(t)' /\ Drafts(t)' /\ Deletes(t)'
    <2>1. Drafts(t)' /\ Deletes(t)'
        BY <1>2, EndStep, Bystander
    <2>2. Owns(t) /\ op'[t] = op[t] /\ at'[t] = at[t] /\ mine'[t] = mine[t]
        BY <1>2, EndStep DEF OfferInv, OwnerInv
    <2>3. \A u \in Sessions \ {t} : mine'[u] \in {mine[u], None}
        BY EndStep
    <2>4. Owns(t)'
        BY <2>2, <2>3, NoneAssumption DEF Owns
    <2> QED
        BY <2>1, <2>4
<1>3. Owns(s)' /\ Drafts(s)' /\ Deletes(s)'
    BY EndStep DEF Owns, Drafts, Deletes
<1> QED
    BY <1>1, <1>2, <1>3 DEF OfferInv, OwnerInv, DraftInv, DeleteInv

\* The statements of a deletion.
LEMMA DeletionStep ==
    ASSUME OfferInv, NEW s \in Sessions,
           \/ SelectOffers(s) \/ DeleteOffers(s) \/ SelectOrphans(s)
           \/ DeleteOrphans(s) \/ Unlink(s)
    PROVE  OfferInv'
<1> USE DEF OfferInv
<1>1. /\ UNCHANGED <<refs, offers, catalogs, op, mine>>
      /\ at[s] \in Deleting
      /\ \E p \in {"delete offers", "select refs", "delete refs", "unlink", "commit"} :
           at' = [at EXCEPT ![s] = p]
    BY DEF SelectOffers, DeleteOffers, SelectOrphans, DeleteOrphans, Unlink
<1>2. PICK p \in {"delete offers", "select refs", "delete refs", "unlink", "commit"} :
           at' = [at EXCEPT ![s] = p]
    BY <1>1
<1>3. Owns(s) /\ Drafts(s) /\ Deletes(s) /\ op[s].kind = "delete" /\ Serves(s, "delete")
    BY <1>1 DEF OwnerInv, DraftInv, DeleteInv, Owns
<1>4. DOMAIN todo' = Sessions /\ \A t \in Sessions \ {s} : todo'[t] = todo[t]
    <2>1. todo' = todo \/ \E S : todo' = [todo EXCEPT ![s] = S]
        BY DEF SelectOffers, DeleteOffers, SelectOrphans, DeleteOrphans, Unlink
    <2> QED
        BY <2>1 DEF Shape
<1>5. /\ DOMAIN offerDraft' = Sessions
      /\ \A t \in Sessions \ {s} : offerDraft'[t] = offerDraft[t]
      /\ DOMAIN offerDraft'[s] = Refs
      /\ \A r \in Refs : offerDraft'[s][r] = offerDraft[s][r] \/ offerDraft'[s][r] = NoRow
    <2>1. CASE UNCHANGED offerDraft
        BY <2>1 DEF Shape
    <2>2. CASE DeleteOffers(s)
        BY <2>2 DEF DeleteOffers, Shape
    <2> QED
        BY <2>1, <2>2 DEF SelectOffers, SelectOrphans, DeleteOrphans, Unlink
<1>6. /\ at'[s] = p /\ DOMAIN at' = Sessions
      /\ \A t \in Sessions \ {s} :
           at'[t] = at[t] /\ todo'[t] = todo[t] /\ offerDraft'[t] = offerDraft[t]
    BY <1>2, <1>4, <1>5 DEF Shape
<1>7. Shape'
    BY <1>1, <1>4, <1>5, <1>6 DEF Shape
<1>8. OffersHaveTheirCatalog'
    BY <1>1 DEF OffersHaveTheirCatalog
<1>9. ASSUME NEW t \in Sessions, t # s
      PROVE  Owns(t)' /\ Drafts(t)' /\ Deletes(t)'
    <2>1. Drafts(t)' /\ Deletes(t)'
        BY <1>1, <1>6, <1>9, Bystander
    <2>2. Owns(t) /\ at'[t] = at[t]
        BY <1>6, <1>9 DEF OwnerInv
    <2>3. Owns(t)'
        BY <1>1, <2>2 DEF Owns
    <2> QED
        BY <2>1, <2>3
<1>10. Owns(s)'
    BY <1>1, <1>2, <1>3, <1>6 DEF Owns
<1>11. Drafts(s)'
    BY <1>1, <1>3, <1>5 DEF Drafts
<1>12. Deletes(s)'
    <2>1. CASE SelectOffers(s)
        <3>1. at'[s] = "delete offers" /\ todo'[s] =
                  {r \in Refs : offers[r] # NoRow /\ offers[r].catalog = mine[s]}
            BY <2>1 DEF SelectOffers, Shape
        <3> QED
            BY <1>1, <3>1 DEF Deletes
    <2>2. CASE DeleteOffers(s)
        <3>1. \A r \in todo[s] \cap Refs : offers[r] # NoRow => offerDraft'[s][r] = NoRow
            BY <2>2 DEF DeleteOffers, Shape
        <3>2. at[s] = "delete offers" /\ at'[s] = "select refs"
            BY <2>2 DEF DeleteOffers, Shape
        <3> QED
            BY <1>1, <1>3, <3>1, <3>2 DEF Deletes
    <2>3. CASE SelectOrphans(s) \/ DeleteOrphans(s) \/ Unlink(s)
        <3>1. /\ at[s] \in {"select refs", "delete refs", "unlink"}
              /\ at'[s] \in {"delete refs", "unlink", "commit"}
              /\ UNCHANGED offerDraft
            BY <2>3 DEF SelectOrphans, DeleteOrphans, Unlink, Shape
        <3> QED
            BY <1>1, <1>3, <3>1 DEF Deletes
    <2> QED
        BY <2>1, <2>2, <2>3
<1> QED
    BY <1>7, <1>8, <1>9, <1>10, <1>11, <1>12 DEF OwnerInv, DraftInv, DeleteInv

\* The rows a transaction leaves behind: those of an import name the catalogue that
\* appears with them, those of a deletion are gone with the catalogue it removes.
LEMMA CommitStep ==
    ASSUME OfferInv, NEW s \in Sessions, Commit(s)
    PROVE  OfferInv'
<1> USE DEF OfferInv
<1>1. /\ at[s] = "commit" /\ Idle(s)
      /\ offers' = [r \in Refs |-> OfferFor(s, r)]
      /\ catalogs' = [c \in Catalogs |->
             IF c # mine[s] THEN catalogs[c]
             ELSE IF op[s].kind = "delete" THEN "deleted"
             ELSE IF catalogs[c] = "none" THEN "present" ELSE catalogs[c]]
    BY DEF Commit
<1>2. Owns(s) /\ Drafts(s) /\ Deletes(s)
    BY DEF OwnerInv, DraftInv, DeleteInv
<1>3. \A r \in Refs : offers'[r] # NoRow =>
         \/ offers[r] # NoRow /\ offers'[r] = offers[r] /\ offerDraft[s][r] = Untouched
         \/ Serves(s, "import") /\ offers'[r].catalog = mine[s]
    BY <1>1, <1>2 DEF OfferFor, Drafts
<1>4. Shape'
    <2>1. \A r \in Refs : offers'[r] # NoRow => offers'[r].catalog \in Catalogs
        BY <1>2, <1>3 DEF Owns, Shape
    <2> QED
        BY <1>1, <2>1, EndStep DEF Shape
<1>5. OffersHaveTheirCatalog'
    <2>1. ASSUME NEW r \in Refs, offers'[r] # NoRow
          PROVE  catalogs'[offers'[r].catalog] = "present"
        <3>1. CASE Serves(s, "import") /\ offers'[r].catalog = mine[s]
            BY <1>1, <1>2, <3>1 DEF Owns
        <3>2. CASE offers[r] # NoRow /\ offers'[r] = offers[r] /\ offerDraft[s][r] = Untouched
            <4>1. catalogs[offers[r].catalog] = "present"
                BY <3>2 DEF OffersHaveTheirCatalog
            <4>2. op[s].kind = "delete" => offers[r].catalog # mine[s]
                BY <1>1, <1>2, <3>2, RowsAssumption DEF Deletes
            <4>3. offers[r].catalog \in Catalogs
                BY <3>2 DEF Shape
            <4> QED
                BY <1>1, <3>2, <4>1, <4>2, <4>3
        <3> QED
            BY <1>3, <2>1, <3>1, <3>2
    <2> QED
        BY <2>1 DEF OffersHaveTheirCatalog
<1>6. ASSUME NEW t \in Sessions, t # s
      PROVE  Owns(t)' /\ Drafts(t)' /\ Deletes(t)'
    <2>1. Owns(t) /\ Drafts(t) /\ Deletes(t)
        BY DEF OwnerInv, DraftInv, DeleteInv
    <2>2. /\ op'[t] = op[t] /\ at'[t] = at[t] /\ mine'[t] = mine[t]
          /\ todo'[t] = todo[t] /\ offerDraft'[t] = offerDraft[t]
        BY <1>1, <1>6, EndStep
    <2>3. \A u \in Sessions : mine'[u] \in {mine[u], None}
        BY <1>1, EndStep
    <2>4. \A c \in Catalogs : (catalogs[c] # "none" => catalogs'[c] # "none")
                              /\ (c # mine[s] => catalogs'[c] = catalogs[c])
        BY <1>1
    <2>5. Owns(t)'
        <3>1. Serves(t, "import") => mine[t] # mine[s]
            BY <1>6, <2>1 DEF Owns
        <3>2. Serves(t, "import") => \A u \in Sessions \ {t} : mine'[u] # mine[t]
            BY <2>1, <2>3, NoneAssumption DEF Owns
        <3> QED
            BY <2>1, <2>2, <2>4, <3>1, <3>2 DEF Owns
    <2>6. Drafts(t)'
        BY <2>1, <2>2 DEF Drafts
    <2>7. Deletes(t)'
        <3>1. ASSUME NEW r \in Refs, offers'[r] # NoRow, offers'[r].catalog = mine[t]
              PROVE  offers[r] # NoRow /\ offers[r].catalog = mine[t]
            <4>1. ~ (Serves(s, "import") /\ offers'[r].catalog = mine[s])
                BY <1>2, <1>6, <3>1 DEF Owns
            <4> QED
                BY <1>3, <3>1, <4>1
        <3> QED
            BY <2>1, <2>2, <3>1 DEF Deletes
    <2> QED
        BY <2>5, <2>6, <2>7
<1>7. Owns(s)' /\ Drafts(s)' /\ Deletes(s)'
    BY <1>1, EndStep DEF Owns, Drafts, Deletes
<1> QED
    BY <1>4, <1>5, <1>6, <1>7 DEF OwnerInv, DraftInv, DeleteInv

-----------------------------------------------------------------------------
(* The specification *)

\* Every step of every request.
LEMMA StepOffers == OfferInv /\ [Next]_vars => OfferInv'
<1> SUFFICES ASSUME OfferInv, [Next]_vars
             PROVE  OfferInv'
    OBVIOUS
<1>1. CASE UNCHANGED vars
    <2>1. UNCHANGED <<offers, catalogs, op, at, todo, mine, offerDraft>>
        BY <1>1 DEF vars
    <2>2. Shape' /\ OffersHaveTheirCatalog'
        BY <2>1 DEF OfferInv, Shape, OffersHaveTheirCatalog
    <2>3. OwnerInv'
        BY <2>1 DEF OfferInv, OwnerInv, Owns
    <2>4. DraftInv' /\ DeleteInv'
        BY <2>1, Bystander DEF DraftInv, DeleteInv
    <2> QED
        BY <2>2, <2>3, <2>4 DEF OfferInv
<1>2. CASE Next
    <2>1. PICK s \in Sessions :
            \/ \E q \in Requests :
                 \/ BeginImport(s, q) \/ BeginFeed(s, q) \/ BeginEdit(s, q)
                 \/ BeginPass(s, q) \/ BeginDelete(s, q)
            \/ Resolve(s) \/ ReadAll(s)
            \/ \E r \in Refs : ReadRow(s, r) \/ WriteImported(s, r) \/ WriteRow(s, r)
            \/ Refuse(s)
            \/ SelectOffers(s) \/ DeleteOffers(s) \/ SelectOrphans(s)
            \/ DeleteOrphans(s) \/ Unlink(s)
            \/ Commit(s) \/ Fails(s)
        BY <1>2 DEF Next
    <2>2. CASE \E q \in Requests :
                 \/ BeginImport(s, q) \/ BeginFeed(s, q) \/ BeginEdit(s, q)
                 \/ BeginPass(s, q) \/ BeginDelete(s, q)
        BY <2>2, BeginStep
    <2>3. CASE Resolve(s)
        BY <2>3, RowStep DEF Resolve
    <2>4. CASE ReadAll(s)
        <3>1. /\ at[s] = "read" /\ UNCHANGED <<offers, catalogs, op, mine, offerDraft>>
              /\ \E S : todo' = [todo EXCEPT ![s] = S]
              /\ \E p \in {"read", "write", "commit"} : at' = [at EXCEPT ![s] = p]
            BY <2>4 DEF ReadAll
        <3> QED
            BY <3>1, RowStep
    <2>5. ASSUME NEW r \in Refs, ReadRow(s, r) \/ WriteRow(s, r)
          PROVE  OfferInv'
        <3>1. /\ at[s] \in {"read", "write"}
              /\ UNCHANGED <<offers, catalogs, op, mine, offerDraft>>
              /\ todo' = todo \/ todo' = [todo EXCEPT ![s] = @ \ {r}]
              /\ \E p \in {"read", "write", "commit"} : at' = [at EXCEPT ![s] = p]
            BY <2>5 DEF ReadRow, WriteRow, Next1
        <3> QED
            BY <3>1, RowStep
    <2>6. CASE \E r \in Refs : WriteImported(s, r)
        BY <2>6, ImportStep
    <2>7. CASE Refuse(s) \/ Fails(s)
        BY <2>7, RollbackStep DEF Refuse, Fails
    <2>8. CASE SelectOffers(s) \/ DeleteOffers(s) \/ SelectOrphans(s)
               \/ DeleteOrphans(s) \/ Unlink(s)
        BY <2>8, DeletionStep
    <2>9. CASE Commit(s)
        BY <2>9, CommitStep
    <2> QED
        BY <2>1, <2>2, <2>3, <2>4, <2>5, <2>6, <2>7, <2>8, <2>9
<1> QED
    BY <1>1, <1>2

\* A catalogue that is deleted takes its offers with it, however imports, feeds, edits
\* and other deletions interleave with delete_catalog, and whatever fails.
THEOREM NoOfferOutlivesItsCatalogue == Spec => []OffersHaveTheirCatalog
<1>1. Init => OfferInv
    BY DEF Init, OfferInv, Shape, OwnerInv, Owns, DraftInv, Drafts, DeleteInv, Deletes,
           OffersHaveTheirCatalog
<1>2. OfferInv => OffersHaveTheirCatalog
    BY DEF OfferInv
<1> QED
    BY <1>1, <1>2, StepOffers, PTL DEF Spec
===============================================================================
