------------------------- MODULE WorkerStore_proof -------------------------
(***************************************************************************)
(* Proofs about the job store, for every set of records and hosts and      *)
(* every configuration of the limits.                                      *)
(***************************************************************************)
EXTENDS WorkerStore, TLAPS

USE StoreAssumption

(***************************************************************************)
(* The rows that the SET clauses write are rows again.                     *)
(***************************************************************************)
LEMMA RowsTyped ==
  ASSUME NEW r \in Row
  PROVE  /\ \A h \in Hosts : DequeuedRow(r, h) \in Row
         /\ \A after \in BOOLEAN : RequeuedRow(r, after) \in Row
         /\ HeartbeatRow(r) \in Row
         /\ CompletedRow(r) \in Row
         /\ ErroredRow(r) \in Row
         /\ FailedRow(r) \in Row
         /\ ResetRow(r) \in Row
         /\ MaxResetsRow(r) \in Row
         /\ CanceledRow(r) \in Row
         /\ DeletedRow(r) \in Row
         /\ EnqueuedRow(r) \in Row
<1> USE DEF Row, States, Active, Terminal
<1>0. r.num_resets + 1 \in Nat /\ r.num_failures + 1 \in Nat
  OBVIOUS
<1>1. ASSUME NEW h \in Hosts PROVE DequeuedRow(r, h) \in Row
  BY DEF DequeuedRow
<1>2. ASSUME NEW after \in BOOLEAN PROVE RequeuedRow(r, after) \in Row
  BY DEF RequeuedRow
<1>3. HeartbeatRow(r) \in Row
  BY DEF HeartbeatRow
<1>4. CompletedRow(r) \in Row
  BY DEF CompletedRow
<1>5. ErroredRow(r) \in Row
  <2>1. CASE r.cancel
    BY <2>1 DEF ErroredRow
  <2>2. CASE ~r.cancel /\ r.num_failures + 1 >= MaxNumRetries
    BY <1>0, <2>2 DEF ErroredRow
  <2>3. CASE ~r.cancel /\ ~(r.num_failures + 1 >= MaxNumRetries)
    BY <1>0, <2>3 DEF ErroredRow
  <2>4. QED
    BY <2>1, <2>2, <2>3
<1>6. FailedRow(r) \in Row
  <2>1. CASE r.cancel
    BY <2>1 DEF FailedRow
  <2>2. CASE ~r.cancel
    BY <1>0, <2>2 DEF FailedRow
  <2>3. QED
    BY <2>1, <2>2
<1>7. ResetRow(r) \in Row
  BY <1>0, Zenon DEF ResetRow
<1>8. MaxResetsRow(r) \in Row
  BY DEF MaxResetsRow
<1>9. CanceledRow(r) \in Row
  <2>1. CASE r.state = "processing"
    BY <2>1 DEF CanceledRow
  <2>2. CASE r.state # "processing"
    BY <2>2 DEF CanceledRow
  <2>3. QED
    BY <2>1, <2>2
<1>10. DeletedRow(r) \in Row /\ EnqueuedRow(r) \in Row
  BY DEF DeletedRow, EnqueuedRow
<1>11. QED
  BY <1>1, <1>2, <1>3, <1>4, <1>5, <1>6, <1>7, <1>8, <1>9, <1>10

(***************************************************************************)
(* An UPDATE whose SET clause writes rows keeps the table well formed.     *)
(***************************************************************************)
LEMMA TableTyped ==
  ASSUME jobs \in [Jobs -> Row]
  PROVE  /\ \A S : UpdateRows(S, HeartbeatRow) => jobs' \in [Jobs -> Row]
         /\ \A S : UpdateRows(S, CompletedRow) => jobs' \in [Jobs -> Row]
         /\ \A S : UpdateRows(S, ErroredRow) => jobs' \in [Jobs -> Row]
         /\ \A S : UpdateRows(S, FailedRow) => jobs' \in [Jobs -> Row]
         /\ \A S : UpdateRows(S, ResetRow) => jobs' \in [Jobs -> Row]
         /\ \A S : UpdateRows(S, MaxResetsRow) => jobs' \in [Jobs -> Row]
         /\ \A S : UpdateRows(S, CanceledRow) => jobs' \in [Jobs -> Row]
         /\ \A S : UpdateRows(S, DeletedRow) => jobs' \in [Jobs -> Row]
<1>1. \A j \in Jobs : jobs[j] \in Row
  OBVIOUS
<1>2. QED
  BY <1>1, RowsTyped DEF UpdateRows

(***************************************************************************)
(* Every statement of the store keeps the table and the snapshots that     *)
(* Dequeue holds well formed.                                              *)
(***************************************************************************)
THEOREM StoreTypeCorrect == StoreSpec => []StoreTypeOK
<1>1. StoreInit => StoreTypeOK
  BY DEF StoreInit, StoreTypeOK, AbsentRow, Row, States, Active, Terminal, NoDequeue
<1>2. StoreTypeOK /\ [StoreNext]_storeVars => StoreTypeOK'
  <2> SUFFICES ASSUME StoreTypeOK, [StoreNext]_storeVars PROVE StoreTypeOK'
    OBVIOUS
  <2> USE DEF StoreTypeOK
  <2>0. \A j \in Jobs : jobs[j] \in Row
    OBVIOUS
  <2>1. ASSUME NEW h \in Hosts, NEW C \in SUBSET Jobs, DequeueSelect(h, C)
        PROVE  StoreTypeOK'
    BY <2>1 DEF DequeueSelect
  <2>2. ASSUME NEW h \in Hosts, NEW j \in Jobs, DequeueClaim(h, j)
        PROVE  StoreTypeOK'
    <3>1. DequeuedRow(jobs[j], h) \in Row
      BY <2>0, RowsTyped
    <3>2. jobs' \in [Jobs -> Row]
      BY <2>2, <3>1 DEF DequeueClaim
    <3>3. candidates' \in [Hosts -> [open : BOOLEAN, ids : SUBSET Jobs]]
      BY <2>2 DEF DequeueClaim, NoDequeue
    <3>4. dequeues' \in [Jobs -> Nat] /\ requeues' \in [Jobs -> Nat]
      BY <2>2 DEF DequeueClaim
    <3>5. QED
      BY <3>2, <3>3, <3>4
  <2>3. ASSUME NEW h \in Hosts, DequeueNone(h)
        PROVE  StoreTypeOK'
    BY <2>3 DEF DequeueNone, NoDequeue
  <2>4. ASSUME NEW host \in Hosts \cup {Unset}, NEW ids \in SUBSET Jobs,
               Heartbeat(ids, host)
        PROVE  StoreTypeOK'
    BY <2>4, TableTyped DEF Heartbeat
  <2>5. ASSUME NEW host \in Hosts \cup {Unset}, NEW j \in Jobs,
               \/ MarkComplete(j, host)
               \/ MarkErrored(j, host)
               \/ MarkFailed(j, host)
        PROVE  StoreTypeOK'
    BY <2>5, TableTyped DEF MarkComplete, MarkErrored, MarkFailed
  <2>6. ASSUME NEW j \in Jobs, Enqueue(j) \/ StoreTime(j)
        PROVE  StoreTypeOK'
    <3>1. EnqueuedRow(jobs[j]) \in Row
      BY <2>0, RowsTyped
    <3>2. /\ [jobs[j] EXCEPT !.stalled = TRUE] \in Row
          /\ [jobs[j] EXCEPT !.delayed = FALSE] \in Row
          /\ [jobs[j] EXCEPT !.cooled = TRUE] \in Row
      BY <2>0 DEF Row
    <3>3. jobs' \in [Jobs -> Row]
      BY <2>6, <3>1, <3>2 DEF Enqueue, StoreTime, Stall, ProcessAfterPasses, CoolDown
    <3>4. QED
      BY <2>6, <3>3 DEF Enqueue, StoreTime, Stall, ProcessAfterPasses, CoolDown
  <2>7. ASSUME NEW j \in Jobs, NEW after \in BOOLEAN, Requeue(j, after)
        PROVE  StoreTypeOK'
    <3>1. RequeuedRow(jobs[j], after) \in Row
      BY <2>0, RowsTyped
    <3>2. jobs' \in [Jobs -> Row]
      BY <2>7, <3>1 DEF Requeue
    <3>3. QED
      BY <2>7, <3>2 DEF Requeue
  <2>8. ASSUME NEW S \in SUBSET Jobs,
               \/ ResetStalled(S) \/ ResetStalledMaxResets(S)
               \/ CancelSyncJob(S) \/ CleanSyncJobs(S)
        PROVE  StoreTypeOK'
    BY <2>8, TableTyped DEF ResetStalled, ResetStalledMaxResets, CancelSyncJob,
                            CleanSyncJobs
  <2>9. CASE UNCHANGED storeVars
    BY <2>9 DEF storeVars
  <2>10. QED
    BY <2>1, <2>2, <2>3, <2>4, <2>5, <2>6, <2>7, <2>8, <2>9
       DEF StoreNext
<1>3. QED
  BY <1>1, <1>2, PTL DEF StoreSpec
----------------------------------------------------------------------------
(***************************************************************************)
(* The accounting of one record: AttemptsAccounted and BudgetInv for a row *)
(* r that was dequeued d times and requeued q times.                       *)
(***************************************************************************)
Accounted(r, d, q) ==
  /\ d <= r.num_resets + r.num_failures + q
          + (IF r.state \in Terminal \cup {"processing", "deleted"} THEN 1 ELSE 0)
  /\ r.num_resets <= MaxNumResets
  /\ r.num_failures <= Budget + q
  /\ r.state \in Active \cup {"absent", "errored", "completed", "canceled"}
       => r.num_failures < Budget + q
  /\ r.num_failures = Budget + q => d <= r.num_resets + r.num_failures + q

StoreInv == StoreTypeOK /\ AttemptsAccounted /\ BudgetInv

(***************************************************************************)
(* The accounting is exactly the two invariants, record by record.         *)
(***************************************************************************)
LEMMA AccountedIsInv ==
  (\A j \in Jobs : Accounted(jobs[j], dequeues[j], requeues[j]))
     <=> AttemptsAccounted /\ BudgetInv
BY Zenon DEF Accounted, AttemptsAccounted, BudgetInv

(***************************************************************************)
(* Each SET clause, under the WHERE clause of its statement, keeps the     *)
(* accounting of the row it writes.                                        *)
(***************************************************************************)
LEMMA RowsAccounted ==
  ASSUME NEW r \in Row, NEW d \in Nat, NEW q \in Nat, Accounted(r, d, q)
  PROVE  /\ \A h \in Hosts : Recheck(r) => Accounted(DequeuedRow(r, h), d + 1, q)
         /\ \A after \in BOOLEAN : r.state \notin {"absent", "deleted"}
              => Accounted(RequeuedRow(r, after), d, q + 1)
         /\ Accounted(HeartbeatRow(r), d, q)
         /\ r.state = "processing" => Accounted(CompletedRow(r), d, q)
         /\ r.state = "processing" => Accounted(ErroredRow(r), d, q)
         /\ r.state = "processing" => Accounted(FailedRow(r), d, q)
         /\ ResetCandidate(r) => Accounted(ResetRow(r), d, q)
         /\ MaxResetsCandidate(r) => Accounted(MaxResetsRow(r), d, q)
         /\ CancelableRow(r) => Accounted(CanceledRow(r), d, q)
         /\ r.state \in {"completed", "failed"}
              => Accounted(DeletedRow(r), d, q)
         /\ r.state = "absent" => Accounted(EnqueuedRow(r), d, q)
<1> USE DEF Accounted, Active, Terminal
<1>0. /\ r.num_resets \in Nat /\ r.num_failures \in Nat
      /\ Budget \in Nat /\ MaxNumRetries <= Budget /\ Budget >= 1
      /\ r.state \in States
  BY DEF Row, Budget
<1>1. ASSUME NEW h \in Hosts, Recheck(r)
      PROVE  Accounted(DequeuedRow(r, h), d + 1, q)
  <2>1. /\ DequeuedRow(r, h).state = "processing"
        /\ DequeuedRow(r, h).num_resets = r.num_resets
        /\ DequeuedRow(r, h).num_failures = r.num_failures
    BY DEF DequeuedRow, Row
  <2>2. QED
    BY <1>0, <1>1, <2>1 DEF Recheck
<1>2. ASSUME NEW after \in BOOLEAN, r.state \notin {"absent", "deleted"}
      PROVE  Accounted(RequeuedRow(r, after), d, q + 1)
  <2>1. /\ RequeuedRow(r, after).state = "queued"
        /\ RequeuedRow(r, after).num_resets = r.num_resets
        /\ RequeuedRow(r, after).num_failures = r.num_failures
    BY DEF RequeuedRow, Row
  <2>2. QED
    BY <1>0, <1>2, <2>1 DEF States
<1>3. Accounted(HeartbeatRow(r), d, q)
  <2>1. /\ HeartbeatRow(r).state = r.state
        /\ HeartbeatRow(r).num_resets = r.num_resets
        /\ HeartbeatRow(r).num_failures = r.num_failures
    BY DEF HeartbeatRow, Row
  <2>2. QED
    BY <2>1
<1>4. ASSUME r.state = "processing" PROVE Accounted(CompletedRow(r), d, q)
  <2>1. /\ CompletedRow(r).state = "completed"
        /\ CompletedRow(r).num_resets = r.num_resets
        /\ CompletedRow(r).num_failures = r.num_failures
    BY DEF CompletedRow, Row
  <2>2. QED
    BY <1>0, <1>4, <2>1
<1>5. ASSUME r.state = "processing" PROVE Accounted(ErroredRow(r), d, q)
  <2>1. CASE r.cancel
    <3>1. /\ ErroredRow(r).state = "canceled"
          /\ ErroredRow(r).num_resets = r.num_resets
          /\ ErroredRow(r).num_failures = r.num_failures
      BY <2>1 DEF ErroredRow, Row
    <3>2. QED
      BY <1>0, <1>5, <3>1
  <2>2. CASE ~r.cancel /\ r.num_failures + 1 >= MaxNumRetries
    <3>1. /\ ErroredRow(r).state = "failed"
          /\ ErroredRow(r).num_resets = r.num_resets
          /\ ErroredRow(r).num_failures = r.num_failures + 1
      BY <2>2 DEF ErroredRow, Row
    <3>2. QED
      BY <1>0, <1>5, <3>1
  <2>3. CASE ~r.cancel /\ ~(r.num_failures + 1 >= MaxNumRetries)
    <3>1. /\ ErroredRow(r).state = "errored"
          /\ ErroredRow(r).num_resets = r.num_resets
          /\ ErroredRow(r).num_failures = r.num_failures + 1
      BY <2>3 DEF ErroredRow, Row
    <3>2. r.num_failures + 1 < Budget
      BY <1>0, <2>3
    <3>3. QED
      BY <1>0, <1>5, <3>1, <3>2
  <2>4. QED
    BY <2>1, <2>2, <2>3
<1>6. ASSUME r.state = "processing" PROVE Accounted(FailedRow(r), d, q)
  <2>1. CASE r.cancel
    <3>1. /\ FailedRow(r).state = "canceled"
          /\ FailedRow(r).num_resets = r.num_resets
          /\ FailedRow(r).num_failures = r.num_failures
      BY <2>1 DEF FailedRow, Row
    <3>2. QED
      BY <1>0, <1>6, <3>1
  <2>2. CASE ~r.cancel
    <3>1. /\ FailedRow(r).state = "failed"
          /\ FailedRow(r).num_resets = r.num_resets
          /\ FailedRow(r).num_failures = r.num_failures + 1
      BY <2>2 DEF FailedRow, Row
    <3>2. QED
      BY <1>0, <1>6, <3>1
  <2>3. QED
    BY <2>1, <2>2
<1>7. ASSUME ResetCandidate(r) PROVE Accounted(ResetRow(r), d, q)
  <2>1. /\ ResetRow(r).state = "queued"
        /\ ResetRow(r).num_resets = r.num_resets + 1
        /\ ResetRow(r).num_failures = r.num_failures
    BY DEF ResetRow, Row
  <2>2. QED
    BY <1>0, <1>7, <2>1 DEF ResetCandidate, StalledRow
<1>8. ASSUME MaxResetsCandidate(r) PROVE Accounted(MaxResetsRow(r), d, q)
  <2>1. /\ MaxResetsRow(r).state = "failed"
        /\ MaxResetsRow(r).num_resets = r.num_resets
        /\ MaxResetsRow(r).num_failures = r.num_failures
    BY DEF MaxResetsRow, Row
  <2>2. QED
    BY <1>0, <1>8, <2>1 DEF MaxResetsCandidate, StalledRow
<1>9. ASSUME CancelableRow(r) PROVE Accounted(CanceledRow(r), d, q)
  <2>1. /\ CanceledRow(r).state \in {r.state, "canceled"}
        /\ r.state = "queued" => CanceledRow(r).state = "canceled"
        /\ CanceledRow(r).num_resets = r.num_resets
        /\ CanceledRow(r).num_failures = r.num_failures
    BY DEF CanceledRow, Row
  <2>2. QED
    BY <1>0, <1>9, <2>1 DEF CancelableRow
<1>10. ASSUME r.state \in {"completed", "failed"}
       PROVE  Accounted(DeletedRow(r), d, q)
  BY <1>0, <1>10 DEF DeletedRow, Row
<1>11. ASSUME r.state = "absent"
       PROVE  Accounted(EnqueuedRow(r), d, q)
  BY <1>0, <1>11 DEF EnqueuedRow, Row
<1>12. QED
  BY <1>1, <1>2, <1>3, <1>4, <1>5, <1>6, <1>7, <1>8, <1>9, <1>10, <1>11

(***************************************************************************)
(* The accounting of every record is preserved by every statement.         *)
(***************************************************************************)
LEMMA StoreInvStep ==
  ASSUME StoreInv, [StoreNext]_storeVars
  PROVE  \A j \in Jobs : Accounted(jobs'[j], dequeues'[j], requeues'[j])
<1> SUFFICES ASSUME NEW i \in Jobs
             PROVE  Accounted(jobs'[i], dequeues'[i], requeues'[i])
  OBVIOUS
<1>0. /\ jobs[i] \in Row /\ dequeues[i] \in Nat /\ requeues[i] \in Nat
      /\ Accounted(jobs[i], dequeues[i], requeues[i])
  BY AccountedIsInv DEF StoreInv, StoreTypeOK
<1>t. /\ jobs \in [Jobs -> Row]
      /\ dequeues \in [Jobs -> Nat] /\ requeues \in [Jobs -> Nat]
  BY DEF StoreInv, StoreTypeOK
<1>1. ASSUME NEW h \in Hosts, NEW C \in SUBSET Jobs, DequeueSelect(h, C)
      PROVE  Accounted(jobs'[i], dequeues'[i], requeues'[i])
  BY <1>0, <1>1 DEF DequeueSelect
<1>2. ASSUME NEW h \in Hosts, NEW j \in Jobs, DequeueClaim(h, j)
      PROVE  Accounted(jobs'[i], dequeues'[i], requeues'[i])
  <2>1. CASE i = j
    <3>1. /\ jobs'[i] = DequeuedRow(jobs[i], h) /\ Recheck(jobs[i])
          /\ dequeues'[i] = dequeues[i] + 1 /\ requeues'[i] = requeues[i]
      BY <1>2, <1>t, <2>1 DEF DequeueClaim
    <3>2. QED
      BY <1>0, <3>1, RowsAccounted
  <2>2. CASE i # j
    <3>1. /\ jobs'[i] = jobs[i]
          /\ dequeues'[i] = dequeues[i] /\ requeues'[i] = requeues[i]
      BY <1>2, <1>t, <2>2 DEF DequeueClaim
    <3>2. QED
      BY <1>0, <3>1
  <2>3. QED
    BY <2>1, <2>2
<1>3. ASSUME NEW h \in Hosts, DequeueNone(h)
      PROVE  Accounted(jobs'[i], dequeues'[i], requeues'[i])
  BY <1>0, <1>3 DEF DequeueNone
<1>4. ASSUME NEW host \in Hosts \cup {Unset}, NEW ids \in SUBSET Jobs,
             Heartbeat(ids, host)
      PROVE  Accounted(jobs'[i], dequeues'[i], requeues'[i])
  <2>1. /\ jobs'[i] \in {jobs[i], HeartbeatRow(jobs[i])}
        /\ UNCHANGED <<dequeues, requeues>>
    BY <1>4 DEF Heartbeat, UpdateRows
  <2>2. QED
    BY <1>0, <2>1, RowsAccounted
<1>5. ASSUME NEW host \in Hosts \cup {Unset}, NEW j \in Jobs,
             \/ MarkComplete(j, host)
             \/ MarkErrored(j, host)
             \/ MarkFailed(j, host)
      PROVE  Accounted(jobs'[i], dequeues'[i], requeues'[i])
  <2>1. /\ \/ jobs'[i] = jobs[i]
           \/ /\ jobs[i].state = "processing"
              /\ jobs'[i] \in {CompletedRow(jobs[i]), ErroredRow(jobs[i]),
                                FailedRow(jobs[i])}
        /\ UNCHANGED <<dequeues, requeues>>
    BY <1>5 DEF MarkComplete, MarkErrored, MarkFailed, MarkableIDs, UpdateRows
  <2>2. QED
    BY <1>0, <2>1, RowsAccounted
<1>6. ASSUME NEW j \in Jobs, Enqueue(j)
      PROVE  Accounted(jobs'[i], dequeues'[i], requeues'[i])
  <2>1. /\ \/ jobs'[i] = jobs[i]
           \/ /\ jobs[i].state = "absent"
              /\ jobs'[i] = EnqueuedRow(jobs[i])
        /\ UNCHANGED <<dequeues, requeues>>
    BY <1>6, <1>t DEF Enqueue
  <2>2. QED
    BY <1>0, <2>1, RowsAccounted
<1>7. ASSUME NEW j \in Jobs, NEW after \in BOOLEAN, Requeue(j, after)
      PROVE  Accounted(jobs'[i], dequeues'[i], requeues'[i])
  <2>1. CASE i = j
    <3>1. /\ jobs'[i] = RequeuedRow(jobs[i], after)
          /\ jobs[i].state \notin {"absent", "deleted"}
          /\ dequeues'[i] = dequeues[i] /\ requeues'[i] = requeues[i] + 1
      BY <1>7, <1>t, <2>1 DEF Requeue
    <3>2. QED
      BY <1>0, <3>1, RowsAccounted
  <2>2. CASE i # j
    <3>1. /\ jobs'[i] = jobs[i]
          /\ dequeues'[i] = dequeues[i] /\ requeues'[i] = requeues[i]
      BY <1>7, <1>t, <2>2 DEF Requeue
    <3>2. QED
      BY <1>0, <3>1
  <2>3. QED
    BY <2>1, <2>2
<1>8. ASSUME NEW j \in Jobs, StoreTime(j)
      PROVE  Accounted(jobs'[i], dequeues'[i], requeues'[i])
  <2>1. /\ jobs'[i].state = jobs[i].state
        /\ jobs'[i].num_resets = jobs[i].num_resets
        /\ jobs'[i].num_failures = jobs[i].num_failures
        /\ UNCHANGED <<dequeues, requeues>>
    BY <1>0, <1>8, <1>t DEF StoreTime, Stall, ProcessAfterPasses, CoolDown, Row
  <2>2. QED
    BY <1>0, <2>1 DEF Accounted
<1>9. ASSUME NEW S \in SUBSET Jobs,
             \/ ResetStalled(S) \/ ResetStalledMaxResets(S)
             \/ CancelSyncJob(S) \/ CleanSyncJobs(S)
      PROVE  Accounted(jobs'[i], dequeues'[i], requeues'[i])
  <2>1. /\ \/ jobs'[i] = jobs[i]
           \/ ResetCandidate(jobs[i]) /\ jobs'[i] = ResetRow(jobs[i])
           \/ MaxResetsCandidate(jobs[i]) /\ jobs'[i] = MaxResetsRow(jobs[i])
           \/ CancelableRow(jobs[i]) /\ jobs'[i] = CanceledRow(jobs[i])
           \/ /\ jobs[i].state \in {"completed", "failed"}
              /\ jobs'[i] = DeletedRow(jobs[i])
        /\ UNCHANGED <<dequeues, requeues>>
    BY <1>9, Zenon DEF ResetStalled, ResetStalledMaxResets, CancelSyncJob,
                       CleanSyncJobs, UpdateRows
  <2>2. QED
    BY <1>0, <2>1, RowsAccounted
<1>10. CASE UNCHANGED storeVars
  BY <1>0, <1>10 DEF storeVars
<1>11. QED
  BY <1>1, <1>2, <1>3, <1>4, <1>5, <1>6, <1>7, <1>8, <1>9, <1>10
     DEF StoreNext

(***************************************************************************)
(* A poison message cannot occupy workers forever.  PoisonBound alone is   *)
(* not inductive: the proof carries the accounting of the attempts of each *)
(* record, and the strict bound on the failures of a record that may still *)
(* run.                                                                    *)
(***************************************************************************)
THEOREM PoisonBounded == StoreSpec => []PoisonBound
<1>1. StoreInit => AttemptsAccounted /\ BudgetInv
  <2> SUFFICES ASSUME StoreInit, NEW j \in Jobs
               PROVE  Accounted(jobs[j], dequeues[j], requeues[j])
    BY AccountedIsInv
  <2>1. QED
    BY DEF StoreInit, Accounted, AbsentRow, Budget, Active, Terminal
<1>2. StoreInv /\ [StoreNext]_storeVars => (AttemptsAccounted /\ BudgetInv)'
  <2> SUFFICES ASSUME StoreInv, [StoreNext]_storeVars
               PROVE  (AttemptsAccounted /\ BudgetInv)'
    OBVIOUS
  <2>1. \A j \in Jobs : Accounted(jobs'[j], dequeues'[j], requeues'[j])
    BY StoreInvStep
  <2>2. QED
    BY <2>1, Zenon DEF Accounted, AttemptsAccounted, BudgetInv
<1>3. StoreInv => PoisonBound
  <2> SUFFICES ASSUME StoreInv, NEW j \in Jobs
               PROVE  dequeues[j] <= MaxNumResets + Budget + 2 * requeues[j]
    BY DEF PoisonBound
  <2>1. /\ jobs[j].num_resets \in Nat /\ jobs[j].num_failures \in Nat
        /\ dequeues[j] \in Nat /\ requeues[j] \in Nat /\ Budget \in Nat
    BY DEF StoreInv, StoreTypeOK, Row, Budget
  <2>2. Accounted(jobs[j], dequeues[j], requeues[j])
    BY AccountedIsInv DEF StoreInv
  <2>3. /\ dequeues[j] <= jobs[j].num_resets + jobs[j].num_failures + requeues[j] + 1
        /\ jobs[j].num_resets <= MaxNumResets
        /\ jobs[j].num_failures <= Budget + requeues[j]
        /\ jobs[j].num_failures = Budget + requeues[j]
             => dequeues[j] <= jobs[j].num_resets + jobs[j].num_failures + requeues[j]
    BY <2>1, <2>2 DEF Accounted
  <2>4. MaxNumResets \in Nat
    BY StoreAssumption
  <2>5. QED
    BY <2>1, <2>3, <2>4
<1>4. QED
  BY <1>1, <1>2, <1>3, StoreTypeCorrect, PTL DEF StoreSpec, StoreInv
----------------------------------------------------------------------------
(***************************************************************************)
(* What a statement may do to one row, for the two action properties.      *)
(***************************************************************************)
RowStep(r, s) ==
  \/ s = r
  \/ Recheck(r) /\ \E h \in Hosts : s = DequeuedRow(r, h)
  \/ s = HeartbeatRow(r)
  \/ /\ r.state = "processing"
     /\ s \in {CompletedRow(r), ErroredRow(r), FailedRow(r)}
  \/ r.state = "absent" /\ s = EnqueuedRow(r)
  \/ ResetCandidate(r) /\ s = ResetRow(r)
  \/ MaxResetsCandidate(r) /\ s = MaxResetsRow(r)
  \/ CancelableRow(r) /\ s = CanceledRow(r)
  \/ r.state \in {"completed", "failed"} /\ s = DeletedRow(r)
  \/ s.state = r.state /\ s.cancel = r.cancel

(***************************************************************************)
(* A step changes a row by one of the SET clauses, or requeues it.         *)
(***************************************************************************)
LEMMA StoreNextRows ==
  ASSUME StoreTypeOK, StoreNext, NEW i \in Jobs
  PROVE  \/ RowStep(jobs[i], jobs'[i])
         \/ requeues'[i] > requeues[i] /\ jobs'[i].state = "queued"
<1>0. jobs \in [Jobs -> Row] /\ requeues \in [Jobs -> Nat] /\ jobs[i] \in Row
  BY DEF StoreTypeOK
<1>1. ASSUME NEW h \in Hosts, NEW C \in SUBSET Jobs, DequeueSelect(h, C)
      PROVE  RowStep(jobs[i], jobs'[i])
  BY <1>1 DEF DequeueSelect, RowStep
<1>2. ASSUME NEW h \in Hosts, NEW j \in Jobs, DequeueClaim(h, j)
      PROVE  RowStep(jobs[i], jobs'[i])
  <2>1. \/ jobs'[i] = jobs[i]
        \/ Recheck(jobs[i]) /\ jobs'[i] = DequeuedRow(jobs[i], h)
    BY <1>0, <1>2 DEF DequeueClaim
  <2>2. QED
    BY <2>1, Zenon DEF RowStep
<1>3. ASSUME NEW h \in Hosts, DequeueNone(h)
      PROVE  RowStep(jobs[i], jobs'[i])
  BY <1>3 DEF DequeueNone, RowStep
<1>4. ASSUME NEW host \in Hosts \cup {Unset}, NEW ids \in SUBSET Jobs,
             Heartbeat(ids, host)
      PROVE  RowStep(jobs[i], jobs'[i])
  BY <1>4, Zenon DEF Heartbeat, UpdateRows, RowStep
<1>5. ASSUME NEW host \in Hosts \cup {Unset}, NEW j \in Jobs,
             \/ MarkComplete(j, host)
             \/ MarkErrored(j, host)
             \/ MarkFailed(j, host)
      PROVE  RowStep(jobs[i], jobs'[i])
  <2>1. \/ jobs'[i] = jobs[i]
        \/ /\ jobs[i].state = "processing"
           /\ jobs'[i] \in {CompletedRow(jobs[i]), ErroredRow(jobs[i]),
                             FailedRow(jobs[i])}
    BY <1>5 DEF MarkComplete, MarkErrored, MarkFailed, MarkableIDs, UpdateRows
  <2>2. QED
    BY <2>1, Zenon DEF RowStep
<1>6. ASSUME NEW j \in Jobs, Enqueue(j)
      PROVE  RowStep(jobs[i], jobs'[i])
  <2>1. \/ jobs'[i] = jobs[i]
        \/ jobs[i].state = "absent" /\ jobs'[i] = EnqueuedRow(jobs[i])
    BY <1>0, <1>6 DEF Enqueue
  <2>2. QED
    BY <2>1, Zenon DEF RowStep
<1>7. ASSUME NEW j \in Jobs, NEW after \in BOOLEAN, Requeue(j, after)
      PROVE  \/ jobs'[i] = jobs[i]
             \/ requeues'[i] > requeues[i] /\ jobs'[i].state = "queued"
  <2>1. RequeuedRow(jobs[i], after).state = "queued"
    BY <1>0 DEF RequeuedRow, Row
  <2>2. QED
    BY <1>0, <1>7, <2>1 DEF Requeue
<1>8. ASSUME NEW j \in Jobs, StoreTime(j)
      PROVE  RowStep(jobs[i], jobs'[i])
  <2>1. jobs'[i].state = jobs[i].state
    BY <1>0, <1>8 DEF StoreTime, Stall, ProcessAfterPasses, CoolDown, Row
  <2>2. jobs'[i].cancel = jobs[i].cancel
    BY <1>0, <1>8 DEF StoreTime, Stall, ProcessAfterPasses, CoolDown, Row
  <2>3. QED
    BY <2>1, <2>2, Zenon DEF RowStep
<1>9. ASSUME NEW S \in SUBSET Jobs,
             \/ ResetStalled(S) \/ ResetStalledMaxResets(S)
             \/ CancelSyncJob(S) \/ CleanSyncJobs(S)
      PROVE  RowStep(jobs[i], jobs'[i])
  BY <1>9, Zenon DEF ResetStalled, ResetStalledMaxResets, CancelSyncJob,
                     CleanSyncJobs, UpdateRows, RowStep
<1>10. QED
  BY <1>1, <1>2, <1>3, <1>4, <1>5, <1>6, <1>7, <1>8, <1>9
     DEF StoreNext, RowStep

(***************************************************************************)
(* The WHERE clauses keep finished rows finished.                          *)
(***************************************************************************)
LEMMA TerminalRow ==
  ASSUME NEW r \in Row, NEW s, RowStep(r, s), r.state \in Terminal
  PROVE  s.state \in {r.state, "deleted"}
<1>1. HeartbeatRow(r).state = r.state /\ DeletedRow(r).state = "deleted"
  BY DEF HeartbeatRow, DeletedRow, Row
<1>2. /\ ~Recheck(r) /\ r.state # "processing" /\ r.state # "absent"
      /\ ~ResetCandidate(r) /\ ~MaxResetsCandidate(r) /\ ~CancelableRow(r)
  BY DEF Terminal, Active, Recheck, ResetCandidate, MaxResetsCandidate,
         StalledRow, CancelableRow
<1>3. QED
  BY <1>1, <1>2, Zenon DEF RowStep

(***************************************************************************)
(* The SET clauses keep the cancel flag, and do not send a flagged row to  *)
(* errored.                                                                *)
(***************************************************************************)
LEMMA FlaggedRow ==
  ASSUME NEW r \in Row, NEW s, RowStep(r, s), r.cancel, r.state # "errored"
  PROVE  s.cancel /\ s.state # "errored"
<1>1. CASE s = r \/ s = HeartbeatRow(r)
  BY <1>1 DEF HeartbeatRow, Row
<1>2. CASE Recheck(r) /\ \E h \in Hosts : s = DequeuedRow(r, h)
  BY <1>2 DEF DequeuedRow, Row
<1>3. CASE s = CompletedRow(r)
  BY <1>3 DEF CompletedRow, Row
<1>4. CASE s = ErroredRow(r)
  BY <1>4 DEF ErroredRow, Row
<1>5. CASE s = FailedRow(r)
  BY <1>5 DEF FailedRow, Row
<1>6. CASE s = EnqueuedRow(r) \/ s = ResetRow(r)
  BY <1>6 DEF EnqueuedRow, ResetRow, Row
<1>7. CASE s = MaxResetsRow(r) \/ s = DeletedRow(r)
  BY <1>7 DEF MaxResetsRow, DeletedRow, Row
<1>8. CASE s = CanceledRow(r)
  BY <1>8 DEF CanceledRow, Row
<1>9. CASE s.state = r.state /\ s.cancel = r.cancel
  BY <1>9
<1>10. QED
  BY <1>1, <1>2, <1>3, <1>4, <1>5, <1>6, <1>7, <1>8, <1>9 DEF RowStep

(***************************************************************************)
(* A late Mark, Heartbeat, reset or cancellation never revives or relabels *)
(* a finished record.                                                      *)
(***************************************************************************)
THEOREM TerminalStaysFinal == StoreSpec => TerminalIsFinal
<1> DEFINE Keeps == \A j \in Jobs :
                      jobs[j].state \in Terminal =>
                        \/ jobs'[j].state \in {jobs[j].state, "deleted"}
                        \/ requeues'[j] > requeues[j]
<1>1. StoreTypeOK /\ [StoreNext]_storeVars => [Keeps]_storeVars
  <2> SUFFICES ASSUME StoreTypeOK, StoreNext, NEW j \in Jobs,
                      jobs[j].state \in Terminal,
                      ~(requeues'[j] > requeues[j])
               PROVE  jobs'[j].state \in {jobs[j].state, "deleted"}
    BY DEF storeVars
  <2>1. jobs[j] \in Row
    BY DEF StoreTypeOK
  <2>2. RowStep(jobs[j], jobs'[j])
    BY StoreNextRows
  <2>3. QED
    BY <2>1, <2>2, TerminalRow
<1>2. QED
  BY <1>1, StoreTypeCorrect, PTL DEF StoreSpec, TerminalIsFinal

(***************************************************************************)
(* A record that is not flagged is flagged only by a cancellation, which   *)
(* does not touch an errored one.                                          *)
(***************************************************************************)
LEMMA UnflaggedRow ==
  ASSUME NEW r \in Row, NEW s, RowStep(r, s), ~r.cancel
  PROVE  s.cancel => s.state # "errored"
<1>1. CASE s = r \/ s = HeartbeatRow(r)
  BY <1>1 DEF HeartbeatRow, Row
<1>2. CASE Recheck(r) /\ \E h \in Hosts : s = DequeuedRow(r, h)
  BY <1>2 DEF DequeuedRow, Row
<1>3. CASE s = CompletedRow(r)
  BY <1>3 DEF CompletedRow, Row
<1>4. CASE s = ErroredRow(r)
  BY <1>4 DEF ErroredRow, Row
<1>5. CASE s = FailedRow(r)
  BY <1>5 DEF FailedRow, Row
<1>6. CASE s = EnqueuedRow(r) \/ s = ResetRow(r)
  BY <1>6 DEF EnqueuedRow, ResetRow, Row
<1>7. CASE s = MaxResetsRow(r) \/ s = DeletedRow(r)
  BY <1>7 DEF MaxResetsRow, DeletedRow, Row
<1>8. CASE CancelableRow(r) /\ s = CanceledRow(r)
  BY <1>8 DEF CancelableRow, CanceledRow, Active, Row
<1>9. CASE s.state = r.state /\ s.cancel = r.cancel
  BY <1>9
<1>10. QED
  BY <1>1, <1>2, <1>3, <1>4, <1>5, <1>6, <1>7, <1>8, <1>9 DEF RowStep

\* No flagged record is errored: the invariant CancelSticks rests on.
FlagInv == \A j \in Jobs : jobs[j].cancel => jobs[j].state # "errored"

(***************************************************************************)
(* A cancellation request is never lost to a retry.                        *)
(***************************************************************************)
THEOREM CancellationSticks == StoreSpec => CancelSticks
<1> DEFINE Keeps == \A j \in Jobs :
                      jobs[j].cancel =>
                        \/ jobs'[j].cancel /\ jobs'[j].state # "errored"
                        \/ requeues'[j] > requeues[j]
<1>1. StoreInit => FlagInv
  BY DEF StoreInit, FlagInv, AbsentRow
<1>2. StoreTypeOK /\ FlagInv /\ [StoreNext]_storeVars => FlagInv'
  <2> SUFFICES ASSUME StoreTypeOK, FlagInv, StoreNext, NEW j \in Jobs
               PROVE  jobs'[j].cancel => jobs'[j].state # "errored"
    BY DEF storeVars, FlagInv
  <2>1. jobs[j] \in Row /\ (jobs[j].cancel => jobs[j].state # "errored")
    BY DEF StoreTypeOK, FlagInv
  <2>2. CASE jobs'[j].state = "queued"
    BY <2>2
  <2>3. CASE RowStep(jobs[j], jobs'[j])
    <3>1. CASE jobs[j].cancel
      BY <2>1, <2>3, <3>1, FlaggedRow
    <3>2. CASE ~jobs[j].cancel
      BY <2>1, <2>3, <3>2, UnflaggedRow
    <3>3. QED
      BY <3>1, <3>2
  <2>4. QED
    BY <2>2, <2>3, StoreNextRows
<1>3. StoreTypeOK /\ FlagInv /\ [StoreNext]_storeVars => [Keeps]_storeVars
  <2> SUFFICES ASSUME StoreTypeOK, FlagInv, StoreNext, NEW j \in Jobs,
                      jobs[j].cancel, ~(requeues'[j] > requeues[j])
               PROVE  jobs'[j].cancel /\ jobs'[j].state # "errored"
    BY DEF storeVars
  <2>1. jobs[j] \in Row /\ jobs[j].state # "errored"
    BY DEF StoreTypeOK, FlagInv
  <2>2. RowStep(jobs[j], jobs'[j])
    BY StoreNextRows
  <2>3. QED
    BY <2>1, <2>2, FlaggedRow
<1>4. QED
  BY <1>1, <1>2, <1>3, StoreTypeCorrect, PTL DEF StoreSpec, CancelSticks
============================================================================
