---------------------------- MODULE WorkerStore ----------------------------
(***************************************************************************)
(* The database-backed job store of the generic workers:                   *)
(* internal/workerutil/dbworker/store/store.go, together with the other    *)
(* statements of the repository that write the same table (sync jobs are   *)
(* enqueued, canceled and cleaned up outside of the store).                *)
(*                                                                         *)
(* Every action is one SQL statement.  Statements run outside of           *)
(* transactions and lock the rows they write, so a statement is atomic,    *)
(* with one exception that matters: Dequeue first reads a snapshot of      *)
(* candidates and then locks and rechecks one of them.  The two halves are *)
(* two actions.                                                            *)
(*                                                                         *)
(* Timestamps are abstracted to what the statements ask of them: whether a *)
(* heartbeat is older than StalledMaxAge (stalled), whether process_after  *)
(* lies in the future (delayed), and whether finished_at is more than      *)
(* RetryAfter ago (cooled).  The actions Stall, ProcessAfterPasses and     *)
(* CoolDown are the passing of time.                                       *)
(***************************************************************************)
EXTENDS Integers, FiniteSets

CONSTANTS
  Jobs,           \* record identifiers
  Hosts,          \* worker hostnames
  Unset,          \* an empty WorkerHostname option, and a NULL worker_hostname
  MaxNumResets,   \* Options.MaxNumResets
  MaxNumRetries,  \* Options.MaxNumRetries
  RetryAfterSet,  \* Options.RetryAfter > 0
  DequeueLimit,   \* LIMIT of potential_candidates (50 in the code)
  MaxRequeues     \* bound on explicit requeues of one record

ASSUME StoreAssumption ==
  /\ Unset \notin Hosts
  /\ MaxNumResets \in Nat
  /\ MaxNumRetries \in Nat
  /\ RetryAfterSet \in BOOLEAN
  /\ DequeueLimit \in Nat \ {0}
  /\ MaxRequeues \in Nat

VARIABLES
  jobs,        \* the table: a row for each record identifier
  candidates,  \* potential_candidates of the Dequeue in flight on each host
  dequeues,    \* history: how often each record was moved to processing
  requeues     \* history: how often each record was explicitly requeued

storeVars == <<jobs, candidates, dequeues, requeues>>
----------------------------------------------------------------------------
(***************************************************************************)
(* Rows.  "absent" is a record not inserted yet, "deleted" one that was    *)
(* removed; identifiers are never reused.                                  *)
(***************************************************************************)
Active   == {"queued", "processing"}
Terminal == {"completed", "failed", "canceled"}
States   == Active \cup Terminal \cup {"absent", "errored", "deleted"}

Row == [state : States, cancel : BOOLEAN,
        num_resets : Nat, num_failures : Nat,
        worker_hostname : Hosts \cup {Unset},
        stalled : BOOLEAN, delayed : BOOLEAN, cooled : BOOLEAN]

AbsentRow == [state |-> "absent", cancel |-> FALSE,
              num_resets |-> 0, num_failures |-> 0,
              worker_hostname |-> Unset,
              stalled |-> FALSE, delayed |-> FALSE, cooled |-> FALSE]

\* No Dequeue statement is in flight on this host.
NoDequeue == [open |-> FALSE, ids |-> {}]

\* The WHERE conditions of the HeartbeatOptions and MarkFinalOptions.
HostMatches(r, host) == host = Unset \/ r.worker_hostname = host

\* The WHERE clause of potential_candidates.
Dequeueable(r) ==
  \/ r.state = "queued" /\ ~r.delayed
  \/ RetryAfterSet /\ r.state = "errored" /\ r.cooled

\* Mutant: a record that is being processed passes the recheck.
RecheckAnyActive(r) == r.state \in {"queued", "errored", "processing"}

\* "Recheck state" of the candidate query, evaluated on the locked row.
Recheck(r) == r.state \in {"queued", "errored"}

\* The stalled rows of the two reset statements.
StalledRow(r)          == r.state = "processing" /\ r.stalled

ResetCandidate(r)      == StalledRow(r) /\ r.num_resets < MaxNumResets
MaxResetsCandidate(r)  == StalledRow(r) /\ r.num_resets >= MaxNumResets

(***************************************************************************)
(* The SET clause of every statement, as the row it writes.                *)
(***************************************************************************)
EnqueuedRow(r) == [r EXCEPT !.state = "queued"]

DequeuedRow(r, host) ==
  [r EXCEPT !.state = "processing", !.worker_hostname = host,
            !.stalled = FALSE, !.cooled = FALSE]

HeartbeatRow(r) == [r EXCEPT !.stalled = FALSE]

RequeuedRow(r, after) ==
  [r EXCEPT !.state = "queued", !.delayed = after, !.cancel = FALSE,
            !.stalled = FALSE]

CompletedRow(r) ==
  [r EXCEPT !.state = "completed", !.stalled = FALSE, !.cooled = FALSE]

\* Mutants: one failure too many; the cancel flag is ignored.
ErroredRowOneMore(r) ==
  [r EXCEPT !.state = IF r.cancel THEN "canceled"
                      ELSE IF r.num_failures >= MaxNumRetries
                           THEN "failed" ELSE "errored",
            !.num_failures = IF r.cancel THEN @ ELSE @ + 1,
            !.stalled = FALSE, !.cooled = FALSE]
ErroredRowUncanceled(r) ==
  [r EXCEPT !.state = IF r.num_failures + 1 >= MaxNumRetries
                      THEN "failed" ELSE "errored",
            !.num_failures = @ + 1, !.stalled = FALSE, !.cooled = FALSE]

ErroredRow(r) ==
  [r EXCEPT !.state = IF r.cancel THEN "canceled"
                      ELSE IF r.num_failures + 1 >= MaxNumRetries
                           THEN "failed" ELSE "errored",
            !.num_failures = IF r.cancel THEN @ ELSE @ + 1,
            !.stalled = FALSE, !.cooled = FALSE]

FailedRow(r) ==
  [r EXCEPT !.state = IF r.cancel THEN "canceled" ELSE "failed",
            !.num_failures = IF r.cancel THEN @ ELSE @ + 1,
            !.stalled = FALSE, !.cooled = FALSE]

\* Mutant: the reset is counted down.
ResetRowCountsDown(r) ==
  [r EXCEPT !.state = "queued", !.num_resets = @ - 1, !.stalled = FALSE]

ResetRow(r) ==
  [r EXCEPT !.state = "queued", !.num_resets = @ + 1, !.stalled = FALSE]

MaxResetsRow(r) ==
  [r EXCEPT !.state = "failed", !.stalled = FALSE, !.cooled = FALSE]

\* CancelSyncJob: a queued record is aborted, a running one only flagged.
CancelableRow(r) == r.state \in Active /\ ~r.cancel

CanceledRow(r) ==
  [r EXCEPT !.cancel = TRUE,
            !.state = IF r.state = "processing" THEN @ ELSE "canceled"]

\* A record that is gone from the table.
DeletedRow(r) == [r EXCEPT !.state = "deleted"]

\* An UPDATE (or DELETE) of the rows of S.
UpdateRows(S, NewRow(_)) ==
  jobs' = [j \in Jobs |-> IF j \in S THEN NewRow(jobs[j]) ELSE jobs[j]]
----------------------------------------------------------------------------
StoreInit ==
  /\ jobs = [j \in Jobs |-> AbsentRow]
  /\ candidates = [h \in Hosts |-> NoDequeue]
  /\ dequeues = [j \in Jobs |-> 0]
  /\ requeues = [j \in Jobs |-> 0]

\* A producer inserts a record; the column defaults make it queued.
Enqueue(j) ==
  /\ jobs[j].state = "absent"
  /\ jobs' = [jobs EXCEPT ![j] = EnqueuedRow(@)]
  /\ UNCHANGED <<candidates, dequeues, requeues>>

\* Dequeue, first half: the snapshot of the first DequeueLimit candidates.
\* (The order of the records is abstracted: any of them may come first.)
DequeueSelect(h, C) ==
  /\ ~candidates[h].open
  /\ LET all == {j \in Jobs : Dequeueable(jobs[j])}
     IN  /\ C \subseteq all
         /\ \/ C = all /\ Cardinality(C) <= DequeueLimit
            \/ Cardinality(C) = DequeueLimit
  /\ candidates' = [candidates EXCEPT ![h] = [open |-> TRUE, ids |-> C]]
  /\ UNCHANGED <<jobs, dequeues, requeues>>

\* Dequeue, second half: one candidate is locked, rechecked and updated.
DequeueClaim(h, j) ==
  /\ candidates[h].open
  /\ j \in candidates[h].ids
  /\ Recheck(jobs[j])
  /\ jobs' = [jobs EXCEPT ![j] = DequeuedRow(@, h)]
  /\ dequeues' = [dequeues EXCEPT ![j] = @ + 1]
  /\ candidates' = [candidates EXCEPT ![h] = NoDequeue]
  /\ UNCHANGED requeues

\* Dequeue, second half: every candidate is locked or gone, or the
\* statement fails.
DequeueNone(h) ==
  /\ candidates[h].open
  /\ candidates' = [candidates EXCEPT ![h] = NoDequeue]
  /\ UNCHANGED <<jobs, dequeues, requeues>>

\* The rows a heartbeat for ids touches: its knownIDs.
KnownIDs(ids, host) ==
  {j \in ids : jobs[j].state = "processing" /\ HostMatches(jobs[j], host)}

\* The known records that are flagged as to be canceled: its cancelIDs.
CancelIDs(ids, host) == {j \in KnownIDs(ids, host) : jobs[j].cancel}

Heartbeat(ids, host) ==
  /\ UpdateRows(KnownIDs(ids, host), HeartbeatRow)
  /\ UNCHANGED <<candidates, dequeues, requeues>>

\* Requeue has no condition on the state of the record.
Requeue(j, after) ==
  /\ jobs[j].state \notin {"absent", "deleted"}
  /\ requeues[j] < MaxRequeues
  /\ jobs' = [jobs EXCEPT ![j] = RequeuedRow(@, after)]
  /\ requeues' = [requeues EXCEPT ![j] = @ + 1]
  /\ UNCHANGED <<candidates, dequeues>>

\* Mutant: a record is updated whatever its state.
MarkableIDsAnyState(j, host) == {i \in {j} : HostMatches(jobs[i], host)}

\* The rows MarkComplete, MarkErrored and MarkFailed update for a record.
MarkableIDs(j, host) ==
  {i \in {j} : jobs[i].state = "processing" /\ HostMatches(jobs[i], host)}

MarkComplete(j, host) ==
  /\ UpdateRows(MarkableIDs(j, host), CompletedRow)
  /\ UNCHANGED <<candidates, dequeues, requeues>>

MarkErrored(j, host) ==
  /\ UpdateRows(MarkableIDs(j, host), ErroredRow)
  /\ UNCHANGED <<candidates, dequeues, requeues>>

MarkFailed(j, host) ==
  /\ UpdateRows(MarkableIDs(j, host), FailedRow)
  /\ UNCHANGED <<candidates, dequeues, requeues>>

\* ResetStalled, first statement; S are the stalled rows not row-locked.
ResetStalled(S) ==
  /\ S # {}
  /\ \A j \in S : ResetCandidate(jobs[j])
  /\ UpdateRows(S, ResetRow)
  /\ UNCHANGED <<candidates, dequeues, requeues>>

\* ResetStalled, second statement.
ResetStalledMaxResets(S) ==
  /\ S # {}
  /\ \A j \in S : MaxResetsCandidate(jobs[j])
  /\ UpdateRows(S, MaxResetsRow)
  /\ UNCHANGED <<candidates, dequeues, requeues>>

\* CancelSyncJob for one record, or for all records of an external service.
CancelSyncJob(S) ==
  /\ S # {}
  /\ \A j \in S : CancelableRow(jobs[j])
  /\ UpdateRows(S, CanceledRow)
  /\ UNCHANGED <<candidates, dequeues, requeues>>

\* runJobCleaner deletes finished records after a day.
CleanSyncJobs(S) ==
  /\ S # {}
  /\ \A j \in S : jobs[j].state \in {"completed", "failed"}
  /\ UpdateRows(S, DeletedRow)
  /\ UNCHANGED <<candidates, dequeues, requeues>>

\* Time: the last heartbeat of a processing record becomes too old.
Stall(j) ==
  /\ jobs[j].state = "processing" /\ ~jobs[j].stalled
  /\ jobs' = [jobs EXCEPT ![j].stalled = TRUE]
  /\ UNCHANGED <<candidates, dequeues, requeues>>

\* Time: process_after passes.
ProcessAfterPasses(j) ==
  /\ jobs[j].delayed
  /\ jobs' = [jobs EXCEPT ![j].delayed = FALSE]
  /\ UNCHANGED <<candidates, dequeues, requeues>>

\* Time: RetryAfter has elapsed since an errored record finished.
CoolDown(j) ==
  /\ jobs[j].state = "errored" /\ ~jobs[j].cooled
  /\ jobs' = [jobs EXCEPT ![j].cooled = TRUE]
  /\ UNCHANGED <<candidates, dequeues, requeues>>

\* The passing of time.
StoreTime(j) == Stall(j) \/ ProcessAfterPasses(j) \/ CoolDown(j)

\* Any client may call any operation at any time.
StoreNext ==
  \/ \E h \in Hosts :
       \/ \E C \in SUBSET Jobs : DequeueSelect(h, C)
       \/ \E j \in Jobs : DequeueClaim(h, j)
       \/ DequeueNone(h)
  \/ \E host \in Hosts \cup {Unset} :
       \/ \E ids \in SUBSET Jobs : Heartbeat(ids, host)
       \/ \E j \in Jobs : \/ MarkComplete(j, host)
                          \/ MarkErrored(j, host)
                          \/ MarkFailed(j, host)
  \/ \E j \in Jobs : \/ Enqueue(j)
                     \/ \E after \in BOOLEAN : Requeue(j, after)
                     \/ StoreTime(j)
  \/ \E S \in SUBSET Jobs : \/ ResetStalled(S)
                            \/ ResetStalledMaxResets(S)
                            \/ CancelSyncJob(S)
                            \/ CleanSyncJobs(S)

StoreSpec == StoreInit /\ [][StoreNext]_storeVars
----------------------------------------------------------------------------
\* The table and the Dequeue statements in flight are well formed.
StoreTypeOK ==
  /\ jobs \in [Jobs -> Row]
  /\ candidates \in [Hosts -> [open : BOOLEAN, ids : SUBSET Jobs]]
  /\ dequeues \in [Jobs -> Nat]
  /\ requeues \in [Jobs -> Nat]

\* How many unsuccessful attempts end a record: MaxNumRetries, but at least
\* one attempt is always made.
Budget == IF MaxNumRetries = 0 THEN 1 ELSE MaxNumRetries

(***************************************************************************)
(* A poison message cannot occupy workers forever: whatever the workers    *)
(* and the resetter do, crash or retry, a record is moved to processing at *)
(* most MaxNumResets + max(1, MaxNumRetries) times, plus at most two more  *)
(* times per explicit Requeue.  (markErroredQuery, resetStalledQuery and   *)
(* resetStalledMaxResetsQuery together; "to prevent an infinite retry      *)
(* cycle of the same input".)                                              *)
(***************************************************************************)
PoisonBound ==
  \A j \in Jobs :
    dequeues[j] <= MaxNumResets + Budget + 2 * requeues[j]

(***************************************************************************)
(* Every processing attempt is accounted for: each time a record entered   *)
(* processing it either left it by a counted reset, failure or requeue, or *)
(* this was its last attempt.                                              *)
(***************************************************************************)
AttemptsAccounted ==
  \A j \in Jobs :
    dequeues[j] <= jobs[j].num_resets + jobs[j].num_failures + requeues[j]
                   + (IF jobs[j].state \in Terminal \cup {"processing", "deleted"}
                      THEN 1 ELSE 0)

(***************************************************************************)
(* The counters that bound the attempts: resets never exceed MaxNumResets, *)
(* and a record that may still run has not used up its failures.           *)
(***************************************************************************)
BudgetInv ==
  \A j \in Jobs :
    /\ jobs[j].num_resets <= MaxNumResets
    /\ jobs[j].num_failures <= Budget + requeues[j]
    /\ jobs[j].state \in Active \cup {"absent", "errored", "completed", "canceled"}
         => jobs[j].num_failures < Budget + requeues[j]
    /\ jobs[j].num_failures = Budget + requeues[j]
         => dequeues[j] <= jobs[j].num_resets + jobs[j].num_failures + requeues[j]

(***************************************************************************)
(* A late Mark, Heartbeat, reset or cancellation never revives or relabels *)
(* a finished record: a terminal state is left only by an explicit Requeue *)
(* or by the cleaner.  MarkErrored and MarkFailed leave a completed record *)
(* alone, as their statements (state = 'processing') and the comments of   *)
(* the methods say; the comments of the Store interface, which let them    *)
(* take effect on a completed record too, say otherwise.                   *)
(***************************************************************************)
TerminalIsFinal ==
  [][\A j \in Jobs :
       jobs[j].state \in Terminal =>
         \/ jobs'[j].state \in {jobs[j].state, "deleted"}
         \/ requeues'[j] > requeues[j]]_storeVars

(***************************************************************************)
(* A cancellation request is never lost to a retry: a flagged record stays *)
(* flagged through resets and repeated dequeues until it is explicitly     *)
(* requeued, and an unsuccessful attempt never leaves it errored, which is *)
(* the state that CancelSyncJob cannot reach (external_services.go).       *)
(***************************************************************************)
CancelSticks ==
  [][\A j \in Jobs :
       jobs[j].cancel =>
         \/ jobs'[j].cancel /\ jobs'[j].state # "errored"
         \/ requeues'[j] > requeues[j]]_storeVars
============================================================================
