-------------------------- MODULE MigrationRunner --------------------------
(***************************************************************************)
(* Migrators and validators of one database schema that run at the same    *)
(* time (internal/database/migration: runner/run.go, runner/runner.go,     *)
(* runner/validate.go and store/store.go), in the direction up and without *)
(* the flags that ignore failed or pending migrations.                     *)
(*                                                                         *)
(* A migration is either a transaction or a CREATE INDEX CONCURRENTLY.     *)
(* Runners take turns under an advisory lock, but an index is created      *)
(* without it; migration_logs and the catalogs of PostgreSQL tell the      *)
(* others what is going on.  A step is a statement sent to the database.   *)
(* Statements may fail, and a runner may be killed and started again.      *)
(*                                                                         *)
(* External: PostgreSQL.  A CREATE INDEX CONCURRENTLY waits while another  *)
(* one works on the table.  An index with its name, valid or not, makes it *)
(* fail with the code 42P07, or do nothing if it says IF NOT EXISTS, as    *)
(* the migrations of this repository do.  A creation that fails or loses   *)
(* its client leaves an invalid index behind.                              *)
(***************************************************************************)
EXTENDS Integers, FiniteSets

CONSTANTS
  Runners,      \* migrators and validators
  Nobody,       \* no runner
  Last,         \* the migrations are 1 .. Last, in the order of the graph
  Indexes,      \* those that create an index concurrently
  IfNotExists,  \* those of them that say IF NOT EXISTS
  MaxFailures   \* bound on the statements that fail and runners that die

Migrations == 1 .. Last

ASSUME RunnerAssumption ==
  /\ Nobody \notin Runners
  /\ Last \in Nat
  /\ IfNotExists \subseteq Indexes /\ Indexes \subseteq Migrations
  /\ MaxFailures \in Nat

VARIABLES
  lock,     \* who holds the advisory lock
  log,      \* the newest row of migration_logs of each migration
  index,    \* pg_index: the state of each index
  applied,  \* how often the transaction of each migration was committed
  runner,   \* where each runner is (see Runner)
  spoiled,  \* history: indexes whose creation failed while others were at it
  failures

dbVars == <<lock, log, index, applied>>
migrationVars == <<dbVars, runner, spoiled, failures>>
----------------------------------------------------------------------------
\* The row of a migration: success is NULL ("pending"), true or false, and a
\* successful row may be about the direction down ("reverted").  The runner by
\* will update the row.  The runners in later began a transaction after the
\* row was inserted: the row that they insert in it will be newer.
LogRow == [state : {"none", "pending", "ok", "failed", "reverted"},
           by : Runners \cup {Nobody}, later : SUBSET Runners]
NoLog  == [state |-> "none", by |-> Nobody, later |-> {}]

IndexStates == {"none", "building", "invalid", "valid"}

\* A runner waits for the lock, looks at the logs and at pending indexes,
\* applies a transaction, or creates an index.
RunnerStates ==
  {"off", "polling", "fetching", "checking", "done", "error"}
    \cup {"logging", "applying", "committed", "rolledback"}
    \cup {"probing", "recording", "recorded", "invalid", "dropping", "creating",
          "indexing", "building", "created", "raced"}

(***************************************************************************)
(* defs are the migrations that were not applied when the runner started,  *)
(* todo those it found not applied under the lock, blamed those it         *)
(* reported as failed, and unlocked whether it has given up its lock early.*)
(***************************************************************************)
Runner == [pc : RunnerStates, validates : BOOLEAN, defs : SUBSET Migrations,
           todo : SUBSET Migrations, blamed : SUBSET Migrations, unlocked : BOOLEAN]

NoRunner == [pc |-> "off", validates |-> FALSE, defs |-> {}, todo |-> {},
             blamed |-> {}, unlocked |-> FALSE]

Goto(i, pc) == runner' = [runner EXCEPT ![i].pc = pc]

\* Mutant: the migrations are applied in the order of Definitions.Down.
FirstDown(S) == CHOOSE d \in S : \A e \in S : d >= e

First(S) == CHOOSE d \in S : \A e \in S : d <= e

\* The migration that i works on.
Def(i) == First(runner[i].todo)

\* Versions, and groupByState for the migrations defs.
InState(defs, s) == {d \in defs : log[d].state = s}

Unlock(i) == lock' = IF lock = i THEN Nobody ELSE lock

\* The runner returns; a deferred call releases the lock.
Returns(i, pc, blamed) ==
  /\ runner' = [runner EXCEPT ![i] = [NoRunner EXCEPT !.pc = pc, !.blamed = blamed]]
  /\ Unlock(i)

\* The runner calls applyMigrations or validateDefinitions again.
Retries(i) ==
  /\ runner' = [runner EXCEPT ![i].pc = "polling", ![i].todo = {}, ![i].unlocked = FALSE]
  /\ Unlock(i)

\* The runner goes on with the first of todo, or returns.
Proceeds(i, todo) ==
  IF todo = {} THEN Returns(i, "done", {})
  ELSE /\ runner' = [runner EXCEPT ![i].todo = todo, ![i].pc =
                       IF First(todo) \in Indexes THEN "probing" ELSE "logging"]
       /\ UNCHANGED lock

\* createMigrationLog: a new row, which hides the older ones.
NewLog(i, d) == log' = [log EXCEPT ![d] = [state |-> "pending", by |-> i, later |-> {}]]

\* WithMigrationLog updates its row; it shows only if it is still the newest.
EndLog(i, d, s) ==
  log' = IF log[d].by # i THEN log
         ELSE [log EXCEPT ![d] = [state |-> s, by |-> Nobody, later |-> log[d].later]]

Fails == failures < MaxFailures /\ failures' = failures + 1
----------------------------------------------------------------------------
MigrationInit ==
  /\ lock = Nobody
  /\ log = [d \in Migrations |-> NoLog]
  /\ index \in [Indexes -> {"none", "invalid", "valid"}]
  /\ applied = [d \in Migrations \ Indexes |-> 0]
  /\ runner = [i \in Runners |-> NoRunner]
  /\ spoiled = {} /\ failures = 0

\* Run or Validate: forEachSchema gets the versions without a lock, and
\* Definitions.Up the migrations that are not applied.
Start(i, validates) ==
  LET defs == Migrations \ InState(Migrations, "ok")
  IN  /\ runner[i].pc \in {"off", "done", "error"}
      /\ runner' = [runner EXCEPT ![i] =
           [NoRunner EXCEPT !.pc = IF defs = {} THEN "done" ELSE "polling",
                            !.validates = validates /\ defs # {}, !.defs = defs]]
      /\ UNCHANGED <<dbVars, spoiled, failures>>

\* pollLock: TryLock succeeds.
PollLock(i) ==
  /\ runner[i].pc = "polling"
  /\ lock = Nobody
  /\ lock' = i
  /\ Goto(i, "fetching")
  /\ UNCHANGED <<log, index, applied, spoiled, failures>>

\* Mutant: the migrations to apply are the ones that were missing at start.
TodoStale(i) == runner[i].defs

\* filterAppliedDefinitions.
Todo(i) == runner[i].defs \ InState(runner[i].defs, "ok")

\* withLockedSchemaState gets the versions again.  A failed migration is an
\* error; if none is pending, the callback begins.
Fetch(i) ==
  LET r == runner[i]
      failed == InState(r.defs, "failed")
  IN  /\ r.pc = "fetching"
      /\ IF failed # {} THEN Returns(i, "error", failed)
         ELSE IF InState(r.defs, "pending") # {}
         THEN /\ runner' = [runner EXCEPT ![i].pc = "checking",
                                          ![i].todo = InState(r.defs, "pending")]
              /\ UNCHANGED lock
         ELSE IF r.validates
         THEN Returns(i, IF Todo(i) = {} THEN "done" ELSE "error", {})
         ELSE Proceeds(i, Todo(i))
      /\ UNCHANGED <<log, index, applied, spoiled, failures>>

\* Mutant: a pending index is taken for one that is being created.
DeadIfTransaction(S) == S \ Indexes

\* partitionPendingMigrations: no backend is seen to work on them.
Dead(S) == {d \in S : d \notin Indexes \/ index[d] # "building"}

\* validateSchemaState looks at the pending migrations it has found: it waits
\* for indexes, and takes the others for the work of a dead migrator.
CheckPending(i) ==
  LET dead == Dead(runner[i].todo)
  IN  /\ runner[i].pc = "checking"
      /\ IF dead # {} THEN Returns(i, "error", dead) ELSE Retries(i)
      /\ UNCHANGED <<log, index, applied, spoiled, failures>>
----------------------------------------------------------------------------
(***************************************************************************)
(* applyMigration: a row of the log, a transaction, and its result.        *)
(***************************************************************************)
LogTransaction(i) ==
  /\ runner[i].pc = "logging"
  /\ NewLog(i, Def(i))
  /\ Goto(i, "applying")
  /\ UNCHANGED <<lock, index, applied, spoiled, failures>>

\* Mutant: the lock is released before the log is complete.
UpUnlocks(i) ==
  /\ runner[i].pc = "applying"
  /\ applied' = [applied EXCEPT ![Def(i)] = @ + 1]
  /\ Goto(i, "committed")
  /\ Unlock(i)
  /\ UNCHANGED <<log, index, spoiled, failures>>

Up(i) ==
  /\ runner[i].pc = "applying"
  /\ applied' = [applied EXCEPT ![Def(i)] = @ + 1]
  /\ Goto(i, "committed")
  /\ UNCHANGED <<lock, log, index, spoiled, failures>>

UpFails(i) ==
  /\ runner[i].pc = "applying"
  /\ Fails
  /\ Goto(i, "rolledback")
  /\ UNCHANGED <<dbVars, spoiled>>

EndTransaction(i) ==
  /\ runner[i].pc = "committed"
  /\ EndLog(i, Def(i), "ok")
  /\ Proceeds(i, runner[i].todo \ {Def(i)})
  /\ UNCHANGED <<index, applied, spoiled, failures>>

\* Of a transaction, or of the creation of an index.
EndFailure(i) ==
  /\ runner[i].pc = "rolledback"
  /\ EndLog(i, Def(i), "failed")
  /\ Returns(i, "error", {})
  /\ UNCHANGED <<index, applied, spoiled, failures>>
----------------------------------------------------------------------------
(***************************************************************************)
(* createIndexConcurrently.                                                *)
(***************************************************************************)
\* The status of the index.  If there is nothing to repair, the lock is
\* released (again) before the index is created, or waited for.
Probe(i) ==
  LET status == index[Def(i)]
  IN  /\ runner[i].pc = "probing"
      /\ \/ status = "valid" /\ Goto(i, "recording") /\ UNCHANGED lock
         \/ status = "invalid" /\ Goto(i, "invalid") /\ UNCHANGED lock
         \/ /\ status \in {"none", "building"}
            /\ runner' = [runner EXCEPT ![i].unlocked = TRUE,
                 ![i].pc = IF status = "none" THEN "creating" ELSE "probing"]
            /\ Unlock(i)
      /\ UNCHANGED <<log, index, applied, spoiled, failures>>

\* "We need to ensure we add a migration log here before moving on."
Record(i) ==
  /\ runner[i].pc = "recording"
  /\ NewLog(i, Def(i))
  /\ Goto(i, "recorded")
  /\ UNCHANGED <<lock, index, applied, spoiled, failures>>

\* The caller goes on if it still has the lock.
EndRecord(i) ==
  /\ runner[i].pc = "recorded"
  /\ EndLog(i, Def(i), "ok")
  /\ IF runner[i].unlocked THEN Retries(i)
                           ELSE Proceeds(i, runner[i].todo \ {Def(i)})
  /\ UNCHANGED <<index, applied, spoiled, failures>>

\* Mutant: the lock is released before the index is dropped.
DropBeginsUnlocked(i) ==
  /\ runner[i].pc = "invalid"
  /\ log' = [log EXCEPT ![Def(i)].later = @ \cup {i}]
  /\ runner' = [runner EXCEPT ![i].pc = "dropping", ![i].unlocked = TRUE]
  /\ Unlock(i)
  /\ UNCHANGED <<index, applied, spoiled, failures>>

\* One transaction logs the direction down, with the time at which it begins,
DropBegins(i) ==
  /\ runner[i].pc = "invalid"
  /\ log' = [log EXCEPT ![Def(i)].later = @ \cup {i}]
  /\ Goto(i, "dropping")
  /\ UNCHANGED <<lock, index, applied, spoiled, failures>>

\* and drops the invalid index; DROP INDEX waits for a creation.  The row is
\* the newest one if none was inserted since.  Then the lock is released.
Drop(i) ==
  /\ runner[i].pc = "dropping"
  /\ index[Def(i)] # "building"
  /\ index' = [index EXCEPT ![Def(i)] = "none"]
  /\ log' = IF i \notin log[Def(i)].later THEN log
            ELSE [log EXCEPT ![Def(i)] = [state |-> "reverted", by |-> Nobody, later |-> {}]]
  /\ runner' = [runner EXCEPT ![i].pc = "creating", ![i].unlocked = TRUE]
  /\ Unlock(i)
  /\ UNCHANGED <<applied, spoiled, failures>>

LogIndex(i) ==
  /\ runner[i].pc = "creating"
  /\ NewLog(i, Def(i))
  /\ Goto(i, "indexing")
  /\ UNCHANGED <<lock, index, applied, spoiled, failures>>

\* What becomes of a creation that finds an index with its name.
Raced(d) == IF d \in IfNotExists THEN "created" ELSE "raced"

\* CREATE INDEX CONCURRENTLY gets the lock of the table.
CreateIndex(i) ==
  /\ runner[i].pc = "indexing"
  /\ index[Def(i)] # "building"
  /\ IF index[Def(i)] = "none"
     THEN index' = [index EXCEPT ![Def(i)] = "building"] /\ Goto(i, "building")
     ELSE Goto(i, Raced(Def(i))) /\ UNCHANGED index
  /\ UNCHANGED <<lock, log, applied, spoiled, failures>>

IndexBuilt(i) ==
  /\ runner[i].pc = "building"
  /\ index' = [index EXCEPT ![Def(i)] = "valid"]
  /\ Goto(i, "created")
  /\ UNCHANGED <<lock, log, applied, spoiled, failures>>

\* The index that i creates, if any, becomes invalid.
Spoils(i) ==
  IF runner[i].pc # "building" THEN UNCHANGED <<index, spoiled>>
  ELSE /\ index' = [index EXCEPT ![Def(i)] = "invalid"]
       /\ spoiled' = IF \E k \in Runners \ {i} :
                            runner[k].todo # {} /\ Def(k) = Def(i)
                     THEN spoiled \cup {Def(i)} ELSE spoiled

\* It fails, while it waits or later.
IndexFails(i) ==
  /\ runner[i].pc \in {"indexing", "building"}
  /\ Fails
  /\ Spoils(i)
  /\ Goto(i, "rolledback")
  /\ UNCHANGED <<lock, log, applied>>

\* createIndexConcurrently returns: the lock is gone, and the caller retries.
EndIndex(i) ==
  /\ runner[i].pc = "created"
  /\ EndLog(i, Def(i), "ok")
  /\ Retries(i)
  /\ UNCHANGED <<index, applied, spoiled, failures>>

\* raceDetected: the error was silenced, so the log says success, and the
\* status of the index is looked at again.
EndRaced(i) ==
  /\ runner[i].pc = "raced"
  /\ EndLog(i, Def(i), "ok")
  /\ Goto(i, "probing")
  /\ UNCHANGED <<lock, index, applied, spoiled, failures>>
----------------------------------------------------------------------------
\* The runner is killed: PostgreSQL releases its lock, and the rows that it
\* would have updated stay as they are; its transaction is rolled back.
Dies(i) ==
  /\ runner[i].pc \notin {"off", "done", "error"}
  /\ Fails
  /\ Spoils(i)
  /\ log' = [d \in Migrations |->
               IF log[d].by = i THEN [log[d] EXCEPT !.by = Nobody] ELSE log[d]]
  /\ Returns(i, "off", {})
  /\ UNCHANGED applied

RunnerStep(i) ==
  \/ PollLock(i) \/ Fetch(i) \/ CheckPending(i)
  \/ LogTransaction(i) \/ Up(i) \/ UpFails(i) \/ EndTransaction(i) \/ EndFailure(i)
  \/ Probe(i) \/ Record(i) \/ EndRecord(i) \/ DropBegins(i) \/ Drop(i)
  \/ LogIndex(i) \/ CreateIndex(i) \/ IndexBuilt(i) \/ IndexFails(i)
  \/ EndIndex(i) \/ EndRaced(i)

MigrationNext ==
  \E i \in Runners : \/ \E validates \in BOOLEAN : Start(i, validates)
                     \/ RunnerStep(i) \/ Dies(i)

MigrationSpec == MigrationInit /\ [][MigrationNext]_migrationVars

(***************************************************************************)
(* Runners go on, and PostgreSQL answers.  A runner that polls for the     *)
(* lock gets it if it is free again and again: others hold it for a while  *)
(* and do not start for ever.                                              *)
(***************************************************************************)
MigrationFairness ==
  \A i \in Runners : WF_migrationVars(RunnerStep(i)) /\ SF_migrationVars(PollLock(i))

FairMigrationSpec == MigrationSpec /\ MigrationFairness
----------------------------------------------------------------------------
\* The database and the runners are well formed, and the lock is held only by
\* a runner that is at work and has not given it up.
MigrationTypeOK ==
  /\ lock \in Runners \cup {Nobody}
  /\ log \in [Migrations -> LogRow]
  /\ index \in [Indexes -> IndexStates]
  /\ applied \in [Migrations \ Indexes -> Nat]
  /\ runner \in [Runners -> Runner]
  /\ \A i \in Runners :
       lock = i => /\ runner[i].pc \notin {"off", "polling", "done", "error"}
                   /\ ~runner[i].unlocked
  /\ spoiled \subseteq Indexes /\ failures \in 0 .. MaxFailures

\* The effect of a migration is there.
Effective(d) == IF d \in Indexes THEN index[d] = "valid" \/ d \in spoiled
                                 ELSE applied[d] > 0

(***************************************************************************)
(* No transaction of a migration is committed twice, whoever migrates at   *)
(* the same time and wherever a migrator is killed, also between the       *)
(* commit and the update of the log.  (With the types: the lock belongs to *)
(* a runner that is at work.)                                              *)
(***************************************************************************)
AppliedOnce ==
  /\ MigrationTypeOK
  /\ \A d \in Migrations \ Indexes : applied[d] <= 1

(***************************************************************************)
(* A migration is applied only after all the earlier ones, although the    *)
(* lock is given up in between: "so that we do not prematurely begin to    *)
(* apply the next migration, which may assume the successful creation of   *)
(* the index".  The code keeps this but for an index whose creation fails  *)
(* while another migrator is at it (spoiled).                              *)
(***************************************************************************)
InOrder ==
  \A d \in Migrations \ Indexes :
    applied[d] > 0 => \A e \in 1 .. d - 1 : Effective(e)

(***************************************************************************)
(* What the log calls applied is there: a service that Validate lets start *)
(* can rely on it.  The same exception applies: a CREATE INDEX that finds  *)
(* the invalid index of a failed one is logged as a success.               *)
(***************************************************************************)
LogTrue == \A d \in Migrations : log[d].state = "ok" => Effective(d)

(***************************************************************************)
(* "An error is returned only if user intervention is deemed a necessity": *)
(* nobody calls the schema dirty while nothing has failed.  The code keeps *)
(* this for transactions, whose runners have the lock until their log is   *)
(* complete; not for an index, whose row is pending for a while before the *)
(* creation starts and after it ends.                                      *)
(***************************************************************************)
NoFalseAlarm ==
  failures = 0 => \A i \in Runners : runner[i].blamed \subseteq Indexes

\* Every migrator and validator ends, with an error if need be.
RunnerEnds ==
  \A i \in Runners : runner[i].pc = "polling" ~> runner[i].pc \in {"off", "done", "error"}
=============================================================================
