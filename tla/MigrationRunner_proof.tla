----------------------- MODULE MigrationRunner_proof -----------------------
(***************************************************************************)
(* Proofs about concurrent migrators, for every number of runners and      *)
(* migrations, whichever of them create indexes, and every number of       *)
(* failures.                                                               *)
(***************************************************************************)
EXTENDS MigrationRunner, WellFoundedInduction, TLAPS

USE RunnerAssumption

(***************************************************************************)
(* The runner works on the smallest of the migrations that it has to do.   *)
(***************************************************************************)
LEMMA FirstIsSmallest ==
  ASSUME NEW S \in SUBSET Migrations, S # {}
  PROVE  First(S) \in S /\ \A e \in S : First(S) <= e
<1>1. S \subseteq Nat
  BY DEF Migrations
<1>2. PICK x \in S : \A y \in S : ~(<<y, x>> \in OpToRel(<, Nat))
  BY <1>1, WFMin, NatLessThanWellFounded
<1>3. \A y \in S : ~(y < x)
  BY <1>1, <1>2 DEF OpToRel
<1>4. \A y \in S : x <= y
  BY <1>1, <1>3
<1>5. QED
  BY <1>4 DEF First

(***************************************************************************)
(* What the ways to move a runner do.                                      *)
(***************************************************************************)
LEMMA GotoEffect ==
  ASSUME runner \in [Runners -> Runner], NEW i \in Runners, NEW pc \in RunnerStates,
         Goto(i, pc)
  PROVE  /\ runner' \in [Runners -> Runner]
         /\ runner'[i].pc = pc /\ runner'[i].todo = runner[i].todo
         /\ runner'[i].defs = runner[i].defs /\ runner'[i].blamed = runner[i].blamed
         /\ runner'[i].unlocked = runner[i].unlocked
         /\ \A k \in Runners \ {i} : runner'[k] = runner[k]
BY DEF Goto, Runner

LEMMA ReturnsEffect ==
  ASSUME runner \in [Runners -> Runner], NEW i \in Runners,
         NEW pc \in RunnerStates, NEW blamed \in SUBSET Migrations, Returns(i, pc, blamed)
  PROVE  /\ runner' \in [Runners -> Runner]
         /\ runner'[i].pc = pc /\ runner'[i].todo = {} /\ runner'[i].defs = {}
         /\ runner'[i].blamed = blamed /\ runner'[i].unlocked = FALSE
         /\ \A k \in Runners \ {i} : runner'[k] = runner[k]
         /\ lock' = IF lock = i THEN Nobody ELSE lock
BY DEF Returns, Runner, NoRunner, Unlock

LEMMA RetriesEffect ==
  ASSUME runner \in [Runners -> Runner], NEW i \in Runners, Retries(i)
  PROVE  /\ runner' \in [Runners -> Runner]
         /\ runner'[i].pc = "polling" /\ runner'[i].todo = {}
         /\ runner'[i].defs = runner[i].defs /\ runner'[i].blamed = runner[i].blamed
         /\ runner'[i].unlocked = FALSE
         /\ \A k \in Runners \ {i} : runner'[k] = runner[k]
         /\ lock' = IF lock = i THEN Nobody ELSE lock
<1> DEFINE r == [runner[i] EXCEPT !.pc = "polling", !.todo = {}, !.unlocked = FALSE]
<1>1. lock' = IF lock = i THEN Nobody ELSE lock
  BY DEF Retries, Unlock
<1>2. runner' = [runner EXCEPT ![i] = r]
  BY DEF Retries
<1>3. /\ r \in Runner
      /\ r.pc = "polling" /\ r.todo = {} /\ r.defs = runner[i].defs
      /\ r.blamed = runner[i].blamed /\ r.unlocked = FALSE
  BY DEF Runner, RunnerStates
<1> HIDE DEF r
<1>4. QED
  BY <1>1, <1>2, <1>3

LEMMA ProceedsEffect ==
  ASSUME runner \in [Runners -> Runner], NEW i \in Runners,
         NEW todo \in SUBSET Migrations, todo # {}, Proceeds(i, todo)
  PROVE  /\ runner' \in [Runners -> Runner]
         /\ runner'[i].pc = IF First(todo) \in Indexes THEN "probing" ELSE "logging"
         /\ runner'[i].todo = todo
         /\ runner'[i].defs = runner[i].defs /\ runner'[i].blamed = runner[i].blamed
         /\ runner'[i].unlocked = runner[i].unlocked
         /\ \A k \in Runners \ {i} : runner'[k] = runner[k]
         /\ lock' = lock
<1> DEFINE pc == IF First(todo) \in Indexes THEN "probing" ELSE "logging"
<1>1. pc \in RunnerStates
  BY DEF RunnerStates
<1>2. runner' = [runner EXCEPT ![i].todo = todo, ![i].pc = pc] /\ UNCHANGED lock
  BY DEF Proceeds
<1> HIDE DEF pc
<1>3. QED
  BY <1>1, <1>2 DEF Runner, pc

LEMMA UnlocksEffect ==
  ASSUME runner \in [Runners -> Runner], NEW i \in Runners, NEW pc \in RunnerStates,
         \/ runner' = [runner EXCEPT ![i].unlocked = TRUE, ![i].pc = pc]
         \/ runner' = [runner EXCEPT ![i].pc = pc, ![i].unlocked = TRUE]
  PROVE  /\ runner' \in [Runners -> Runner]
         /\ runner'[i].pc = pc /\ runner'[i].todo = runner[i].todo
         /\ runner'[i].defs = runner[i].defs /\ runner'[i].blamed = runner[i].blamed
         /\ runner'[i].unlocked = TRUE
         /\ \A k \in Runners \ {i} : runner'[k] = runner[k]
<1> DEFINE r == [runner[i] EXCEPT !.unlocked = TRUE, !.pc = pc]
           q == [runner[i] EXCEPT !.pc = pc, !.unlocked = TRUE]
<1>1. /\ r \in Runner
      /\ r.pc = pc /\ r.todo = runner[i].todo /\ r.defs = runner[i].defs
      /\ r.blamed = runner[i].blamed /\ r.unlocked = TRUE
  BY DEF Runner
<1>2. r = q
  BY DEF Runner
<1>3. runner' = [runner EXCEPT ![i] = r] \/ runner' = [runner EXCEPT ![i] = q]
  OBVIOUS
<1> HIDE DEF r, q
<1>4. QED
  BY <1>1, <1>2, <1>3

----------------------------------------------------------------------------
\* A runner that is inside withLockedSchemaState.
Working == RunnerStates \ {"off", "polling", "done", "error"}

\* A runner that applies a transaction, or creates an index.
Transacting == {"logging", "applying", "committed"}
OnIndex     == {"probing", "recording", "recorded", "invalid", "dropping", "creating",
                "indexing", "building", "created", "raced"}
AtWork      == Transacting \cup OnIndex \cup {"rolledback"}

\* A runner that has found an invalid index and drops it.
Dropping == {"invalid", "dropping"}

\* A runner that has given up its lock.
Unlocked == {"creating", "indexing", "building", "created", "raced"}

Types ==
  /\ lock \in Runners \cup {Nobody}
  /\ log \in [Migrations -> LogRow]
  /\ index \in [Indexes -> IndexStates]
  /\ applied \in [Migrations \ Indexes -> Nat]
  /\ runner \in [Runners -> Runner]
  /\ spoiled \subseteq Indexes /\ failures \in 0 .. MaxFailures

(***************************************************************************)
(* The lock belongs to the runner that works and has not given it up.  A   *)
(* runner that has no lock works on an index.                              *)
(***************************************************************************)
Control(i) ==
  LET r == runner[i]
  IN  /\ lock = i <=> r.pc \in Working /\ ~r.unlocked
      /\ r.unlocked => r.pc \in OnIndex \cup {"rolledback"}
      /\ r.pc \in Unlocked => r.unlocked
      /\ r.todo \subseteq r.defs
      /\ r.pc \in AtWork =>
           /\ r.todo # {}
           /\ Def(i) \in Indexes <=> r.pc \in OnIndex \/ (r.pc = "rolledback" /\ r.unlocked)

ControlInv == \A i \in Runners : Control(i)

\* The runner has a transaction under way.
InTransaction(i) ==
  \/ runner[i].pc \in {"applying", "committed"}
  \/ runner[i].pc = "rolledback" /\ lock = i

\* What the log says of the transaction d.
Row(d) ==
  /\ log[d].state \in {"none", "failed"} => applied[d] = 0
  /\ log[d].state = "pending" => applied[d] <= 1
  /\ log[d].state = "ok" => applied[d] = 1
  /\ log[d].state # "reverted"
  /\ log[d].by # Nobody => InTransaction(log[d].by) /\ Def(log[d].by) = d

\* The log does not know the transactions that are left to the holder of the lock.
Untouched(i) ==
  lock = i /\ runner[i].pc \in AtWork =>
    \A d \in runner[i].todo \ Indexes :
      log[d].state = "none" \/ (InTransaction(i) /\ d = Def(i))

(***************************************************************************)
(* What the log says of a transaction; a runner that has the lock has      *)
(* found no trace of the transactions that it is going to apply.           *)
(***************************************************************************)
TransactionInv ==
  /\ \A d \in Migrations \ Indexes : Row(d)
  /\ \A i \in Runners :
       /\ InTransaction(i) => /\ log[Def(i)] = [state |-> "pending", by |-> i, later |-> {}]
                              /\ applied[Def(i)] = IF runner[i].pc = "committed" THEN 1 ELSE 0
       /\ Untouched(i)

(***************************************************************************)
(* An index is invalid only if nobody but the one that failed was at it,   *)
(* or it is spoiled; so that nobody drops one that has become valid.       *)
(***************************************************************************)
Watched(i) ==
  /\ runner[i].pc = "building" => index[Def(i)] = "building"
  /\ runner[i].unlocked /\ runner[i].pc # "rolledback" /\ Def(i) \notin spoiled
       => index[Def(i)] # "invalid"
  /\ runner[i].pc \in Dropping /\ Def(i) \notin spoiled => index[Def(i)] = "invalid"

IndexInv ==
  /\ \A i \in Runners : Watched(i)
  /\ \A i, k \in Runners :
       i # k /\ runner[i].pc = "building" /\ runner[k].pc = "building" => Def(i) # Def(k)

(***************************************************************************)
(* What a runner leaves out is there.                                      *)
(***************************************************************************)
Done(i) ==
  /\ runner[i].pc \in Working \cup {"polling"} =>
       \A d \in Migrations \ runner[i].defs : Effective(d)
  /\ runner[i].pc \in AtWork => \A d \in runner[i].defs \ runner[i].todo : Effective(d)
  /\ runner[i].pc \in {"recording", "recorded", "created", "raced"} => Effective(Def(i))

DoneInv == LogTrue /\ InOrder /\ \A i \in Runners : Done(i)

(***************************************************************************)
(* As long as nothing has failed, no transaction has a row that could be   *)
(* taken for a trace of a failure.                                         *)
(***************************************************************************)
NoTrace(d) == log[d].state # "failed" /\ (log[d].state = "pending" => log[d].by # Nobody)

NoBlame(i) ==
  /\ runner[i].pc # "rolledback"
  /\ runner[i].pc = "checking" => runner[i].todo \subseteq Indexes
  /\ runner[i].blamed \subseteq Indexes

AlarmInv ==
  failures = 0 => /\ \A d \in Migrations \ Indexes : NoTrace(d)
                  /\ \A i \in Runners : NoBlame(i)

MigrationInv ==
  /\ Types /\ ControlInv /\ TransactionInv /\ IndexInv /\ DoneInv /\ AlarmInv
----------------------------------------------------------------------------
(***************************************************************************)
(* The migration that a runner is at.                                      *)
(***************************************************************************)
LEMMA DefOfRunner ==
  ASSUME Types, ControlInv, NEW i \in Runners, runner[i].pc \in AtWork
  PROVE  /\ Def(i) \in runner[i].todo /\ Def(i) \in Migrations
         /\ \A e \in runner[i].todo : Def(i) <= e
<1>1. runner[i].todo \in SUBSET Migrations /\ runner[i].todo # {}
  BY DEF Types, Runner, ControlInv, Control
<1>2. QED
  BY <1>1, FirstIsSmallest DEF Def

(***************************************************************************)
(* The end of a creation that fails or loses its client.                   *)
(***************************************************************************)
LEMMA SpoilsEffect ==
  ASSUME Types, ControlInv, NEW i \in Runners, Spoils(i)
  PROVE  /\ index' \in [Indexes -> IndexStates] /\ spoiled' \subseteq Indexes
         /\ spoiled \subseteq spoiled'
         /\ runner[i].pc # "building" => UNCHANGED <<index, spoiled>>
         /\ runner[i].pc = "building" =>
              /\ index' = [index EXCEPT ![Def(i)] = "invalid"]
              /\ \A k \in Runners \ {i} :
                   runner[k].todo # {} /\ Def(k) = Def(i) => Def(i) \in spoiled'
<1>1. CASE runner[i].pc # "building"
  BY <1>1 DEF Spoils, Types
<1>2. CASE runner[i].pc = "building"
  <2>1. Def(i) \in Indexes
    BY <1>2 DEF ControlInv, Control, AtWork, OnIndex
  <2>2. /\ index' = [index EXCEPT ![Def(i)] = "invalid"]
        /\ spoiled' = IF \E k \in Runners \ {i} :
                            runner[k].todo # {} /\ Def(k) = Def(i)
                      THEN spoiled \cup {Def(i)} ELSE spoiled
    BY <1>2 DEF Spoils
  <2>3. index' \in [Indexes -> IndexStates]
    BY <2>1, <2>2 DEF Types, IndexStates
  <2>4. QED
    BY <1>2, <2>1, <2>2, <2>3 DEF Types
<1>3. QED
  BY <1>1, <1>2

(***************************************************************************)
(* The beginning of the transaction that drops an index only marks the row *)
(* of that index.                                                          *)
(***************************************************************************)
LEMMA DropBeginsEffect ==
  ASSUME Types, ControlInv, NEW i \in Runners, DropBegins(i)
  PROVE  /\ log' \in [Migrations -> LogRow] /\ Def(i) \in Indexes /\ Def(i) \in Migrations
         /\ \A d \in Migrations : d # Def(i) => log'[d] = log[d]
         /\ \A d \in Migrations : log'[d].state = log[d].state
<1>1. Def(i) \in Migrations /\ Def(i) \in Indexes
  BY DefOfRunner DEF DropBegins, ControlInv, Control, AtWork, OnIndex
<1> DEFINE row == [log[Def(i)] EXCEPT !.later = @ \cup {i}]
<1>2. log' = [log EXCEPT ![Def(i)] = row]
  BY DEF DropBegins
<1>3. row \in LogRow /\ row.state = log[Def(i)].state
  BY <1>1 DEF Types, LogRow
<1> HIDE DEF row
<1>4. QED
  BY <1>1, <1>2, <1>3 DEF Types

(***************************************************************************)
(* Every step keeps the database and the runners well formed.              *)
(***************************************************************************)
LEMMA TypesStep ==
  ASSUME Types, ControlInv, [MigrationNext]_migrationVars
  PROVE  Types'
<1> USE DEF Types, dbVars
<1>s. {"off", "polling", "fetching", "checking", "done", "error"} \subseteq RunnerStates
      /\ AtWork \subseteq RunnerStates
  BY DEF RunnerStates, AtWork, Transacting, OnIndex
<1>z. {} \in SUBSET Migrations
  OBVIOUS
<1>l. \A i \in Runners : Unlock(i) => lock' \in Runners \cup {Nobody}
  BY DEF Unlock
<1>n. \A i \in Runners, d \in Migrations : NewLog(i, d) => log' \in [Migrations -> LogRow]
  BY DEF NewLog, LogRow
<1>e. \A i \in Runners, d \in Migrations, st \in {"ok", "failed"} :
        EndLog(i, d, st) => log' \in [Migrations -> LogRow]
  BY DEF EndLog, LogRow
<1>f. Fails => failures' \in 0 .. MaxFailures
  BY DEF Fails
<1>p. ASSUME NEW i \in Runners, NEW todo \in SUBSET Migrations, Proceeds(i, todo)
      PROVE  runner' \in [Runners -> Runner] /\ lock' \in Runners \cup {Nobody}
  <2>1. CASE todo = {}
    BY <1>p, <1>s, <2>1, ReturnsEffect DEF Proceeds
  <2>2. CASE todo # {}
    BY <1>p, <2>2, ProceedsEffect
  <2>3. QED
    BY <2>1, <2>2
<1>r. \A i \in Runners : /\ runner[i].todo \in SUBSET Migrations
                         /\ runner[i].defs \in SUBSET Migrations
  BY DEF Runner
<1>1. ASSUME NEW i \in Runners, NEW validates \in BOOLEAN, Start(i, validates)
      PROVE  Types'
  <2> DEFINE defs == Migrations \ InState(Migrations, "ok")
             pc == IF defs = {} THEN "done" ELSE "polling"
             v == validates /\ defs # {}
  <2>1. pc \in RunnerStates /\ v \in BOOLEAN /\ defs \in SUBSET Migrations
    BY <1>s
  <2>2. runner' = [runner EXCEPT ![i] = [NoRunner EXCEPT !.pc = pc, !.validates = v, !.defs = defs]]
    BY <1>1 DEF Start
  <2> HIDE DEF defs, pc, v
  <2>3. runner' \in [Runners -> Runner]
    BY <2>1, <2>2 DEF NoRunner, Runner
  <2>4. QED
    BY <1>1, <2>3 DEF Start
<1>2. ASSUME NEW i \in Runners, PollLock(i)
      PROVE  Types'
  BY <1>2, <1>s, GotoEffect DEF PollLock
<1>3. ASSUME NEW i \in Runners, Fetch(i)
      PROVE  Types'
  <2>1. /\ InState(runner[i].defs, "failed") \in SUBSET Migrations
        /\ InState(runner[i].defs, "pending") \in SUBSET Migrations
        /\ Todo(i) \in SUBSET Migrations
    BY <1>r DEF InState, Todo
  <2>2. runner' \in [Runners -> Runner] /\ lock' \in Runners \cup {Nobody}
    <3>1. CASE InState(runner[i].defs, "failed") # {}
      BY <1>3, <1>s, <2>1, <3>1, ReturnsEffect DEF Fetch
    <3>2. CASE InState(runner[i].defs, "failed") = {} /\ InState(runner[i].defs, "pending") # {}
      BY <1>3, <1>s, <2>1, <3>2 DEF Fetch, Runner
    <3>3. CASE /\ InState(runner[i].defs, "failed") = {} /\ InState(runner[i].defs, "pending") = {}
               /\ runner[i].validates
      <4>1. PICK pc \in {"done", "error"} : Returns(i, pc, {})
        BY <1>3, <3>3 DEF Fetch
      <4>2. QED
        BY <1>s, <4>1, ReturnsEffect
    <3>4. CASE /\ InState(runner[i].defs, "failed") = {} /\ InState(runner[i].defs, "pending") = {}
               /\ ~runner[i].validates
      BY <1>3, <1>p, <2>1, <3>4 DEF Fetch
    <3>5. QED
      BY <3>1, <3>2, <3>3, <3>4
  <2>3. QED
    BY <1>3, <2>2 DEF Fetch
<1>4. ASSUME NEW i \in Runners, CheckPending(i)
      PROVE  Types'
  <2>1. Dead(runner[i].todo) \in SUBSET Migrations
    BY <1>r DEF Dead
  <2>2. runner' \in [Runners -> Runner] /\ lock' \in Runners \cup {Nobody}
    BY <1>4, <1>s, <2>1, ReturnsEffect, RetriesEffect DEF CheckPending
  <2>3. QED
    BY <1>4, <2>2 DEF CheckPending
<1>5. ASSUME NEW i \in Runners, LogTransaction(i) \/ Record(i) \/ LogIndex(i)
      PROVE  Types'
  <2>1. runner' \in [Runners -> Runner]
    BY <1>5, <1>s, GotoEffect DEF LogTransaction, Record, LogIndex, AtWork, Transacting, OnIndex
  <2>2. Def(i) \in Migrations /\ NewLog(i, Def(i))
    BY <1>5, DefOfRunner DEF LogTransaction, Record, LogIndex, AtWork, Transacting, OnIndex
  <2>3. QED
    BY <1>5, <1>n, <2>1, <2>2 DEF LogTransaction, Record, LogIndex
<1>6. ASSUME NEW i \in Runners, Up(i)
      PROVE  Types'
  <2>1. runner' \in [Runners -> Runner]
    BY <1>6, <1>s, GotoEffect DEF Up, AtWork, Transacting
  <2>2. applied' \in [Migrations \ Indexes -> Nat]
    <3>1. Def(i) \in Migrations \ Indexes
      BY <1>6, DefOfRunner DEF Up, ControlInv, Control, AtWork, Transacting, OnIndex
    <3>2. QED
      BY <1>6, <3>1 DEF Up
  <2>3. QED
    BY <1>6, <2>1, <2>2 DEF Up
<1>7. ASSUME NEW i \in Runners, UpFails(i)
      PROVE  Types'
  BY <1>7, <1>s, <1>f, GotoEffect DEF UpFails, AtWork
<1>8. ASSUME NEW i \in Runners, EndTransaction(i)
      PROVE  Types'
  <2>1. Def(i) \in Migrations /\ log' \in [Migrations -> LogRow]
    BY <1>8, <1>e, DefOfRunner DEF EndTransaction, AtWork, Transacting
  <2>2. runner' \in [Runners -> Runner] /\ lock' \in Runners \cup {Nobody}
    BY <1>8, <1>p, <1>r DEF EndTransaction
  <2>3. QED
    BY <1>8, <2>1, <2>2 DEF EndTransaction
<1>9. ASSUME NEW i \in Runners, EndFailure(i)
      PROVE  Types'
  <2>1. Def(i) \in Migrations /\ log' \in [Migrations -> LogRow]
    BY <1>9, <1>e, DefOfRunner DEF EndFailure, AtWork
  <2>2. runner' \in [Runners -> Runner] /\ lock' \in Runners \cup {Nobody}
    BY <1>9, <1>s, <1>z, ReturnsEffect DEF EndFailure
  <2>3. QED
    BY <1>9, <2>1, <2>2 DEF EndFailure
<1>10. ASSUME NEW i \in Runners, Probe(i)
       PROVE  Types'
  <2>1. CASE index[Def(i)] \in {"valid", "invalid"} /\ UNCHANGED lock
    BY <1>10, <1>s, <2>1, GotoEffect DEF Probe, AtWork, OnIndex
  <2>2. CASE /\ Unlock(i)
             /\ \E pc \in {"creating", "probing"} :
                  runner' = [runner EXCEPT ![i].unlocked = TRUE, ![i].pc = pc]
    <3>1. runner' \in [Runners -> Runner]
      BY <1>s, <2>2, UnlocksEffect DEF AtWork, OnIndex
    <3>2. QED
      BY <1>10, <1>l, <2>2, <3>1 DEF Probe
  <2>3. QED
    BY <1>10, <2>1, <2>2 DEF Probe
<1>11. ASSUME NEW i \in Runners, EndRecord(i)
       PROVE  Types'
  <2>1. Def(i) \in Migrations /\ log' \in [Migrations -> LogRow]
    BY <1>11, <1>e, DefOfRunner DEF EndRecord, AtWork, OnIndex
  <2>2. runner' \in [Runners -> Runner] /\ lock' \in Runners \cup {Nobody}
    BY <1>11, <1>p, <1>r, RetriesEffect DEF EndRecord
  <2>3. QED
    BY <1>11, <2>1, <2>2 DEF EndRecord
<1>12. ASSUME NEW i \in Runners, Drop(i)
       PROVE  Types'
  <2>1. Def(i) \in Migrations
    BY <1>12, DefOfRunner DEF Drop, AtWork, OnIndex
  <2>2. runner' \in [Runners -> Runner]
    BY <1>12, <1>s, UnlocksEffect DEF Drop, AtWork, OnIndex
  <2>3. log' \in [Migrations -> LogRow]
    BY <1>12 DEF Drop, LogRow
  <2>4. index' \in [Indexes -> IndexStates]
    BY <1>12 DEF Drop, IndexStates
  <2>5. QED
    BY <1>12, <1>l, <2>2, <2>3, <2>4 DEF Drop
<1>13. ASSUME NEW i \in Runners, CreateIndex(i) \/ IndexBuilt(i)
       PROVE  Types'
  <2>1. PICK pc \in {"building", "created", "raced"} : Goto(i, pc)
    BY <1>13 DEF CreateIndex, IndexBuilt, Raced
  <2>2. runner' \in [Runners -> Runner]
    BY <1>s, <2>1, GotoEffect DEF AtWork, OnIndex
  <2>3. index' \in [Indexes -> IndexStates]
    BY <1>13 DEF CreateIndex, IndexBuilt, IndexStates
  <2>4. QED
    BY <1>13, <2>2, <2>3 DEF CreateIndex, IndexBuilt
<1>14. ASSUME NEW i \in Runners, IndexFails(i)
       PROVE  Types'
  <2>1. runner' \in [Runners -> Runner]
    BY <1>14, <1>s, GotoEffect DEF IndexFails, AtWork
  <2>2. QED
    BY <1>14, <1>f, <2>1, SpoilsEffect DEF IndexFails
<1>15. ASSUME NEW i \in Runners, EndIndex(i) \/ EndRaced(i)
       PROVE  Types'
  <2>1. Def(i) \in Migrations /\ log' \in [Migrations -> LogRow]
    BY <1>15, <1>e, DefOfRunner DEF EndIndex, EndRaced, AtWork, OnIndex
  <2>2. runner' \in [Runners -> Runner] /\ lock' \in Runners \cup {Nobody}
    BY <1>15, <1>s, RetriesEffect, GotoEffect DEF EndIndex, EndRaced, AtWork, OnIndex
  <2>3. QED
    BY <1>15, <2>1, <2>2 DEF EndIndex, EndRaced
<1>16. ASSUME NEW i \in Runners, Dies(i)
       PROVE  Types'
  <2>1. runner' \in [Runners -> Runner] /\ lock' \in Runners \cup {Nobody}
    BY <1>16, <1>s, <1>z, ReturnsEffect DEF Dies
  <2>2. log' \in [Migrations -> LogRow]
    BY <1>16 DEF Dies, LogRow
  <2>3. index' \in [Indexes -> IndexStates] /\ spoiled' \subseteq Indexes
    BY <1>16, SpoilsEffect DEF Dies
  <2>4. QED
    BY <1>16, <1>f, <2>1, <2>2, <2>3 DEF Dies
<1>17. ASSUME NEW i \in Runners, DropBegins(i)
       PROVE  Types'
  <2>1. runner' \in [Runners -> Runner]
    BY <1>17, <1>s, GotoEffect DEF DropBegins, AtWork, OnIndex
  <2>2. QED
    BY <1>17, <2>1, DropBeginsEffect DEF DropBegins
<1>18. CASE UNCHANGED migrationVars
  BY <1>18 DEF migrationVars
<1>19. QED
  BY <1>1, <1>2, <1>3, <1>4, <1>5, <1>6, <1>7, <1>8, <1>9, <1>10, <1>11, <1>12, <1>13,
     <1>14, <1>15, <1>16, <1>17, <1>18 DEF MigrationNext, RunnerStep

(***************************************************************************)
(* Every step keeps the lock where the work is: the others stay where they *)
(* are, and lose no lock.                                                  *)
(***************************************************************************)
OthersStay(i) ==
  /\ \A k \in Runners \ {i} : runner'[k] = runner[k]
  /\ \/ lock' = lock
     \/ lock' = IF lock = i THEN Nobody ELSE lock
     \/ lock = Nobody /\ lock' = i

\* A step of the runner i.
StepOf(i) == (\E validates \in BOOLEAN : Start(i, validates)) \/ RunnerStep(i) \/ Dies(i)

LEMMA ControlOfStep ==
  ASSUME Types, ControlInv, NEW i \in Runners, StepOf(i)
  PROVE  OthersStay(i) /\ Control(i)'
<1> USE DEF dbVars
<1>t. runner \in [Runners -> Runner]
  BY DEF Types
<1>s. {"off", "polling", "fetching", "checking", "done", "error"} \subseteq RunnerStates
      /\ AtWork \subseteq RunnerStates
  BY DEF RunnerStates, AtWork, Transacting, OnIndex
<1>z. {} \in SUBSET Migrations
  OBVIOUS
<1> USE DEF Working, AtWork, Transacting, OnIndex, Unlocked, RunnerStates
<1>r. /\ runner[i].todo \in SUBSET Migrations
      /\ runner[i].defs \in SUBSET Migrations
      /\ Control(i)
  BY <1>t DEF Runner, ControlInv
<1>b. ASSUME NEW pc \in {"off", "done", "error"},
             NEW blamed \in SUBSET Migrations, Returns(i, pc, blamed)
      PROVE  OthersStay(i) /\ Control(i)'
  <2>1. /\ runner'[i].pc = pc /\ runner'[i].todo = {} /\ runner'[i].unlocked = FALSE
        /\ \A k \in Runners \ {i} : runner'[k] = runner[k]
        /\ lock' = IF lock = i THEN Nobody ELSE lock
    BY <1>b, <1>s, <1>t, ReturnsEffect
  <2>2. lock' # i
    BY <2>1
  <2>3. QED
    BY <2>1, <2>2 DEF OthersStay, Control
<1>c. ASSUME Retries(i)
      PROVE  OthersStay(i) /\ Control(i)'
  <2>1. /\ runner'[i].pc = "polling" /\ runner'[i].todo = {} /\ runner'[i].unlocked = FALSE
        /\ \A k \in Runners \ {i} : runner'[k] = runner[k]
        /\ lock' = IF lock = i THEN Nobody ELSE lock
    BY <1>c, <1>t, RetriesEffect
  <2>2. lock' # i
    BY <2>1
  <2>3. QED
    BY <2>1, <2>2 DEF OthersStay, Control
<1>p. ASSUME NEW todo \in SUBSET Migrations, Proceeds(i, todo),
             todo \subseteq runner[i].defs, lock = i, runner[i].unlocked = FALSE
      PROVE  OthersStay(i) /\ Control(i)'
  <2>1. CASE todo = {}
    BY <1>p, <1>b, <1>z, <2>1 DEF Proceeds
  <2>2. CASE todo # {}
    <3>1. /\ runner'[i].pc = IF First(todo) \in Indexes THEN "probing" ELSE "logging"
          /\ runner'[i].todo = todo /\ runner'[i].defs = runner[i].defs
          /\ runner'[i].unlocked = FALSE
          /\ \A k \in Runners \ {i} : runner'[k] = runner[k]
          /\ lock' = lock
      BY <1>p, <1>t, <2>2, ProceedsEffect
    <3>2. Def(i)' = First(todo)
      BY <3>1 DEF Def
    <3>3. QED
      BY <1>p, <2>2, <3>1, <3>2 DEF OthersStay, Control
  <2>3. QED
    BY <2>1, <2>2
<1>g. ASSUME NEW pc \in RunnerStates, Goto(i, pc), UNCHANGED lock
      PROVE  /\ OthersStay(i) /\ runner'[i].pc = pc
             /\ runner'[i].todo = runner[i].todo /\ runner'[i].defs = runner[i].defs
             /\ runner'[i].unlocked = runner[i].unlocked /\ Def(i)' = Def(i)
  BY <1>g, <1>t, GotoEffect DEF OthersStay, Def
<1>1. ASSUME NEW validates \in BOOLEAN, Start(i, validates)
      PROVE  OthersStay(i) /\ Control(i)'
  <2> DEFINE defs == Migrations \ InState(Migrations, "ok")
             pc == IF defs = {} THEN "done" ELSE "polling"
             v == validates /\ defs # {}
  <2>1. pc \in {"done", "polling"}
    OBVIOUS
  <2>2. /\ runner' = [runner EXCEPT ![i] = [NoRunner EXCEPT !.pc = pc, !.validates = v, !.defs = defs]]
        /\ lock' = lock /\ runner[i].pc \in {"off", "done", "error"}
    BY <1>1 DEF Start
  <2> HIDE DEF defs, pc, v
  <2>3. /\ runner'[i].pc = pc /\ runner'[i].todo = {} /\ runner'[i].unlocked = FALSE
        /\ \A k \in Runners \ {i} : runner'[k] = runner[k]
    BY <1>t, <2>2 DEF NoRunner
  <2>4. lock # i
    BY <1>r, <2>2 DEF Control
  <2>5. QED
    BY <2>1, <2>2, <2>3, <2>4 DEF OthersStay, Control
<1>2. ASSUME PollLock(i)
      PROVE  OthersStay(i) /\ Control(i)'
  <2>1. /\ runner'[i].pc = "fetching" /\ runner'[i].todo = runner[i].todo
        /\ runner'[i].defs = runner[i].defs /\ runner'[i].unlocked = runner[i].unlocked
        /\ \A k \in Runners \ {i} : runner'[k] = runner[k]
    BY <1>2, <1>s, <1>t, GotoEffect DEF PollLock
  <2>2. lock = Nobody /\ lock' = i /\ runner[i].pc = "polling"
    BY <1>2 DEF PollLock
  <2>3. QED
    BY <1>r, <2>1, <2>2 DEF OthersStay, Control
<1>3. ASSUME Fetch(i)
      PROVE  OthersStay(i) /\ Control(i)'
  <2>1. /\ InState(runner[i].defs, "failed") \in SUBSET Migrations
        /\ InState(runner[i].defs, "pending") \in SUBSET runner[i].defs
        /\ Todo(i) \in SUBSET Migrations /\ Todo(i) \subseteq runner[i].defs
    BY <1>r DEF InState, Todo
  <2>2. lock = i /\ runner[i].unlocked = FALSE /\ runner[i].pc = "fetching"
    BY <1>3, <1>r, <1>t DEF Control, Fetch, Runner
  <2>3. CASE InState(runner[i].defs, "failed") # {}
    BY <1>3, <1>b, <2>1, <2>3 DEF Fetch
  <2>4. CASE InState(runner[i].defs, "failed") = {} /\ InState(runner[i].defs, "pending") # {}
    <3> DEFINE S == InState(runner[i].defs, "pending")
    <3>1. runner' = [runner EXCEPT ![i].pc = "checking", ![i].todo = S] /\ UNCHANGED lock
      BY <1>3, <2>4 DEF Fetch
    <3> HIDE DEF S
    <3>2. /\ runner'[i].pc = "checking" /\ runner'[i].todo = S
          /\ runner'[i].defs = runner[i].defs /\ runner'[i].unlocked = runner[i].unlocked
          /\ \A k \in Runners \ {i} : runner'[k] = runner[k]
      BY <1>t, <3>1 DEF Runner
    <3>3. S \subseteq runner[i].defs
      BY <2>1 DEF S
    <3>4. QED
      BY <2>2, <3>1, <3>2, <3>3 DEF OthersStay, Control
  <2>5. CASE /\ InState(runner[i].defs, "failed") = {} /\ InState(runner[i].defs, "pending") = {}
             /\ runner[i].validates
    <3>1. PICK pc \in {"done", "error"} : Returns(i, pc, {})
      BY <1>3, <2>5 DEF Fetch
    <3>2. QED
      BY <1>b, <1>z, <3>1
  <2>6. CASE /\ InState(runner[i].defs, "failed") = {} /\ InState(runner[i].defs, "pending") = {}
             /\ ~runner[i].validates
    BY <1>3, <1>p, <2>1, <2>2, <2>6 DEF Fetch
  <2>7. QED
    BY <2>3, <2>4, <2>5, <2>6
<1>4. ASSUME CheckPending(i)
      PROVE  OthersStay(i) /\ Control(i)'
  <2>1. Dead(runner[i].todo) \in SUBSET Migrations
    BY <1>r DEF Dead
  <2>2. QED
    BY <1>4, <1>b, <1>c, <2>1 DEF CheckPending
<1>5. ASSUME \/ LogTransaction(i) \/ Up(i) \/ UpFails(i)
             \/ Record(i) \/ DropBegins(i) \/ LogIndex(i) \/ EndRaced(i)
             \/ CreateIndex(i) \/ IndexBuilt(i) \/ IndexFails(i)
      PROVE  OthersStay(i) /\ Control(i)'
  <2>1. PICK pc \in RunnerStates :
          /\ Goto(i, pc) /\ lock' = lock
          /\ \/ runner[i].pc = "logging" /\ pc = "applying"
             \/ runner[i].pc = "applying" /\ pc \in {"committed", "rolledback"}
             \/ runner[i].pc = "recording" /\ pc = "recorded"
             \/ runner[i].pc = "invalid" /\ pc = "dropping"
             \/ runner[i].pc = "creating" /\ pc = "indexing"
             \/ runner[i].pc = "raced" /\ pc = "probing"
             \/ runner[i].pc = "indexing" /\ pc \in {"building", "created", "raced", "rolledback"}
             \/ runner[i].pc = "building" /\ pc \in {"created", "rolledback"}
    BY <1>5 DEF LogTransaction, Up, UpFails, Record, DropBegins, LogIndex, EndRaced,
                CreateIndex, IndexBuilt, IndexFails, Raced
  <2>2. /\ OthersStay(i) /\ runner'[i].pc = pc
        /\ runner'[i].todo = runner[i].todo /\ runner'[i].defs = runner[i].defs
        /\ runner'[i].unlocked = runner[i].unlocked /\ Def(i)' = Def(i)
    BY <1>g, <2>1
  <2>3. Control(i)
    BY <1>r
  <2>4. QED
    BY <2>1, <2>2, <2>3 DEF Control
<1>6. ASSUME EndTransaction(i)
      PROVE  OthersStay(i) /\ Control(i)'
  <2>1. lock = i /\ runner[i].unlocked = FALSE
    BY <1>6, <1>r, <1>t DEF Control, EndTransaction, Runner
  <2>2. runner[i].todo \ {Def(i)} \in SUBSET Migrations /\ runner[i].todo \subseteq runner[i].defs
    BY <1>r DEF Control
  <2>3. QED
    BY <1>6, <1>p, <2>1, <2>2 DEF EndTransaction
<1>7. ASSUME EndFailure(i)
      PROVE  OthersStay(i) /\ Control(i)'
  BY <1>7, <1>b, <1>z DEF EndFailure
<1>8. ASSUME Probe(i)
      PROVE  OthersStay(i) /\ Control(i)'
  <2>1. runner[i].pc = "probing" /\ Control(i)
    BY <1>8, <1>r DEF Probe
  <2>2. CASE \E pc \in {"recording", "invalid"} : Goto(i, pc) /\ UNCHANGED lock
    <3>1. PICK pc \in {"recording", "invalid"} : Goto(i, pc) /\ UNCHANGED lock
      BY <2>2
    <3>2. /\ OthersStay(i) /\ runner'[i].pc = pc
          /\ runner'[i].todo = runner[i].todo /\ runner'[i].defs = runner[i].defs
          /\ runner'[i].unlocked = runner[i].unlocked /\ Def(i)' = Def(i)
      BY <1>g, <3>1
    <3>3. QED
      BY <2>1, <3>1, <3>2 DEF Control
  <2>3. CASE /\ Unlock(i)
             /\ \E pc \in {"creating", "probing"} :
                  runner' = [runner EXCEPT ![i].unlocked = TRUE, ![i].pc = pc]
    <3>1. PICK pc \in {"creating", "probing"} :
            runner' = [runner EXCEPT ![i].unlocked = TRUE, ![i].pc = pc]
      BY <2>3
    <3>2. /\ runner'[i].pc = pc
          /\ runner'[i].todo = runner[i].todo /\ runner'[i].defs = runner[i].defs
          /\ runner'[i].unlocked = TRUE
          /\ \A k \in Runners \ {i} : runner'[k] = runner[k]
      BY <1>s, <1>t, <3>1, UnlocksEffect
    <3>3. lock' # i /\ lock' = IF lock = i THEN Nobody ELSE lock
      BY <2>3 DEF Unlock
    <3>4. Def(i)' = Def(i)
      BY <3>2 DEF Def
    <3>5. QED
      BY <2>1, <3>1, <3>2, <3>3, <3>4 DEF Control, OthersStay
  <2>4. QED
    BY <1>8, <2>2, <2>3 DEF Probe
<1>9. ASSUME EndRecord(i)
      PROVE  OthersStay(i) /\ Control(i)'
  <2>1. runner[i].pc = "recorded" /\ Control(i)
    BY <1>9, <1>r DEF EndRecord
  <2>2. CASE runner[i].unlocked
    BY <1>9, <1>c, <2>2 DEF EndRecord
  <2>3. CASE ~runner[i].unlocked
    <3>1. lock = i /\ runner[i].unlocked = FALSE
      BY <1>t, <2>1, <2>3 DEF Control, Runner
    <3>2. runner[i].todo \ {Def(i)} \in SUBSET Migrations /\ runner[i].todo \subseteq runner[i].defs
      BY <1>r DEF Control
    <3>3. QED
      BY <1>9, <1>p, <2>3, <3>1, <3>2 DEF EndRecord
  <2>4. QED
    BY <2>2, <2>3
<1>10. ASSUME Drop(i)
       PROVE  OthersStay(i) /\ Control(i)'
  <2>1. runner[i].pc = "dropping" /\ Control(i)
    BY <1>10, <1>r DEF Drop
  <2>2. /\ runner'[i].pc = "creating"
        /\ runner'[i].todo = runner[i].todo /\ runner'[i].defs = runner[i].defs
        /\ runner'[i].unlocked = TRUE
        /\ \A k \in Runners \ {i} : runner'[k] = runner[k]
    BY <1>10, <1>s, <1>t, UnlocksEffect DEF Drop
  <2>3. lock' # i /\ lock' = IF lock = i THEN Nobody ELSE lock
    BY <1>10 DEF Drop, Unlock
  <2>4. Def(i)' = Def(i)
    BY <2>2 DEF Def
  <2>5. QED
    BY <2>1, <2>2, <2>3, <2>4 DEF Control, OthersStay
<1>11. ASSUME EndIndex(i)
       PROVE  OthersStay(i) /\ Control(i)'
  BY <1>11, <1>c DEF EndIndex
<1>12. ASSUME Dies(i)
       PROVE  OthersStay(i) /\ Control(i)'
  BY <1>12, <1>b, <1>z DEF Dies
<1>13. QED
  BY <1>1, <1>2, <1>3, <1>4, <1>5, <1>6, <1>7, <1>8, <1>9, <1>10, <1>11, <1>12
     DEF StepOf, RunnerStep

LEMMA ControlStep ==
  ASSUME Types, ControlInv, [MigrationNext]_migrationVars
  PROVE  ControlInv'
<1>1. ASSUME NEW i \in Runners, StepOf(i)
      PROVE  ControlInv'
  <2>1. OthersStay(i) /\ Control(i)'
    BY <1>1, ControlOfStep
  <2>2. ASSUME NEW k \in Runners \ {i}
        PROVE  Control(k)'
    <3>1. runner'[k] = runner[k] /\ (lock' = k <=> lock = k)
      BY <2>1 DEF OthersStay, Types
    <3>2. Def(k)' = Def(k) /\ Control(k)
      BY <3>1 DEF Def, ControlInv
    <3>3. QED
      BY <3>1, <3>2 DEF Control
  <2>3. QED
    BY <2>1, <2>2 DEF ControlInv
<1>2. CASE UNCHANGED migrationVars
  <2>1. \A i \in Runners : Control(i)'
    BY <1>2 DEF migrationVars, dbVars, Control, ControlInv, Def
  <2>2. QED
    BY <2>1 DEF ControlInv
<1>3. QED
  BY <1>1, <1>2 DEF MigrationNext, StepOf

(***************************************************************************)
(* A runner in a transaction has the lock, and the transaction is the      *)
(* migration that it is at.                                                *)
(***************************************************************************)
LEMMA TransactionHasLock ==
  ASSUME Types, ControlInv, NEW i \in Runners
  PROVE  /\ runner[i].pc \in Transacting \/ InTransaction(i) =>
              lock = i /\ runner[i].pc \in AtWork /\ Def(i) \in Migrations \ Indexes
         /\ runner[i].pc \in AtWork /\ Def(i) \notin Indexes =>
              lock = i /\ (InTransaction(i) \/ runner[i].pc = "logging")
         /\ runner[i].pc = "rolledback" /\ lock # i => Def(i) \in Indexes
<1> USE DEF Working, AtWork, Transacting, OnIndex, RunnerStates, InTransaction
<1>1. Control(i) /\ runner[i].unlocked \in BOOLEAN
  BY DEF ControlInv, Types, Runner
<1>2. runner[i].pc \in AtWork => Def(i) \in Migrations
  BY DefOfRunner
<1>3. QED
  BY <1>1, <1>2 DEF Control

(***************************************************************************)
(* A step that is not about a transaction.                                 *)
(***************************************************************************)
LEMMA TransactionFrame ==
  ASSUME Types, ControlInv, TransactionInv, NEW i \in Runners, OthersStay(i),
         ~InTransaction(i), ~InTransaction(i)', Untouched(i)',
         \A d \in Migrations \ Indexes : log'[d] = log[d],
         UNCHANGED applied
  PROVE  TransactionInv'
<1>1. ASSUME NEW k \in Runners \ {i}
      PROVE  /\ runner'[k] = runner[k] /\ (lock' = k <=> lock = k) /\ Def(k)' = Def(k)
             /\ InTransaction(k)' <=> InTransaction(k)
  <2>1. runner'[k] = runner[k] /\ (lock' = k <=> lock = k)
    BY DEF OthersStay, Types
  <2>2. QED
    BY <2>1 DEF Def, InTransaction
<1>2. ASSUME NEW d \in Migrations \ Indexes
      PROVE  Row(d)'
  <2>1. log[d].by \in Runners \cup {Nobody}
    BY DEF Types, LogRow
  <2>2. Row(d) /\ (log[d].by # Nobody => InTransaction(log[d].by) /\ Def(log[d].by) = d)
    BY DEF TransactionInv, Row
  <2>3. log[d].by # Nobody => log[d].by \in Runners \ {i}
    BY <2>1, <2>2
  <2>4. log'[d] = log[d] /\ applied'[d] = applied[d]
    OBVIOUS
  <2>5. log'[d].by # Nobody => (InTransaction(log[d].by) /\ Def(log[d].by) = d)'
    <3>1. SUFFICES ASSUME NEW k \in Runners \ {i}, k = log[d].by
                   PROVE  (InTransaction(log[d].by) /\ Def(log[d].by) = d)'
      BY <2>3, <2>4
    <3>2. InTransaction(k)' /\ Def(k)' = d /\ k = log'[d].by
      BY <1>1, <2>2, <2>3, <2>4, <3>1
    <3>3. QED
      BY <3>2 DEF InTransaction, Def
  <2>6. QED
    BY <2>2, <2>4, <2>5 DEF Row
<1>3. ASSUME NEW k \in Runners \ {i}
      PROVE  /\ InTransaction(k)' =>
                  /\ log'[Def(k)'] = [state |-> "pending", by |-> k, later |-> {}]
                  /\ applied'[Def(k)'] = IF runner'[k].pc = "committed" THEN 1 ELSE 0
             /\ Untouched(k)'
  <2>1. InTransaction(k) => Def(k) \in Migrations \ Indexes
    BY TransactionHasLock
  <2>2. Untouched(k) /\ runner[k].todo \subseteq Migrations
    BY DEF TransactionInv, Types, Runner
  <2>3. Untouched(k)'
    BY <1>1, <2>2 DEF Untouched
  <2>4. QED
    BY <1>1, <2>1, <2>3 DEF TransactionInv
<1>4. QED
  BY <1>2, <1>3 DEF TransactionInv

(***************************************************************************)
(* A step of a transaction: its runner has the lock.                       *)
(***************************************************************************)
LEMMA TransactionFocus ==
  ASSUME Types, ControlInv, TransactionInv, NEW i \in Runners, OthersStay(i),
         lock = i, NEW D \in Migrations \ Indexes,
         \A d \in Migrations \ Indexes : d # D => log'[d] = log[d] /\ applied'[d] = applied[d],
         \A d \in Migrations \ Indexes : d # D => log[d].by = Nobody,
         /\ log'[D].state \in {"none", "failed"} => applied'[D] = 0
         /\ log'[D].state = "pending" => applied'[D] <= 1
         /\ log'[D].state = "ok" => applied'[D] = 1
         /\ log'[D].state # "reverted"
         /\ log'[D].by # Nobody => log'[D].by = i /\ InTransaction(i)' /\ Def(i)' = D,
         InTransaction(i)' => /\ Def(i)' = D
                              /\ log'[D] = [state |-> "pending", by |-> i, later |-> {}]
                              /\ applied'[D] = IF runner'[i].pc = "committed" THEN 1 ELSE 0,
         Untouched(i)'
  PROVE  TransactionInv'
<1>1. ASSUME NEW k \in Runners \ {i}
      PROVE  ~InTransaction(k)' /\ lock' # k
  <2>1. lock' # k
    BY DEF OthersStay, Types
  <2>2. InTransaction(k)' => lock' = k
    BY TransactionHasLock DEF OthersStay, InTransaction, Types
  <2>3. QED
    BY <2>1, <2>2
<1>2. ASSUME NEW d \in Migrations \ Indexes
      PROVE  Row(d)'
  <2>1. CASE d = D
    <3>1. log'[D].by # Nobody => (InTransaction(log[D].by) /\ Def(log[D].by) = D)'
      BY DEF InTransaction, Def
    <3>2. QED
      BY <2>1, <3>1 DEF Row
  <2>2. CASE d # D
    BY <2>2 DEF TransactionInv, Row
  <2>3. QED
    BY <2>1, <2>2
<1>3. \A k \in Runners :
        /\ InTransaction(k)' =>
             /\ log'[Def(k)'] = [state |-> "pending", by |-> k, later |-> {}]
             /\ applied'[Def(k)'] = IF runner'[k].pc = "committed" THEN 1 ELSE 0
        /\ Untouched(k)'
  <2>1. \A k \in Runners \ {i} : Untouched(k)'
    BY <1>1 DEF Untouched
  <2>2. QED
    BY <1>1, <2>1
<1>4. QED
  BY <1>2, <1>3 DEF TransactionInv

(***************************************************************************)
(* Every step keeps what the log says of the transactions true.            *)
(***************************************************************************)
LEMMA TransactionStep ==
  ASSUME Types, ControlInv, TransactionInv, NEW i \in Runners, StepOf(i)
  PROVE  TransactionInv'
<1> USE DEF dbVars
<1>t. runner \in [Runners -> Runner] /\ log \in [Migrations -> LogRow]
  BY DEF Types
<1>s. {"off", "polling", "fetching", "checking", "done", "error"} \subseteq RunnerStates
      /\ AtWork \subseteq RunnerStates
  BY DEF RunnerStates, AtWork, Transacting, OnIndex
<1>z. {} \in SUBSET Migrations
  OBVIOUS
<1>k. ASSUME NEW pc \in {"off", "done", "error"}, NEW blamed \in SUBSET Migrations,
             Returns(i, pc, blamed)
      PROVE  runner'[i].pc = pc
  <2>1. pc \in RunnerStates
    BY DEF RunnerStates
  <2>2. QED
    BY <1>k, <1>t, <2>1, ReturnsEffect
<1>o. OthersStay(i)
  BY ControlOfStep
<1>c. Control(i) /\ Untouched(i)
  BY DEF ControlInv, TransactionInv
<1>r. runner[i].todo \in SUBSET Migrations /\ runner[i].defs \in SUBSET Migrations
  BY <1>t DEF Runner
<1>f. ASSUME ~InTransaction(i), ~InTransaction(i)', Untouched(i)',
             \A d \in Migrations \ Indexes : log'[d] = log[d], UNCHANGED applied
      PROVE  TransactionInv'
  BY <1>f, <1>o, TransactionFrame
<1>q. ASSUME runner'[i].pc \notin AtWork
      PROVE  ~InTransaction(i)' /\ Untouched(i)'
  BY <1>q DEF InTransaction, Untouched, AtWork, Transacting
<1>p. ASSUME NEW todo \in SUBSET Migrations, Proceeds(i, todo),
             \A d \in todo \ Indexes : log'[d].state = "none"
      PROVE  ~InTransaction(i)' /\ Untouched(i)'
  <2>1. CASE todo = {}
    <3>1. runner'[i].pc = "done"
      BY <1>p, <1>t, <1>s, <1>z, <2>1, ReturnsEffect DEF Proceeds
    <3>2. QED
      BY <1>q, <3>1 DEF AtWork, Transacting, OnIndex
  <2>2. CASE todo # {}
    <3>1. runner'[i].pc \in {"probing", "logging"} /\ runner'[i].todo = todo
      BY <1>p, <1>t, <2>2, ProceedsEffect
    <3>2. QED
      BY <1>p, <3>1 DEF InTransaction, Untouched
  <2>3. QED
    BY <2>1, <2>2
<1>x. ASSUME runner[i].pc \in OnIndex
      PROVE  /\ ~InTransaction(i) /\ Def(i) \in Indexes /\ Def(i) \in Migrations
             /\ runner[i].pc \in Unlocked => lock # i
  BY <1>x, <1>c, DefOfRunner DEF InTransaction, OnIndex, AtWork, Control, Unlocked
<1>e. ASSUME Def(i) \in Indexes, \/ NewLog(i, Def(i)) \/ EndLog(i, Def(i), "ok")
                                 \/ EndLog(i, Def(i), "failed") \/ UNCHANGED log
      PROVE  \A d \in Migrations \ Indexes : log'[d] = log[d]
  BY <1>e, <1>t DEF NewLog, EndLog
<1>y. ASSUME ~InTransaction(i), runner[i].pc \in AtWork, runner'[i].todo = runner[i].todo,
             lock' = i => lock = i,
             \A d \in Migrations \ Indexes : log'[d] = log[d]
      PROVE  Untouched(i)'
  BY <1>y, <1>c, <1>r DEF Untouched
<1>1. ASSUME NEW validates \in BOOLEAN, Start(i, validates)
      PROVE  TransactionInv'
  <2> DEFINE defs == Migrations \ InState(Migrations, "ok")
             pc == IF defs = {} THEN "done" ELSE "polling"
             v == validates /\ defs # {}
  <2>1. pc \in {"done", "polling"}
    OBVIOUS
  <2>2. /\ runner' = [runner EXCEPT ![i] = [NoRunner EXCEPT !.pc = pc, !.validates = v, !.defs = defs]]
        /\ UNCHANGED <<log, applied>> /\ runner[i].pc \in {"off", "done", "error"}
    BY <1>1 DEF Start
  <2> HIDE DEF defs, pc, v
  <2>3. runner'[i].pc = pc
    BY <1>t, <2>2 DEF NoRunner
  <2>4. QED
    BY <1>f, <1>q, <2>1, <2>2, <2>3 DEF InTransaction, AtWork, Transacting, OnIndex
<1>2. ASSUME PollLock(i)
      PROVE  TransactionInv'
  <2>1. runner'[i].pc = "fetching"
    BY <1>2, <1>s, <1>t, GotoEffect DEF PollLock
  <2>2. QED
    BY <1>2, <1>f, <1>q, <2>1 DEF PollLock, InTransaction, AtWork, Transacting, OnIndex
<1>3. ASSUME Fetch(i)
      PROVE  TransactionInv'
  <2>1. /\ InState(runner[i].defs, "failed") \in SUBSET Migrations
        /\ InState(runner[i].defs, "pending") \in SUBSET Migrations
        /\ Todo(i) \in SUBSET Migrations
    BY <1>r DEF InState, Todo
  <2>2. ~InTransaction(i) /\ UNCHANGED <<log, applied>>
    BY <1>3 DEF Fetch, InTransaction
  <2>3. ~InTransaction(i)' /\ Untouched(i)'
    <3>1. CASE InState(runner[i].defs, "failed") # {}
      <4>1. runner'[i].pc = "error"
        BY <1>3, <1>k, <2>1, <3>1 DEF Fetch
      <4>2. QED
        BY <1>q, <4>1 DEF AtWork, Transacting, OnIndex
    <3>2. CASE InState(runner[i].defs, "failed") = {} /\ InState(runner[i].defs, "pending") # {}
      <4>1. runner'[i].pc = "checking"
        BY <1>3, <1>t, <3>2 DEF Fetch, Runner
      <4>2. QED
        BY <1>q, <4>1 DEF AtWork, Transacting, OnIndex
    <3>3. CASE /\ InState(runner[i].defs, "failed") = {} /\ InState(runner[i].defs, "pending") = {}
               /\ runner[i].validates
      <4>1. PICK pc \in {"done", "error"} : Returns(i, pc, {})
        BY <1>3, <3>3 DEF Fetch
      <4>2. runner'[i].pc = pc
        BY <1>k, <1>z, <4>1
      <4>3. QED
        BY <1>q, <4>1, <4>2 DEF AtWork, Transacting, OnIndex
    <3>4. CASE /\ InState(runner[i].defs, "failed") = {} /\ InState(runner[i].defs, "pending") = {}
               /\ ~runner[i].validates
      <4>1. ASSUME NEW d \in Todo(i) \ Indexes
            PROVE  log'[d].state = "none"
        <5>1. d \in Migrations \ Indexes /\ log[d].state \notin {"ok", "failed", "pending"}
          BY <1>r, <3>4 DEF Todo, InState
        <5>2. log[d].state # "reverted"
          BY <5>1 DEF TransactionInv, Row
        <5>3. QED
          BY <1>t, <2>2, <5>1, <5>2 DEF LogRow
      <4>2. Proceeds(i, Todo(i))
        BY <1>3, <3>4 DEF Fetch
      <4>3. QED
        BY <1>p, <2>1, <4>1, <4>2
    <3>5. QED
      BY <3>1, <3>2, <3>3, <3>4
  <2>4. QED
    BY <1>f, <2>2, <2>3
<1>4. ASSUME CheckPending(i)
      PROVE  TransactionInv'
  <2>1. Dead(runner[i].todo) \in SUBSET Migrations
    BY <1>r DEF Dead
  <2>2. runner'[i].pc \in {"error", "polling"}
    BY <1>4, <1>k, <1>t, <2>1, RetriesEffect DEF CheckPending
  <2>3. ~InTransaction(i)' /\ Untouched(i)'
    BY <1>q, <2>2 DEF AtWork, Transacting, OnIndex
  <2>4. QED
    BY <1>4, <1>f, <2>3 DEF CheckPending, InTransaction
<1>5. ASSUME \/ Record(i) \/ DropBegins(i) \/ LogIndex(i) \/ EndRaced(i)
             \/ CreateIndex(i) \/ IndexBuilt(i) \/ IndexFails(i)
      PROVE  TransactionInv'
  <2>1. PICK pc \in RunnerStates :
          /\ Goto(i, pc) /\ lock' = lock
          /\ runner[i].pc \in OnIndex
          /\ \/ pc \in OnIndex
             \/ pc = "rolledback" /\ runner[i].pc \in Unlocked
    BY <1>5 DEF Record, DropBegins, LogIndex, EndRaced, CreateIndex,
                IndexBuilt, IndexFails, Raced, OnIndex, Unlocked, RunnerStates
  <2>2. runner'[i].pc = pc /\ runner'[i].todo = runner[i].todo
    BY <1>t, <2>1, GotoEffect
  <2>3. UNCHANGED applied /\ \A d \in Migrations \ Indexes : log'[d] = log[d]
    <3>1. CASE DropBegins(i)
      BY <3>1, DropBeginsEffect DEF DropBegins
    <3>2. CASE ~DropBegins(i)
      BY <1>5, <1>e, <1>x, <2>1, <3>2 DEF Record, LogIndex, EndRaced, CreateIndex, IndexBuilt,
         IndexFails
    <3>3. QED
      BY <3>1, <3>2
  <2>4. ~InTransaction(i)'
    BY <1>x, <2>1, <2>2 DEF InTransaction, OnIndex
  <2>5. QED
    BY <1>f, <1>x, <1>y, <2>1, <2>2, <2>3, <2>4 DEF AtWork
<1>6. ASSUME Probe(i)
      PROVE  TransactionInv'
  <2>1. runner[i].pc = "probing" /\ UNCHANGED <<log, applied>>
    BY <1>6 DEF Probe
  <2>2. CASE \E pc \in {"recording", "invalid"} : Goto(i, pc) /\ UNCHANGED lock
    <3>1. PICK pc \in {"recording", "invalid"} : Goto(i, pc) /\ UNCHANGED lock
      BY <2>2
    <3>2. runner'[i].pc = pc /\ runner'[i].todo = runner[i].todo
      BY <1>s, <1>t, <3>1, GotoEffect DEF AtWork, OnIndex
    <3>3. QED
      BY <1>f, <1>y, <2>1, <3>1, <3>2 DEF InTransaction, AtWork, OnIndex
  <2>3. CASE /\ Unlock(i)
             /\ \E pc \in {"creating", "probing"} :
                  runner' = [runner EXCEPT ![i].unlocked = TRUE, ![i].pc = pc]
    <3>1. PICK pc \in {"creating", "probing"} :
            runner' = [runner EXCEPT ![i].unlocked = TRUE, ![i].pc = pc]
      BY <2>3
    <3>2. runner'[i].pc = pc
      BY <1>s, <1>t, <3>1, UnlocksEffect DEF AtWork, OnIndex
    <3>3. lock' # i
      BY <2>3 DEF Unlock
    <3>4. QED
      BY <1>f, <2>1, <3>1, <3>2, <3>3 DEF InTransaction, Untouched
  <2>4. QED
    BY <1>6, <2>2, <2>3 DEF Probe
<1>7. ASSUME EndRecord(i)
      PROVE  TransactionInv'
  <2>1. /\ runner[i].pc = "recorded" /\ ~InTransaction(i) /\ UNCHANGED applied
        /\ \A d \in Migrations \ Indexes : log'[d] = log[d]
    BY <1>7, <1>e, <1>x DEF EndRecord, OnIndex
  <2>2. CASE runner[i].unlocked
    <3>1. runner'[i].pc = "polling"
      BY <1>7, <1>t, <2>2, RetriesEffect DEF EndRecord
    <3>2. QED
      BY <1>f, <1>q, <2>1, <3>1 DEF AtWork, Transacting, OnIndex
  <2>3. CASE ~runner[i].unlocked
    <3>1. lock = i
      BY <1>c, <2>1, <2>3 DEF Control, Working, RunnerStates
    <3>2. runner[i].todo \ {Def(i)} \in SUBSET Migrations
      BY <1>r
    <3>3. \A d \in runner[i].todo \ {Def(i)} : d \notin Indexes => log'[d].state = "none"
      BY <1>c, <1>r, <2>1, <3>1 DEF Untouched, AtWork, OnIndex
    <3>4. QED
      BY <1>7, <1>f, <1>p, <2>1, <2>3, <3>2, <3>3 DEF EndRecord
  <2>4. QED
    BY <2>2, <2>3
<1>8. ASSUME Drop(i)
      PROVE  TransactionInv'
  <2>1. runner[i].pc = "dropping" /\ UNCHANGED applied
    BY <1>8 DEF Drop
  <2>2. runner'[i].pc = "creating"
    BY <1>8, <1>s, <1>t, UnlocksEffect DEF Drop, AtWork, OnIndex
  <2>3. lock' # i
    BY <1>8 DEF Drop, Unlock
  <2>4. \A d \in Migrations \ Indexes : log'[d] = log[d]
    BY <1>8, <1>t, <1>x DEF Drop, OnIndex
  <2>5. QED
    BY <1>f, <2>1, <2>2, <2>3, <2>4 DEF InTransaction, Untouched
<1>9. ASSUME EndIndex(i)
      PROVE  TransactionInv'
  <2>1. runner'[i].pc = "polling"
    BY <1>9, <1>t, RetriesEffect DEF EndIndex
  <2>2. \A d \in Migrations \ Indexes : log'[d] = log[d]
    BY <1>9, <1>e, <1>x DEF EndIndex, OnIndex
  <2>3. QED
    BY <1>9, <1>f, <1>q, <2>1, <2>2 DEF EndIndex, InTransaction, AtWork, Transacting, OnIndex
<1>h. /\ InTransaction(i) \/ runner[i].pc \in Transacting =>
           lock = i /\ runner[i].pc \in AtWork /\ Def(i) \in Migrations \ Indexes
      /\ InTransaction(i) => /\ log[Def(i)] = [state |-> "pending", by |-> i, later |-> {}]
                             /\ applied[Def(i)] = IF runner[i].pc = "committed" THEN 1 ELSE 0
  BY TransactionHasLock DEF TransactionInv
<1>b. ASSUME InTransaction(i) \/ runner[i].pc = "logging"
      PROVE  \A d \in Migrations \ Indexes :
               /\ d # Def(i) \/ runner[i].pc = "logging" => log[d].by = Nobody
               /\ d \in runner[i].todo /\ d # Def(i) => log[d].state = "none"
  <2>1. lock = i /\ runner[i].pc \in AtWork
    BY <1>b, <1>h DEF Transacting
  <2>2. ASSUME NEW d \in Migrations \ Indexes, log[d].by # Nobody
        PROVE  log[d].by = i /\ d = Def(i) /\ runner[i].pc # "logging"
    <3>1. PICK k \in Runners : k = log[d].by /\ InTransaction(k) /\ Def(k) = d
      BY <1>t, <2>2 DEF LogRow, TransactionInv, Row
    <3>2. lock = k
      BY <3>1, TransactionHasLock
    <3>3. QED
      BY <2>1, <3>1, <3>2 DEF InTransaction
  <2>3. QED
    BY <1>c, <2>1, <2>2 DEF Untouched
<1>10. ASSUME LogTransaction(i)
       PROVE  TransactionInv'
  <2>1. /\ runner[i].pc = "logging" /\ lock = i /\ Def(i) \in Migrations \ Indexes
        /\ log[Def(i)].state = "none" /\ applied[Def(i)] = 0
    <3>1. runner[i].pc = "logging" /\ lock = i /\ Def(i) \in Migrations \ Indexes
      BY <1>10, <1>h DEF LogTransaction, Transacting
    <3>2. Def(i) \in runner[i].todo
      BY <3>1, DefOfRunner DEF AtWork, Transacting
    <3>3. log[Def(i)].state = "none"
      BY <1>c, <3>1, <3>2 DEF Untouched, AtWork, Transacting, InTransaction
    <3>4. QED
      BY <3>1, <3>3 DEF TransactionInv, Row
  <2>2. /\ runner'[i].pc = "applying" /\ runner'[i].todo = runner[i].todo /\ Def(i)' = Def(i)
    BY <1>10, <1>s, <1>t, GotoEffect DEF LogTransaction, AtWork, Transacting, Def
  <2>3. /\ log'[Def(i)] = [state |-> "pending", by |-> i, later |-> {}] /\ applied' = applied
        /\ \A d \in Migrations \ Indexes : d # Def(i) => log'[d] = log[d]
    BY <1>10, <1>t, <2>1 DEF LogTransaction, NewLog
  <2>4. Untouched(i)'
    BY <1>b, <1>r, <2>1, <2>2, <2>3 DEF Untouched, InTransaction
  <2>5. QED
    BY <1>b, <1>o, <2>1, <2>2, <2>3, <2>4, TransactionFocus DEF InTransaction
<1>11. ASSUME Up(i) \/ UpFails(i)
       PROVE  TransactionInv'
  <2>1. /\ runner[i].pc = "applying" /\ InTransaction(i) /\ UNCHANGED <<lock, log>>
    BY <1>11 DEF Up, UpFails, InTransaction
  <2>2. PICK pc \in {"committed", "rolledback"} :
          /\ Goto(i, pc)
          /\ applied' = IF pc = "committed" THEN [applied EXCEPT ![Def(i)] = @ + 1] ELSE applied
    BY <1>11 DEF Up, UpFails
  <2>3. runner'[i].pc = pc /\ runner'[i].todo = runner[i].todo /\ Def(i)' = Def(i)
    BY <1>s, <1>t, <2>2, GotoEffect DEF AtWork, Transacting, Def
  <2>4. /\ applied'[Def(i)] = IF pc = "committed" THEN 1 ELSE 0
        /\ \A d \in Migrations \ Indexes : d # Def(i) => applied'[d] = applied[d]
    BY <1>h, <2>1, <2>2 DEF Types
  <2>5. InTransaction(i)'
    BY <1>h, <2>1, <2>2, <2>3 DEF InTransaction
  <2>6. Untouched(i)'
    BY <1>b, <1>r, <2>1, <2>3, <2>5 DEF Untouched
  <2>7. QED
    BY <1>b, <1>h, <1>o, <2>1, <2>2, <2>3, <2>4, <2>5, <2>6, TransactionFocus
<1>d. ASSUME InTransaction(i), NEW s \in {"ok", "failed", "pending"},
             log'[Def(i)] = [state |-> s, by |-> Nobody, later |-> {}],
             \A d \in Migrations \ Indexes : d # Def(i) => log'[d] = log[d],
             UNCHANGED applied, s = "ok" => runner[i].pc = "committed",
             s = "failed" => runner[i].pc # "committed",
             ~InTransaction(i)', Untouched(i)'
      PROVE  TransactionInv'
  BY <1>b, <1>d, <1>h, <1>o, TransactionFocus
<1>12. ASSUME EndTransaction(i)
       PROVE  TransactionInv'
  <2>1. runner[i].pc = "committed" /\ InTransaction(i) /\ UNCHANGED applied
    BY <1>12 DEF EndTransaction, InTransaction
  <2>2. /\ log'[Def(i)] = [state |-> "ok", by |-> Nobody, later |-> {}]
        /\ \A d \in Migrations \ Indexes : d # Def(i) => log'[d] = log[d]
    BY <1>12, <1>h, <1>t, <2>1 DEF EndTransaction, EndLog
  <2>3. /\ runner[i].todo \ {Def(i)} \in SUBSET Migrations
        /\ \A d \in (runner[i].todo \ {Def(i)}) \ Indexes : log'[d].state = "none"
    BY <1>b, <1>r, <2>1, <2>2
  <2>4. ~InTransaction(i)' /\ Untouched(i)'
    BY <1>12, <1>p, <2>3 DEF EndTransaction
  <2>5. QED
    BY <1>d, <2>1, <2>2, <2>4
<1>13. ASSUME EndFailure(i)
       PROVE  TransactionInv'
  <2>1. runner[i].pc = "rolledback" /\ UNCHANGED applied
    BY <1>13 DEF EndFailure
  <2>2. runner'[i].pc = "error"
    BY <1>13, <1>s, <1>t, <1>z, ReturnsEffect DEF EndFailure
  <2>3. ~InTransaction(i)' /\ Untouched(i)'
    BY <1>q, <2>2 DEF AtWork, Transacting, OnIndex
  <2>4. CASE lock = i
    <3>1. InTransaction(i)
      BY <2>1, <2>4 DEF InTransaction
    <3>2. /\ log'[Def(i)] = [state |-> "failed", by |-> Nobody, later |-> {}]
          /\ \A d \in Migrations \ Indexes : d # Def(i) => log'[d] = log[d]
      BY <1>13, <1>h, <1>t, <3>1 DEF EndFailure, EndLog
    <3>3. QED
      BY <1>d, <2>1, <2>3, <3>1, <3>2
  <2>5. CASE lock # i
    <3>1. ~InTransaction(i) /\ Def(i) \in Indexes
      BY <2>1, <2>5, TransactionHasLock DEF InTransaction
    <3>2. \A d \in Migrations \ Indexes : log'[d] = log[d]
      BY <1>13, <1>e, <3>1 DEF EndFailure
    <3>3. QED
      BY <1>f, <2>1, <2>3, <3>1, <3>2
  <2>6. QED
    BY <2>4, <2>5
<1>14. ASSUME Dies(i)
       PROVE  TransactionInv'
  <2>1. runner'[i].pc = "off" /\ UNCHANGED applied
    BY <1>14, <1>s, <1>t, <1>z, ReturnsEffect DEF Dies
  <2>2. ~InTransaction(i)' /\ Untouched(i)'
    BY <1>q, <2>1 DEF AtWork, Transacting, OnIndex
  <2>3. \A d \in Migrations :
          log'[d] = IF log[d].by = i THEN [log[d] EXCEPT !.by = Nobody] ELSE log[d]
    BY <1>14 DEF Dies
  <2>4. CASE InTransaction(i)
    <3>1. \A d \in Migrations \ Indexes : d # Def(i) => log[d].by # i
      BY <1>b, <2>4
    <3>2. log'[Def(i)] = [log[Def(i)] EXCEPT !.by = Nobody]
      BY <1>h, <2>3, <2>4
    <3>3. log'[Def(i)] = [state |-> "pending", by |-> Nobody, later |-> {}]
      BY <1>h, <2>4, <3>2
    <3>4. \A d \in Migrations \ Indexes : d # Def(i) => log'[d] = log[d]
      BY <2>3, <3>1
    <3>5. QED
      BY <1>d, <2>1, <2>2, <2>4, <3>3, <3>4
  <2>5. CASE ~InTransaction(i)
    <3>1. \A d \in Migrations \ Indexes : log[d].by # i
      BY <2>5 DEF TransactionInv, Row
    <3>2. QED
      BY <1>f, <2>1, <2>2, <2>3, <2>5, <3>1
  <2>6. QED
    BY <2>4, <2>5
<1>15. QED
  BY <1>1, <1>2, <1>3, <1>4, <1>5, <1>6, <1>7, <1>8, <1>9, <1>10, <1>11, <1>12, <1>13, <1>14
     DEF StepOf, RunnerStep

(***************************************************************************)
(* The index at which a step of i is, as the step finds and leaves it.     *)
(***************************************************************************)
IndexBecomes(i, was, is) ==
  /\ Def(i) \in Indexes /\ index[Def(i)] \in was
  /\ index' = [index EXCEPT ![Def(i)] = is]

IndexMoves(i) ==
  \/ UNCHANGED <<index, spoiled>>
  \/ /\ runner[i].pc = "dropping" /\ UNCHANGED spoiled
     /\ IndexBecomes(i, IndexStates \ {"building"}, "none")
  \/ /\ runner[i].pc = "indexing" /\ UNCHANGED spoiled
     /\ IndexBecomes(i, {"none"}, "building")
  \/ /\ runner[i].pc = "building" /\ UNCHANGED spoiled
     /\ IndexBecomes(i, {"building"}, "valid")
  \/ /\ runner[i].pc = "building" /\ spoiled \subseteq spoiled'
     /\ IndexBecomes(i, {"building"}, "invalid")
     /\ \A k \in Runners \ {i} :
          runner[k].todo # {} /\ Def(k) = Def(i) => Def(i) \in spoiled'

LEMMA StepMovesIndex ==
  ASSUME Types, ControlInv, IndexInv, NEW i \in Runners, StepOf(i)
  PROVE  IndexMoves(i)
<1>1. runner[i].pc \in OnIndex => Def(i) \in Indexes /\ index[Def(i)] \in IndexStates
  BY DEF ControlInv, Control, AtWork, OnIndex, Types
<1>2. runner[i].pc = "building" => index[Def(i)] \in {"building"} /\ Def(i) \in Indexes
  BY <1>1 DEF IndexInv, Watched, OnIndex
<1>3. ASSUME Drop(i)
      PROVE  IndexMoves(i)
  BY <1>1, <1>3 DEF Drop, IndexMoves, IndexBecomes, OnIndex
<1>4. ASSUME CreateIndex(i)
      PROVE  IndexMoves(i)
  BY <1>1, <1>4 DEF CreateIndex, IndexMoves, IndexBecomes, OnIndex
<1>5. ASSUME IndexBuilt(i)
      PROVE  IndexMoves(i)
  BY <1>2, <1>5 DEF IndexBuilt, IndexMoves, IndexBecomes
<1>6. ASSUME Spoils(i)
      PROVE  IndexMoves(i)
  <2>1. CASE runner[i].pc # "building"
    BY <1>6, <2>1 DEF Spoils, IndexMoves
  <2>2. CASE runner[i].pc = "building"
    BY <1>2, <1>6, <2>2, SpoilsEffect DEF IndexMoves, IndexBecomes
  <2>3. QED
    BY <2>1, <2>2
<1>7. ASSUME UNCHANGED <<index, spoiled>>
      PROVE  IndexMoves(i)
  BY <1>7 DEF IndexMoves
<1>8. \/ Drop(i) \/ CreateIndex(i) \/ IndexBuilt(i) \/ Spoils(i) \/ UNCHANGED <<index, spoiled>>
  BY DEF StepOf, RunnerStep, Start, PollLock, Fetch, CheckPending, LogTransaction, Up, UpFails,
         EndTransaction, EndFailure, Probe, Record, EndRecord, DropBegins, LogIndex, IndexFails,
         EndIndex, EndRaced, Dies, dbVars
<1>9. QED
  BY <1>3, <1>4, <1>5, <1>6, <1>7, <1>8

(***************************************************************************)
(* An index that a runner is about to drop belongs to it alone, unless it  *)
(* is spoiled.                                                             *)
(***************************************************************************)
LEMMA DropperHasLock ==
  ASSUME Types, ControlInv, IndexInv, NEW i \in Runners, runner[i].pc \in Dropping,
         Def(i) \notin spoiled
  PROVE  lock = i /\ index[Def(i)] = "invalid"
<1>1. Watched(i) /\ Control(i)
  BY DEF IndexInv, ControlInv
<1>2. ~runner[i].unlocked /\ index[Def(i)] = "invalid"
  BY <1>1 DEF Watched, Dropping
<1>3. QED
  BY <1>1, <1>2 DEF Control, Working, RunnerStates, Dropping

(***************************************************************************)
(* What a migration has done stays done.                                   *)
(***************************************************************************)
LEMMA EffectiveStable ==
  ASSUME Types, ControlInv, IndexInv, NEW i \in Runners, StepOf(i), NEW d \in Migrations,
         Effective(d)
  PROVE  Effective(d)'
<1>1. CASE d \in Indexes
  <2>1. IndexMoves(i) /\ (index[d] = "valid" \/ d \in spoiled)
    BY <1>1, StepMovesIndex DEF Effective
  <2>2. spoiled \subseteq spoiled'
    BY <2>1 DEF IndexMoves
  <2>3. CASE d \in spoiled
    BY <1>1, <2>2, <2>3 DEF Effective
  <2>4. CASE d \notin spoiled
    <3>1. index[d] = "valid"
      BY <2>1, <2>4
    <3>2. runner[i].pc = "dropping" => d # Def(i)
      BY <2>4, <3>1, DropperHasLock DEF Dropping
    <3>3. index'[d] = "valid"
      BY <1>1, <2>1, <3>1, <3>2 DEF IndexMoves, IndexBecomes, Types
    <3>4. QED
      BY <1>1, <3>3 DEF Effective
  <2>5. QED
    BY <2>3, <2>4
<1>2. CASE d \notin Indexes
  <2>1. applied[d] > 0 /\ applied[d] \in Nat
    BY <1>2 DEF Effective, Types
  <2>2. Up(i) \/ UNCHANGED applied
    BY DEF StepOf, RunnerStep, Start, PollLock, Fetch, CheckPending, LogTransaction, UpFails,
           EndTransaction, EndFailure, Probe, Record, EndRecord, DropBegins, Drop, LogIndex, CreateIndex,
           IndexBuilt, IndexFails, EndIndex, EndRaced, Dies, dbVars
  <2>3. applied'[d] > 0
    BY <1>2, <2>1, <2>2 DEF Up, Types
  <2>4. QED
    BY <1>2, <2>3 DEF Effective
<1>3. QED
  BY <1>1, <1>2

(***************************************************************************)
(* A step does not disturb what the others rely on.                        *)
(***************************************************************************)
LEMMA WatchedByOthers ==
  ASSUME Types, ControlInv, IndexInv, NEW i \in Runners, StepOf(i), NEW k \in Runners \ {i}
  PROVE  Watched(k)'
<1>1. IndexMoves(i)
  BY StepMovesIndex
<1>2. runner'[k] = runner[k] /\ Def(k)' = Def(k)
  BY ControlOfStep DEF OthersStay, Def
<1>3. spoiled \subseteq spoiled' /\ Watched(k)
  BY <1>1 DEF IndexMoves, IndexInv
<1>4. CASE UNCHANGED <<index, spoiled>>
  BY <1>2, <1>3, <1>4 DEF Watched
<1>5. CASE Def(i) \in Indexes /\ Def(k) # Def(i) /\ ~UNCHANGED <<index, spoiled>>
  <2>1. Def(k) \in Indexes => index'[Def(k)] = index[Def(k)]
    BY <1>1, <1>5 DEF IndexMoves, IndexBecomes, Types
  <2>2. runner[k].pc \in {"building"} \cup Dropping \/ runner[k].unlocked => Def(k) \in Indexes
    BY DEF ControlInv, Control, AtWork, OnIndex, Dropping
  <2>3. QED
    BY <1>2, <1>3, <2>1, <2>2 DEF Watched
<1>6. CASE Def(i) \in Indexes /\ Def(k) = Def(i) /\ ~UNCHANGED <<index, spoiled>>
  <2>1. runner[k].unlocked => runner[k].todo # {}
    BY DEF ControlInv, Control, AtWork
  <2>2. runner[k].pc \in Dropping => runner[k].todo # {}
    BY DEF ControlInv, Control, AtWork, OnIndex, Dropping
  <2>3. index \in [Indexes -> IndexStates]
    BY DEF Types
  <2>4. CASE /\ runner[i].pc = "dropping" /\ UNCHANGED spoiled
             /\ IndexBecomes(i, IndexStates \ {"building"}, "none")
    <3>1. index[Def(i)] # "building" /\ index'[Def(i)] = "none"
      BY <2>3, <2>4 DEF IndexBecomes
    <3>2. ~(runner[k].pc \in Dropping /\ Def(k) \notin spoiled)
      BY <1>6, <2>4, DropperHasLock DEF Dropping
    <3>3. QED
      BY <1>2, <1>3, <1>6, <2>4, <3>1, <3>2 DEF Watched
  <2>5. CASE /\ runner[i].pc = "indexing" /\ UNCHANGED spoiled
             /\ IndexBecomes(i, {"none"}, "building")
    <3>1. index[Def(i)] = "none" /\ index'[Def(i)] = "building"
      BY <2>3, <2>5 DEF IndexBecomes
    <3>2. QED
      BY <1>2, <1>3, <1>6, <2>5, <3>1 DEF Watched
  <2>6. CASE /\ runner[i].pc = "building" /\ UNCHANGED spoiled
             /\ IndexBecomes(i, {"building"}, "valid")
    <3>1. index[Def(i)] = "building" /\ index'[Def(i)] = "valid"
      BY <2>3, <2>6 DEF IndexBecomes
    <3>2. runner[k].pc # "building"
      BY <1>6, <2>6 DEF IndexInv
    <3>3. QED
      BY <1>2, <1>3, <1>6, <2>6, <3>1, <3>2 DEF Watched
  <2>7. CASE /\ runner[i].pc = "building" /\ spoiled \subseteq spoiled'
             /\ IndexBecomes(i, {"building"}, "invalid")
             /\ \A j \in Runners \ {i} :
                  runner[j].todo # {} /\ Def(j) = Def(i) => Def(i) \in spoiled'
    <3>1. index[Def(i)] = "building" /\ index'[Def(i)] = "invalid"
      BY <2>3, <2>7 DEF IndexBecomes
    <3>2. runner[k].pc # "building"
      BY <1>6, <2>7 DEF IndexInv
    <3>3. QED
      BY <1>2, <1>3, <1>6, <2>1, <2>2, <2>7, <3>1, <3>2 DEF Watched
  <2>8. QED
    BY <1>1, <1>6, <2>4, <2>5, <2>6, <2>7 DEF IndexMoves
<1>7. QED
  BY <1>1, <1>4, <1>5, <1>6 DEF IndexMoves, IndexBecomes

(***************************************************************************)
(* Every step keeps the indexes as their runners left them.                *)
(***************************************************************************)
LEMMA IndexStep ==
  ASSUME Types, ControlInv, IndexInv, NEW i \in Runners, StepOf(i)
  PROVE  IndexInv'
<1> USE DEF dbVars
<1>t. runner \in [Runners -> Runner] /\ index \in [Indexes -> IndexStates]
  BY DEF Types
<1>s. {"off", "polling", "fetching", "checking", "done", "error"} \subseteq RunnerStates
      /\ AtWork \subseteq RunnerStates
  BY DEF RunnerStates, AtWork, Transacting, OnIndex
<1>c. Control(i) /\ Watched(i)
  BY DEF ControlInv, IndexInv
<1>n. Control(i)' /\ OthersStay(i)
  BY ControlOfStep
<1>x. runner[i].pc \in OnIndex => Def(i) \in Indexes /\ index[Def(i)] \in IndexStates
  BY <1>c, <1>t DEF Control, AtWork, OnIndex
<1>g. \A pc \in RunnerStates : Goto(i, pc) =>
        /\ runner'[i].pc = pc /\ runner'[i].todo = runner[i].todo /\ Def(i)' = Def(i)
        /\ runner'[i].unlocked = runner[i].unlocked
  BY <1>t, GotoEffect DEF Def
<1> DEFINE W == /\ Watched(i)'
                /\ runner'[i].pc = "building" => Def(i)' = Def(i) /\ index[Def(i)] = "none"
<1>w. W
  <2>q. ASSUME runner'[i].pc \notin OnIndex
        PROVE  W
    BY <1>n, <2>q DEF Watched, Control, OnIndex, Dropping
  <2>u. ASSUME ~runner'[i].unlocked, runner'[i].pc \notin {"building"} \cup Dropping
        PROVE  W
    BY <2>u DEF Watched
  <2>p. ASSUME NEW todo \in SUBSET Migrations, Proceeds(i, todo), ~runner[i].unlocked
        PROVE  W
    <3>1. CASE todo = {}
      <4>1. Returns(i, "done", {}) /\ {} \in SUBSET Migrations /\ "done" \in RunnerStates
        BY <1>s, <2>p, <3>1 DEF Proceeds
      <4>2. runner'[i].pc = "done"
        BY <1>t, <4>1, ReturnsEffect
      <4>3. QED
        BY <2>q, <4>2 DEF OnIndex
    <3>2. CASE todo # {}
      BY <1>t, <2>p, <2>u, <3>2, ProceedsEffect DEF Dropping
    <3>3. QED
      BY <3>1, <3>2
  <2>r. /\ runner[i].todo \in SUBSET Migrations /\ runner[i].todo \ {Def(i)} \in SUBSET Migrations
        /\ runner[i].defs \in SUBSET Migrations
    BY <1>t DEF Runner
  <2>k. ASSUME NEW pc \in {"off", "done", "error"}, NEW blamed \in SUBSET Migrations,
               Returns(i, pc, blamed)
        PROVE  W
    <3>1. pc \in RunnerStates
      BY DEF RunnerStates
    <3>2. runner'[i].pc = pc
      BY <1>t, <2>k, <3>1, ReturnsEffect
    <3>3. QED
      BY <2>q, <3>2 DEF OnIndex
  <2>y. ASSUME Retries(i)
        PROVE  W
    <3>1. runner'[i].pc = "polling"
      BY <1>t, <2>y, RetriesEffect
    <3>2. QED
      BY <2>q, <3>1 DEF OnIndex
  <2>1. ASSUME NEW validates \in BOOLEAN, Start(i, validates)
        PROVE  W
    <3> DEFINE defs == Migrations \ InState(Migrations, "ok")
               pc == IF defs = {} THEN "done" ELSE "polling"
               v == validates /\ defs # {}
    <3>1. pc \in {"done", "polling"}
      OBVIOUS
    <3>2. runner' = [runner EXCEPT ![i] = [NoRunner EXCEPT !.pc = pc, !.validates = v, !.defs = defs]]
      BY <2>1 DEF Start
    <3> HIDE DEF defs, pc, v
    <3>3. runner'[i].pc = pc
      BY <1>t, <3>2 DEF NoRunner
    <3>4. QED
      BY <2>q, <3>1, <3>3 DEF OnIndex
  <2>2. ASSUME PollLock(i)
        PROVE  W
    BY <1>g, <1>s, <2>2, <2>q DEF PollLock, OnIndex
  <2>3. ASSUME Fetch(i)
        PROVE  W
    <3>1. /\ InState(runner[i].defs, "failed") \in SUBSET Migrations
          /\ InState(runner[i].defs, "pending") \in SUBSET Migrations
          /\ Todo(i) \in SUBSET Migrations
      BY <2>r DEF InState, Todo
    <3>2. ~runner[i].unlocked
      BY <1>c, <2>3 DEF Fetch, Control, OnIndex
    <3>3. CASE InState(runner[i].defs, "failed") # {}
      BY <2>3, <2>k, <3>1, <3>3 DEF Fetch
    <3>4. CASE InState(runner[i].defs, "failed") = {} /\ InState(runner[i].defs, "pending") # {}
      <4>1. runner'[i].pc = "checking"
        BY <1>t, <2>3, <3>4 DEF Fetch, Runner
      <4>2. QED
        BY <2>q, <4>1 DEF OnIndex
    <3>5. CASE /\ InState(runner[i].defs, "failed") = {} /\ InState(runner[i].defs, "pending") = {}
               /\ runner[i].validates
      <4>1. PICK pc \in {"done", "error"} : Returns(i, pc, {})
        BY <2>3, <3>5 DEF Fetch
      <4>2. QED
        BY <2>k, <4>1
    <3>6. CASE /\ InState(runner[i].defs, "failed") = {} /\ InState(runner[i].defs, "pending") = {}
               /\ ~runner[i].validates
      BY <2>3, <2>p, <3>1, <3>2, <3>6 DEF Fetch
    <3>7. QED
      BY <3>3, <3>4, <3>5, <3>6
  <2>4. ASSUME CheckPending(i)
        PROVE  W
    <3>1. Dead(runner[i].todo) \in SUBSET Migrations
      BY <2>r DEF Dead
    <3>2. QED
      BY <2>4, <2>k, <2>y, <3>1 DEF CheckPending
  <2>5. ASSUME LogTransaction(i) \/ Up(i) \/ UpFails(i)
        PROVE  W
    <3>1. PICK pc \in {"applying", "committed", "rolledback"} : Goto(i, pc)
      BY <2>5 DEF LogTransaction, Up, UpFails
    <3>2. runner'[i].pc = pc
      BY <1>g, <1>s, <3>1 DEF AtWork, Transacting
    <3>3. QED
      BY <2>q, <3>1, <3>2 DEF OnIndex
  <2>6. ASSUME EndTransaction(i)
        PROVE  W
    <3>1. ~runner[i].unlocked
      BY <1>c, <2>6 DEF EndTransaction, Control, OnIndex
    <3>2. QED
      BY <2>6, <2>p, <2>r, <3>1 DEF EndTransaction
  <2>7. ASSUME EndFailure(i) \/ EndIndex(i) \/ Dies(i)
        PROVE  W
    <3>1. {} \in SUBSET Migrations
      OBVIOUS
    <3>2. QED
      BY <2>7, <2>k, <2>y, <3>1 DEF EndFailure, EndIndex, Dies
  <2>8. ASSUME Probe(i)
        PROVE  W
    <3>1. runner[i].pc = "probing" /\ UNCHANGED <<index, spoiled>>
      BY <2>8 DEF Probe
    <3>2. CASE \/ index[Def(i)] = "valid" /\ Goto(i, "recording")
               \/ index[Def(i)] = "invalid" /\ Goto(i, "invalid")
      <4>1. /\ Def(i)' = Def(i) /\ runner'[i].unlocked = runner[i].unlocked
            /\ \/ index[Def(i)] = "valid" /\ runner'[i].pc = "recording"
               \/ index[Def(i)] = "invalid" /\ runner'[i].pc = "invalid"
        BY <1>g, <1>s, <3>2 DEF AtWork, OnIndex
      <4>2. QED
        BY <1>c, <3>1, <4>1 DEF Watched, Dropping
    <3>3. CASE /\ index[Def(i)] \in {"none", "building"}
               /\ \E pc \in {"creating", "probing"} :
                    runner' = [runner EXCEPT ![i].unlocked = TRUE, ![i].pc = pc]
      <4>1. PICK pc \in {"creating", "probing"} :
              runner' = [runner EXCEPT ![i].unlocked = TRUE, ![i].pc = pc]
        BY <3>3
      <4>2. runner'[i].pc = pc /\ runner'[i].todo = runner[i].todo
        BY <1>s, <1>t, <4>1, UnlocksEffect DEF AtWork, OnIndex
      <4>3. Def(i)' = Def(i)
        BY <4>2 DEF Def
      <4>4. QED
        BY <3>1, <3>3, <4>1, <4>2, <4>3 DEF Watched, Dropping
    <3>4. QED
      BY <2>8, <3>2, <3>3 DEF Probe
  <2>9. ASSUME Record(i) \/ DropBegins(i) \/ LogIndex(i) \/ EndRaced(i)
        PROVE  W
    <3>1. PICK pc \in {"recorded", "dropping", "indexing", "probing"} :
            Goto(i, pc) /\ (pc = "dropping" => runner[i].pc = "invalid")
      BY <2>9 DEF Record, DropBegins, LogIndex, EndRaced
    <3>2. /\ runner'[i].pc = pc /\ Def(i)' = Def(i) /\ runner'[i].unlocked = runner[i].unlocked
          /\ UNCHANGED <<index, spoiled>> /\ runner[i].pc # "rolledback"
      BY <1>g, <1>s, <2>9, <3>1 DEF Record, DropBegins, LogIndex, EndRaced, AtWork, OnIndex
    <3>3. QED
      BY <1>c, <3>1, <3>2 DEF Watched, Dropping
  <2>10. ASSUME EndRecord(i)
         PROVE  W
    <3>1. CASE runner[i].unlocked
      BY <2>10, <2>y, <3>1 DEF EndRecord
    <3>2. CASE ~runner[i].unlocked
      BY <2>10, <2>p, <2>r, <3>2 DEF EndRecord
    <3>3. QED
      BY <3>1, <3>2
  <2>11. ASSUME Drop(i)
         PROVE  W
    <3>1. runner'[i].pc = "creating" /\ runner'[i].todo = runner[i].todo
      BY <1>s, <1>t, <2>11, UnlocksEffect DEF Drop, AtWork, OnIndex
    <3>2. Def(i)' = Def(i) /\ index'[Def(i)] = "none"
      BY <1>t, <1>x, <2>11, <3>1 DEF Drop, Def, OnIndex
    <3>3. QED
      BY <3>1, <3>2 DEF Watched, Dropping
  <2>12. ASSUME CreateIndex(i)
         PROVE  W
    <3>1. runner[i].pc = "indexing" /\ UNCHANGED spoiled
      BY <2>12 DEF CreateIndex
    <3>2. CASE index[Def(i)] = "none"
      <4>1. runner'[i].pc = "building" /\ Def(i)' = Def(i) /\ index'[Def(i)] = "building"
        BY <1>g, <1>s, <1>t, <1>x, <2>12, <3>1, <3>2 DEF CreateIndex, AtWork, OnIndex
      <4>2. QED
        BY <3>2, <4>1 DEF Watched, Dropping
    <3>3. CASE index[Def(i)] # "none"
      <4>1. PICK pc \in {"created", "raced"} : Goto(i, pc) /\ UNCHANGED index
        BY <2>12, <3>3 DEF CreateIndex, Raced
      <4>2. /\ runner'[i].pc = pc /\ Def(i)' = Def(i)
            /\ runner'[i].unlocked = runner[i].unlocked
        BY <1>g, <1>s, <4>1 DEF AtWork, OnIndex
      <4>3. QED
        BY <1>c, <3>1, <4>1, <4>2 DEF Watched, Dropping
    <3>4. QED
      BY <3>2, <3>3
  <2>13. ASSUME IndexBuilt(i)
         PROVE  W
    <3>1. runner'[i].pc = "created" /\ Def(i)' = Def(i) /\ index'[Def(i)] = "valid"
      BY <1>g, <1>s, <1>t, <1>x, <2>13 DEF IndexBuilt, AtWork, OnIndex
    <3>2. QED
      BY <3>1 DEF Watched, Dropping
  <2>14. ASSUME IndexFails(i)
         PROVE  W
    <3>1. runner'[i].pc = "rolledback"
      BY <1>g, <1>s, <2>14 DEF IndexFails, AtWork
    <3>2. QED
      BY <2>q, <3>1 DEF OnIndex
  <2>15. QED
    BY <2>1, <2>2, <2>3, <2>4, <2>5, <2>6, <2>7, <2>8, <2>9, <2>10, <2>11, <2>12, <2>13, <2>14
       DEF StepOf, RunnerStep
<1> HIDE DEF W
<1>1. ASSUME NEW k \in Runners \ {i}, runner'[i].pc = "building", runner'[k].pc = "building"
      PROVE  Def(i)' # Def(k)'
  <2>1. runner[k].pc = "building" /\ Def(k)' = Def(k)
    BY <1>1, <1>n DEF OthersStay, Def
  <2>2. index[Def(k)] = "building"
    BY <2>1 DEF IndexInv, Watched
  <2>3. Def(i)' = Def(i) /\ index[Def(i)] = "none"
    BY <1>1, <1>w DEF W
  <2>4. QED
    BY <2>1, <2>2, <2>3
<1>2. ASSUME NEW j \in Runners \ {i}, NEW k \in Runners \ {i}, j # k,
             runner'[j].pc = "building", runner'[k].pc = "building"
      PROVE  Def(j)' # Def(k)'
  BY <1>2, <1>n DEF OthersStay, Def, IndexInv
<1>3. \A k \in Runners : Watched(k)'
  BY <1>w, WatchedByOthers DEF W
<1>4. QED
  BY <1>1, <1>2, <1>3 DEF IndexInv

(***************************************************************************)
(* Every step keeps it true that what is left out is there.                *)
(***************************************************************************)
LEMMA DoneStep ==
  ASSUME Types, ControlInv, TransactionInv, IndexInv, DoneInv, NEW i \in Runners, StepOf(i)
  PROVE  DoneInv'
<1> USE DEF dbVars
<1>t. /\ runner \in [Runners -> Runner] /\ log \in [Migrations -> LogRow]
      /\ index \in [Indexes -> IndexStates]
  BY DEF Types
<1>s. {"off", "polling", "fetching", "checking", "done", "error"} \subseteq RunnerStates
      /\ AtWork \subseteq RunnerStates
  BY DEF RunnerStates, AtWork, Transacting, OnIndex
<1>c. Control(i) /\ Done(i) /\ Watched(i)
  BY DEF ControlInv, DoneInv, IndexInv
<1>n. OthersStay(i)
  BY ControlOfStep
<1>e. \A d \in Migrations : Effective(d) => Effective(d)'
  BY EffectiveStable
<1>r. /\ runner[i].todo \in SUBSET Migrations /\ runner[i].todo \ {Def(i)} \in SUBSET Migrations
      /\ runner[i].defs \in SUBSET Migrations
  BY <1>t DEF Runner
<1>x. runner[i].pc \in AtWork => Def(i) \in Migrations /\ Def(i) \in runner[i].todo
  BY DefOfRunner
<1>y. runner[i].pc \in OnIndex => Def(i) \in Indexes /\ index[Def(i)] \in IndexStates
  BY <1>c, <1>t DEF Control, AtWork, OnIndex
<1>m. runner[i].pc = "committed" => Effective(Def(i))
  <2>1. SUFFICES ASSUME runner[i].pc = "committed"
                 PROVE  Effective(Def(i))
    OBVIOUS
  <2>2. InTransaction(i)
    BY <2>1 DEF InTransaction
  <2>3. Def(i) \in Migrations \ Indexes /\ applied[Def(i)] = 1
    BY <2>1, <2>2, TransactionHasLock DEF TransactionInv
  <2>4. QED
    BY <2>3 DEF Effective
<1>g. \A pc \in RunnerStates : Goto(i, pc) =>
        /\ runner'[i].pc = pc /\ runner'[i].todo = runner[i].todo /\ Def(i)' = Def(i)
        /\ runner'[i].defs = runner[i].defs
  BY <1>t, GotoEffect DEF Def
<1>l. LogTrue'
  <2>1. ASSUME NEW d \in Migrations, log'[d].state = "ok" => log[d].state = "ok"
        PROVE  log'[d].state = "ok" => Effective(d)'
    BY <1>e, <2>1 DEF DoneInv, LogTrue
  <2>2. ASSUME NEW d \in Migrations, NewLog(i, Def(i)) \/ UNCHANGED log
        PROVE  log'[d].state = "ok" => Effective(d)'
    <3>1. log'[d].state = "ok" => log[d].state = "ok"
      BY <1>t, <2>2 DEF NewLog
    <3>2. QED
      BY <2>1, <3>1
  <2>3. ASSUME NEW d \in Migrations, Def(i) \in Migrations, EndLog(i, Def(i), "ok"),
               Effective(Def(i))
        PROVE  log'[d].state = "ok" => Effective(d)'
    <3>1. CASE d = Def(i)
      <4>1. Effective(d)
        BY <2>3, <3>1
      <4>2. QED
        BY <1>e, <4>1
    <3>2. CASE d # Def(i)
      <4>1. log'[d] = log[d]
        BY <1>t, <2>3, <3>2 DEF EndLog
      <4>2. QED
        BY <2>1, <4>1
    <3>3. QED
      BY <3>1, <3>2
  <2>4. ASSUME NEW d \in Migrations,
               EndLog(i, Def(i), "failed") \/ DropBegins(i) \/ Drop(i) \/ Dies(i)
        PROVE  log'[d].state = "ok" => Effective(d)'
    <3>1. CASE EndLog(i, Def(i), "failed")
      <4>1. log'[d] = log[d] \/ log'[d].state = "failed"
        BY <1>t, <3>1 DEF EndLog
      <4>2. QED
        BY <2>1, <4>1
    <3>2. CASE Drop(i)
      <4>1. log'[d] = log[d] \/ log'[d].state = "reverted"
        BY <1>t, <3>2 DEF Drop
      <4>2. QED
        BY <2>1, <4>1
    <3>3. CASE Dies(i)
      <4>1. log'[d] = log[d] \/ log'[d] = [log[d] EXCEPT !.by = Nobody]
        BY <3>3 DEF Dies
      <4>2. log'[d].state = log[d].state
        BY <1>t, <4>1 DEF LogRow
      <4>3. QED
        BY <2>1, <4>2
    <3>4. CASE DropBegins(i)
      <4>1. log'[d].state = log[d].state
        BY <3>4, DropBeginsEffect
      <4>2. QED
        BY <2>1, <4>1
    <3>5. QED
      BY <2>4, <3>1, <3>2, <3>3, <3>4
  <2>5. ASSUME EndTransaction(i) \/ EndRecord(i) \/ EndIndex(i) \/ EndRaced(i)
        PROVE  Def(i) \in Migrations /\ EndLog(i, Def(i), "ok") /\ Effective(Def(i))
    BY <1>c, <1>m, <1>x, <2>5 DEF EndTransaction, EndRecord, EndIndex, EndRaced, Done,
         AtWork, Transacting, OnIndex
  <2>6. \/ NewLog(i, Def(i)) \/ UNCHANGED log
        \/ EndTransaction(i) \/ EndRecord(i) \/ EndIndex(i) \/ EndRaced(i)
        \/ EndLog(i, Def(i), "failed") \/ DropBegins(i) \/ Drop(i) \/ Dies(i)
    BY DEF StepOf, RunnerStep, Start, PollLock, Fetch, CheckPending, LogTransaction, Up, UpFails,
           EndFailure, Probe, Record, LogIndex, CreateIndex, IndexBuilt, IndexFails
  <2>7. QED
    BY <2>2, <2>3, <2>4, <2>5, <2>6 DEF LogTrue
<1>i. InOrder'
  <2>1. ASSUME NEW d \in Migrations \ Indexes, applied'[d] > 0, NEW e \in 1 .. d - 1
        PROVE  Effective(e)'
    <3>0. e \in Migrations
      BY DEF Migrations
    <3>1. CASE applied[d] > 0
      BY <1>e, <3>0, <3>1 DEF DoneInv, InOrder
    <3>2. CASE ~(applied[d] > 0)
      <4>1. Up(i)
        BY <2>1, <3>2 DEF StepOf, RunnerStep, Start, PollLock, Fetch, CheckPending,
           LogTransaction, UpFails, EndTransaction, EndFailure, Probe, Record, EndRecord, DropBegins, Drop,
           LogIndex, CreateIndex, IndexBuilt, IndexFails, EndIndex, EndRaced, Dies
      <4>2. d = Def(i) /\ runner[i].pc = "applying"
        BY <2>1, <3>2, <4>1 DEF Up, Types
      <4>3. \A x \in runner[i].todo : d <= x
        BY <4>2, DefOfRunner DEF AtWork, Transacting
      <4>4. e \notin runner[i].todo
        BY <4>3 DEF Migrations
      <4>5. Effective(e)
        BY <1>c, <3>0, <4>2, <4>4 DEF Done, Working, RunnerStates, AtWork, Transacting
      <4>6. QED
        BY <1>e, <3>0, <4>5
    <3>3. QED
      BY <3>1, <3>2
  <2>2. QED
    BY <2>1 DEF InOrder
<1>o. ASSUME NEW k \in Runners \ {i}
      PROVE  Done(k)'
  <2>1. runner'[k] = runner[k] /\ Def(k)' = Def(k) /\ Done(k)
    BY <1>n DEF OthersStay, Def, DoneInv
  <2>2. runner[k].defs \in SUBSET Migrations
    BY <1>t DEF Runner
  <2>3. runner[k].pc \in AtWork => Def(k) \in Migrations
    BY DefOfRunner
  <2>4. runner[k].pc \in {"recording", "recorded", "created", "raced"} => Effective(Def(k))'
    <3>1. SUFFICES ASSUME runner[k].pc \in {"recording", "recorded", "created", "raced"}
                   PROVE  Effective(Def(k))'
      OBVIOUS
    <3>2. Def(k) \in Migrations /\ Effective(Def(k))
      BY <2>1, <2>3, <3>1 DEF Done, AtWork, OnIndex
    <3>3. PICK d \in Migrations : d = Def(k) /\ Effective(d)
      BY <3>2
    <3>4. Effective(d)' /\ d = Def(k)'
      BY <1>e, <2>1, <3>3
    <3>5. QED
      BY <3>4 DEF Effective
  <2>5. QED
    BY <1>e, <2>1, <2>2, <2>4 DEF Done
<1>f. ASSUME NEW D \in Migrations, D = Def(i)', Effective(D)'
      PROVE  Effective(Def(i))'
  BY <1>f DEF Effective
<1>d. Done(i)'
  <2>q. ASSUME runner'[i].pc \in {"off", "done", "error"}
        PROVE  Done(i)'
    BY <2>q DEF Done, Working, AtWork, Transacting, OnIndex
  <2>k. ASSUME NEW pc \in {"off", "done", "error"}, NEW blamed \in SUBSET Migrations,
               Returns(i, pc, blamed)
        PROVE  Done(i)'
    <3>1. pc \in RunnerStates
      BY DEF RunnerStates
    <3>2. QED
      BY <1>t, <2>k, <2>q, <3>1, ReturnsEffect
  <2>w. runner[i].pc \in Working \cup {"polling"} =>
          \A d \in Migrations \ runner[i].defs : Effective(d)'
    BY <1>c, <1>e DEF Done
  <2>y. ASSUME Retries(i), runner[i].pc \in Working
        PROVE  Done(i)'
    <3>1. runner'[i].pc = "polling" /\ runner'[i].defs = runner[i].defs
      BY <1>t, <2>y, RetriesEffect
    <3>2. QED
      BY <2>w, <2>y, <3>1 DEF Done, AtWork, Transacting, OnIndex
  <2>p. ASSUME NEW todo \in SUBSET Migrations, Proceeds(i, todo), runner[i].pc \in Working,
               \A d \in runner[i].defs \ todo : Effective(d)
        PROVE  Done(i)'
    <3>1. CASE todo = {}
      BY <2>k, <2>p, <3>1 DEF Proceeds
    <3>2. CASE todo # {}
      <4>1. /\ runner'[i].pc \in {"probing", "logging"}
            /\ runner'[i].todo = todo /\ runner'[i].defs = runner[i].defs
        BY <1>t, <2>p, <3>2, ProceedsEffect
      <4>2. \A d \in runner[i].defs \ todo : Effective(d)'
        BY <1>e, <1>r, <2>p
      <4>3. QED
        BY <2>p, <2>w, <4>1, <4>2 DEF Done
    <3>3. QED
      BY <3>1, <3>2
  <2>a. ASSUME runner[i].pc \in AtWork, runner'[i].defs = runner[i].defs,
               runner'[i].todo = runner[i].todo,
               runner'[i].pc \in {"recording", "recorded", "created", "raced"} => Effective(Def(i))'
        PROVE  Done(i)'
    <3>1. runner[i].pc \in Working
      BY <2>a DEF Working, AtWork, Transacting, OnIndex, RunnerStates
    <3>2. \A d \in runner[i].defs \ runner[i].todo : Effective(d)'
      BY <1>c, <1>e, <1>r, <2>a DEF Done
    <3>3. QED
      BY <2>a, <2>w, <3>1, <3>2 DEF Done
  <2>1. ASSUME NEW validates \in BOOLEAN, Start(i, validates)
        PROVE  Done(i)'
    <3> DEFINE defs == Migrations \ InState(Migrations, "ok")
               pc == IF defs = {} THEN "done" ELSE "polling"
               v == validates /\ defs # {}
    <3>1. pc \in {"done", "polling"}
      OBVIOUS
    <3>2. runner' = [runner EXCEPT ![i] = [NoRunner EXCEPT !.pc = pc, !.validates = v, !.defs = defs]]
      BY <2>1 DEF Start
    <3>3. \A d \in Migrations \ defs : Effective(d)'
      BY <1>e DEF InState, DoneInv, LogTrue
    <3> HIDE DEF defs, pc, v
    <3>4. runner'[i].pc = pc /\ runner'[i].defs = defs
      BY <1>t, <3>2 DEF NoRunner
    <3>5. QED
      BY <3>1, <3>3, <3>4 DEF Done, AtWork, Transacting, OnIndex
  <2>2. ASSUME PollLock(i)
        PROVE  Done(i)'
    <3>1. /\ runner'[i].pc = "fetching" /\ runner'[i].defs = runner[i].defs
          /\ runner[i].pc = "polling"
      BY <1>g, <1>s, <2>2 DEF PollLock
    <3>2. QED
      BY <2>w, <3>1 DEF Done, AtWork, Transacting, OnIndex
  <2>3. ASSUME Fetch(i)
        PROVE  Done(i)'
    <3>1. /\ InState(runner[i].defs, "failed") \in SUBSET Migrations
          /\ InState(runner[i].defs, "pending") \in SUBSET Migrations
          /\ Todo(i) \in SUBSET Migrations
      BY <1>r DEF InState, Todo
    <3>2. runner[i].pc \in Working
      BY <2>3 DEF Fetch, Working, RunnerStates
    <3>3. CASE InState(runner[i].defs, "failed") # {}
      BY <2>3, <2>k, <3>1, <3>3 DEF Fetch
    <3>4. CASE InState(runner[i].defs, "failed") = {} /\ InState(runner[i].defs, "pending") # {}
      <4>1. runner'[i].pc = "checking" /\ runner'[i].defs = runner[i].defs
        BY <1>t, <2>3, <3>4 DEF Fetch, Runner
      <4>2. QED
        BY <2>w, <3>2, <4>1 DEF Done, AtWork, Transacting, OnIndex
    <3>5. CASE /\ InState(runner[i].defs, "failed") = {} /\ InState(runner[i].defs, "pending") = {}
               /\ runner[i].validates
      <4>1. PICK pc \in {"done", "error"} : Returns(i, pc, {})
        BY <2>3, <3>5 DEF Fetch
      <4>2. QED
        BY <2>k, <4>1
    <3>6. CASE /\ InState(runner[i].defs, "failed") = {} /\ InState(runner[i].defs, "pending") = {}
               /\ ~runner[i].validates
      <4>1. \A d \in runner[i].defs \ Todo(i) : Effective(d)
        BY <1>r DEF Todo, InState, DoneInv, LogTrue
      <4>2. Proceeds(i, Todo(i))
        BY <2>3, <3>6 DEF Fetch
      <4>3. QED
        BY <2>p, <3>1, <3>2, <4>1, <4>2
    <3>7. QED
      BY <3>3, <3>4, <3>5, <3>6
  <2>4. ASSUME CheckPending(i)
        PROVE  Done(i)'
    <3>1. Dead(runner[i].todo) \in SUBSET Migrations
      BY <1>r DEF Dead
    <3>2. runner[i].pc \in Working
      BY <2>4 DEF CheckPending, Working, RunnerStates
    <3>3. QED
      BY <2>4, <2>k, <2>y, <3>1, <3>2 DEF CheckPending
  <2>5. ASSUME \/ LogTransaction(i) \/ Up(i) \/ UpFails(i) \/ LogIndex(i) \/ EndRaced(i)
               \/ IndexFails(i) \/ DropBegins(i)
        PROVE  Done(i)'
    <3>1. PICK pc \in {"applying", "committed", "rolledback", "indexing", "probing", "dropping"} :
            Goto(i, pc)
      BY <2>5 DEF LogTransaction, Up, UpFails, LogIndex, EndRaced, IndexFails, DropBegins
    <3>2. runner[i].pc \in AtWork
      BY <2>5 DEF LogTransaction, Up, UpFails, LogIndex, EndRaced, IndexFails, DropBegins,
                  AtWork, Transacting, OnIndex
    <3>3. /\ runner'[i].pc = pc /\ runner'[i].defs = runner[i].defs
          /\ runner'[i].todo = runner[i].todo
      BY <1>g, <1>s, <3>1 DEF AtWork, Transacting, OnIndex
    <3>4. QED
      BY <2>a, <3>1, <3>2, <3>3
  <2>6. ASSUME EndTransaction(i)
        PROVE  Done(i)'
    <3>1. runner[i].pc \in Working /\ runner[i].pc \in AtWork
      BY <2>6 DEF EndTransaction, Working, RunnerStates, AtWork, Transacting
    <3>2. \A d \in runner[i].defs \ (runner[i].todo \ {Def(i)}) : Effective(d)
      BY <1>c, <1>m, <2>6, <3>1 DEF EndTransaction, Done
    <3>3. QED
      BY <1>r, <2>6, <2>p, <3>1, <3>2 DEF EndTransaction
  <2>7. ASSUME EndFailure(i) \/ Dies(i)
        PROVE  Done(i)'
    <3>1. {} \in SUBSET Migrations
      OBVIOUS
    <3>2. QED
      BY <2>7, <2>k, <3>1 DEF EndFailure, Dies
  <2>8. ASSUME Probe(i)
        PROVE  Done(i)'
    <3>1. runner[i].pc = "probing" /\ runner[i].pc \in AtWork /\ UNCHANGED <<index, spoiled>>
      BY <2>8 DEF Probe, AtWork, OnIndex
    <3>2. CASE index[Def(i)] = "valid" /\ Goto(i, "recording")
      <4>1. /\ runner'[i].defs = runner[i].defs /\ runner'[i].todo = runner[i].todo
            /\ Def(i)' = Def(i)
        BY <1>g, <1>s, <3>2 DEF AtWork, OnIndex
      <4>2. PICK D \in Migrations : D = Def(i) /\ D \in Indexes
        BY <1>x, <1>y, <3>1 DEF OnIndex
      <4>3. Effective(D)
        BY <3>2, <4>2 DEF Effective
      <4>4. QED
        BY <1>e, <1>f, <2>a, <3>1, <4>1, <4>2, <4>3
    <3>3. CASE Goto(i, "invalid")
      <4>1. /\ runner'[i].defs = runner[i].defs /\ runner'[i].todo = runner[i].todo
            /\ runner'[i].pc = "invalid"
        BY <1>g, <1>s, <3>3 DEF AtWork, OnIndex
      <4>2. QED
        BY <2>a, <3>1, <4>1
    <3>4. CASE \E pc \in {"creating", "probing"} :
                 runner' = [runner EXCEPT ![i].unlocked = TRUE, ![i].pc = pc]
      <4>1. PICK pc \in {"creating", "probing"} :
              runner' = [runner EXCEPT ![i].unlocked = TRUE, ![i].pc = pc]
        BY <3>4
      <4>2. /\ runner'[i].pc = pc /\ runner'[i].todo = runner[i].todo
            /\ runner'[i].defs = runner[i].defs
        BY <1>s, <1>t, <4>1, UnlocksEffect DEF AtWork, OnIndex
      <4>3. QED
        BY <2>a, <3>1, <4>1, <4>2
    <3>5. QED
      BY <2>8, <3>2, <3>3, <3>4 DEF Probe
  <2>9. ASSUME Record(i)
        PROVE  Done(i)'
    <3>1. /\ runner'[i].defs = runner[i].defs /\ runner'[i].todo = runner[i].todo
          /\ Def(i)' = Def(i) /\ runner[i].pc = "recording" /\ runner[i].pc \in AtWork
      BY <1>g, <1>s, <2>9 DEF Record, AtWork, OnIndex
    <3>2. PICK D \in Migrations : D = Def(i) /\ Effective(D)
      BY <1>c, <1>x, <3>1 DEF Done
    <3>3. QED
      BY <1>e, <1>f, <2>a, <3>1, <3>2
  <2>10. ASSUME EndRecord(i)
         PROVE  Done(i)'
    <3>1. runner[i].pc = "recorded" /\ runner[i].pc \in Working /\ runner[i].pc \in AtWork
      BY <2>10 DEF EndRecord, Working, RunnerStates, AtWork, OnIndex
    <3>2. CASE runner[i].unlocked
      BY <2>10, <2>y, <3>1, <3>2 DEF EndRecord
    <3>3. CASE ~runner[i].unlocked
      <4>1. \A d \in runner[i].defs \ (runner[i].todo \ {Def(i)}) : Effective(d)
        BY <1>c, <3>1 DEF Done
      <4>2. QED
        BY <1>r, <2>10, <2>p, <3>1, <3>3, <4>1 DEF EndRecord
    <3>4. QED
      BY <3>2, <3>3
  <2>11. ASSUME Drop(i)
         PROVE  Done(i)'
    <3>1. /\ runner'[i].pc = "creating" /\ runner'[i].todo = runner[i].todo
          /\ runner'[i].defs = runner[i].defs /\ runner[i].pc \in AtWork
      BY <1>s, <1>t, <2>11, UnlocksEffect DEF Drop, AtWork, OnIndex
    <3>2. QED
      BY <2>a, <3>1
  <2>12. ASSUME CreateIndex(i)
         PROVE  Done(i)'
    <3>1. runner[i].pc = "indexing" /\ runner[i].pc \in AtWork /\ UNCHANGED spoiled
      BY <2>12 DEF CreateIndex, AtWork, OnIndex
    <3>2. CASE index[Def(i)] = "none"
      <4>1. /\ runner'[i].pc = "building" /\ runner'[i].defs = runner[i].defs
            /\ runner'[i].todo = runner[i].todo
        BY <1>g, <1>s, <2>12, <3>2 DEF CreateIndex, AtWork, OnIndex
      <4>2. QED
        BY <2>a, <3>1, <4>1
    <3>3. CASE index[Def(i)] # "none"
      <4>1. PICK pc \in {"created", "raced"} : Goto(i, pc) /\ index[Def(i)] # "building"
        BY <2>12, <3>3 DEF CreateIndex, Raced
      <4>2. /\ Def(i)' = Def(i) /\ runner'[i].defs = runner[i].defs
            /\ runner'[i].todo = runner[i].todo
        BY <1>g, <1>s, <4>1 DEF AtWork, OnIndex
      <4>3. PICK D \in Migrations : D = Def(i) /\ D \in Indexes
        BY <1>x, <1>y, <3>1 DEF OnIndex
      <4>4. index[D] = "valid" \/ D \in spoiled
        <5>1. runner[i].unlocked
          BY <1>c, <3>1 DEF Control, Unlocked
        <5>2. index[D] \in {"invalid", "valid"}
          BY <1>t, <3>3, <4>1, <4>3 DEF IndexStates
        <5>3. QED
          BY <1>c, <3>1, <4>3, <5>1, <5>2 DEF Watched
      <4>5. Effective(D)
        BY <4>3, <4>4 DEF Effective
      <4>6. QED
        BY <1>e, <1>f, <2>a, <3>1, <4>2, <4>3, <4>5
    <3>4. QED
      BY <3>2, <3>3
  <2>13. ASSUME IndexBuilt(i)
         PROVE  Done(i)'
    <3>1. /\ Def(i)' = Def(i) /\ runner'[i].defs = runner[i].defs
          /\ runner'[i].todo = runner[i].todo
          /\ runner[i].pc = "building" /\ runner[i].pc \in AtWork
      BY <1>g, <1>s, <2>13 DEF IndexBuilt, AtWork, OnIndex
    <3>2. PICK D \in Migrations : D = Def(i) /\ D \in Indexes
      BY <1>x, <1>y, <3>1 DEF OnIndex
    <3>3. index'[D] = "valid"
      BY <1>t, <2>13, <3>2 DEF IndexBuilt
    <3>4. Effective(D)'
      BY <3>2, <3>3 DEF Effective
    <3>5. QED
      BY <1>f, <2>a, <3>1, <3>2, <3>4
  <2>14. ASSUME EndIndex(i)
         PROVE  Done(i)'
    <3>1. runner[i].pc \in Working
      BY <2>14 DEF EndIndex, Working, RunnerStates
    <3>2. QED
      BY <2>14, <2>y, <3>1 DEF EndIndex
  <2>15. QED
    BY <2>1, <2>2, <2>3, <2>4, <2>5, <2>6, <2>7, <2>8, <2>9, <2>10, <2>11, <2>12, <2>13, <2>14
       DEF StepOf, RunnerStep
<1>z. QED
  BY <1>d, <1>i, <1>l, <1>o DEF DoneInv

(***************************************************************************)
(* Nobody is blamed as long as nothing has failed.                         *)
(***************************************************************************)
LEMMA AlarmStep ==
  ASSUME Types, ControlInv, TransactionInv, AlarmInv, NEW i \in Runners, StepOf(i)
  PROVE  AlarmInv'
<1> USE DEF dbVars
<1>a. SUFFICES ASSUME failures' = 0
               PROVE  /\ \A d \in Migrations \ Indexes : NoTrace(d)'
                      /\ \A k \in Runners : NoBlame(k)'
  BY DEF AlarmInv
<1>f. failures = 0 /\ ~Fails
  <2>1. Fails \/ UNCHANGED failures
    BY DEF StepOf, RunnerStep, Start, PollLock, Fetch, CheckPending, LogTransaction, Up, UpFails,
           EndTransaction, EndFailure, Probe, Record, EndRecord, DropBegins, Drop, LogIndex, CreateIndex,
           IndexBuilt, IndexFails, EndIndex, EndRaced, Dies
  <2>2. QED
    BY <1>a, <2>1 DEF Fails, Types
<1>h. (\A d \in Migrations \ Indexes : NoTrace(d)) /\ NoBlame(i)
  BY <1>f DEF AlarmInv
<1>t. runner \in [Runners -> Runner] /\ log \in [Migrations -> LogRow]
  BY DEF Types
<1>s. {"off", "polling", "fetching", "checking", "done", "error"} \subseteq RunnerStates
      /\ AtWork \subseteq RunnerStates
  BY DEF RunnerStates, AtWork, Transacting, OnIndex
<1>z. {} \in SUBSET Migrations
  OBVIOUS
<1>c. Control(i)
  BY DEF ControlInv
<1>r. /\ runner[i].todo \in SUBSET Migrations /\ runner[i].todo \ {Def(i)} \in SUBSET Migrations
      /\ runner[i].defs \in SUBSET Migrations
  BY <1>t DEF Runner
<1>1. ASSUME NEW d \in Migrations \ Indexes
      PROVE  NoTrace(d)'
  <2>1. CASE LogTransaction(i) \/ Record(i) \/ LogIndex(i)
    <3>1. NewLog(i, Def(i))
      BY <2>1 DEF LogTransaction, Record, LogIndex
    <3>2. log'[d] = log[d] \/ log'[d] = [state |-> "pending", by |-> i, later |-> {}]
      BY <1>t, <3>1 DEF NewLog
    <3>3. QED
      BY <1>h, <3>2 DEF NoTrace
  <2>2. CASE EndTransaction(i) \/ EndRecord(i) \/ EndIndex(i) \/ EndRaced(i)
    <3>1. EndLog(i, Def(i), "ok")
      BY <2>2 DEF EndTransaction, EndRecord, EndIndex, EndRaced
    <3>2. log'[d] = log[d] \/ log'[d].state = "ok"
      BY <1>t, <3>1 DEF EndLog
    <3>3. QED
      BY <1>h, <3>2 DEF NoTrace
  <2>3. CASE Drop(i)
    <3>1. log'[d] = log[d] \/ log'[d].state = "reverted"
      BY <1>t, <2>3 DEF Drop
    <3>2. QED
      BY <1>h, <3>1 DEF NoTrace
  <2>4. CASE UNCHANGED log
    BY <1>h, <2>4 DEF NoTrace
  <2>5. ~EndFailure(i) /\ ~UpFails(i) /\ ~IndexFails(i) /\ ~Dies(i)
    BY <1>f, <1>h DEF EndFailure, UpFails, IndexFails, Dies, NoBlame
  <2>6. CASE DropBegins(i)
    <3>1. log'[d] = log[d]
      BY <2>6, DropBeginsEffect
    <3>2. QED
      BY <1>h, <3>1 DEF NoTrace
  <2>7. QED
    BY <2>1, <2>2, <2>3, <2>4, <2>5, <2>6 DEF StepOf, RunnerStep, Start, PollLock, Fetch,
       CheckPending, Up, Probe, CreateIndex, IndexBuilt
<1>2. ASSUME NEW k \in Runners \ {i}
      PROVE  NoBlame(k)'
  BY <1>f, ControlOfStep DEF AlarmInv, NoBlame, OthersStay
<1>3. NoBlame(i)'
  <2>k. ASSUME NEW pc \in {"done", "error"}, NEW blamed \in SUBSET Migrations,
               Returns(i, pc, blamed), blamed \subseteq Indexes
        PROVE  NoBlame(i)'
    <3>1. pc \in RunnerStates
      BY DEF RunnerStates
    <3>2. runner'[i].pc = pc /\ runner'[i].blamed = blamed
      BY <1>t, <2>k, <3>1, ReturnsEffect
    <3>3. QED
      BY <2>k, <3>2 DEF NoBlame
  <2>y. ASSUME Retries(i)
        PROVE  NoBlame(i)'
    <3>1. runner'[i].pc = "polling" /\ runner'[i].blamed = runner[i].blamed
      BY <1>t, <2>y, RetriesEffect
    <3>2. QED
      BY <1>h, <3>1 DEF NoBlame
  <2>p. ASSUME NEW todo \in SUBSET Migrations, Proceeds(i, todo)
        PROVE  NoBlame(i)'
    <3>1. CASE todo = {}
      BY <1>z, <2>k, <2>p, <3>1 DEF Proceeds
    <3>2. CASE todo # {}
      <4>1. runner'[i].pc \in {"probing", "logging"} /\ runner'[i].blamed = runner[i].blamed
        BY <1>t, <2>p, <3>2, ProceedsEffect
      <4>2. QED
        BY <1>h, <4>1 DEF NoBlame
    <3>3. QED
      BY <3>1, <3>2
  <2>1. ASSUME NEW validates \in BOOLEAN, Start(i, validates)
        PROVE  NoBlame(i)'
    <3> DEFINE defs == Migrations \ InState(Migrations, "ok")
               pc == IF defs = {} THEN "done" ELSE "polling"
               v == validates /\ defs # {}
    <3>1. pc \in {"done", "polling"}
      OBVIOUS
    <3>2. runner' = [runner EXCEPT ![i] = [NoRunner EXCEPT !.pc = pc, !.validates = v, !.defs = defs]]
      BY <2>1 DEF Start
    <3> HIDE DEF defs, pc, v
    <3>3. runner'[i].pc = pc /\ runner'[i].blamed = {}
      BY <1>t, <3>2 DEF NoRunner
    <3>4. QED
      BY <3>1, <3>3 DEF NoBlame
  <2>2. ASSUME NEW pc \in RunnerStates \ {"rolledback", "checking"}, Goto(i, pc)
        PROVE  NoBlame(i)'
    BY <1>h, <1>t, <2>2, GotoEffect DEF NoBlame
  <2>3. ASSUME Fetch(i)
        PROVE  NoBlame(i)'
    <3>1. /\ InState(runner[i].defs, "failed") \in SUBSET Migrations
          /\ InState(runner[i].defs, "pending") \in SUBSET Migrations
          /\ Todo(i) \in SUBSET Migrations
      BY <1>r DEF InState, Todo
    <3>2. lock = i /\ runner[i].pc = "fetching"
      BY <1>c, <2>3 DEF Fetch, Control, Working, RunnerStates, OnIndex
    <3>3. InState(runner[i].defs, "failed") \subseteq Indexes
      BY <1>h, <1>r DEF InState, NoTrace
    <3>4. InState(runner[i].defs, "pending") \subseteq Indexes
      <4>1. SUFFICES ASSUME NEW d \in Migrations \ Indexes, log[d].state = "pending"
                     PROVE  FALSE
        BY <1>r DEF InState
      <4>2. PICK k \in Runners : k = log[d].by /\ InTransaction(k)
        BY <1>h, <1>t, <4>1 DEF NoTrace, LogRow, TransactionInv, Row
      <4>3. lock = k
        BY <4>2, TransactionHasLock
      <4>4. QED
        BY <3>2, <4>2, <4>3 DEF InTransaction
    <3>5. CASE InState(runner[i].defs, "failed") # {}
      BY <2>3, <2>k, <3>1, <3>3, <3>5 DEF Fetch
    <3>6. CASE InState(runner[i].defs, "failed") = {} /\ InState(runner[i].defs, "pending") # {}
      <4> DEFINE S == InState(runner[i].defs, "pending")
      <4>1. runner' = [runner EXCEPT ![i].pc = "checking", ![i].todo = S] /\ S \subseteq Indexes
        BY <2>3, <3>4, <3>6 DEF Fetch
      <4> HIDE DEF S
      <4>2. runner'[i].todo = S /\ runner'[i].blamed = runner[i].blamed /\ runner'[i].pc = "checking"
        BY <1>t, <4>1 DEF Runner
      <4>3. QED
        BY <1>h, <4>1, <4>2 DEF NoBlame
    <3>7. CASE /\ InState(runner[i].defs, "failed") = {} /\ InState(runner[i].defs, "pending") = {}
               /\ runner[i].validates
      <4>1. PICK pc \in {"done", "error"} : Returns(i, pc, {})
        BY <2>3, <3>7 DEF Fetch
      <4>2. QED
        BY <1>z, <2>k, <4>1
    <3>8. CASE /\ InState(runner[i].defs, "failed") = {} /\ InState(runner[i].defs, "pending") = {}
               /\ ~runner[i].validates
      BY <2>3, <2>p, <3>1, <3>8 DEF Fetch
    <3>9. QED
      BY <3>5, <3>6, <3>7, <3>8
  <2>4. ASSUME CheckPending(i)
        PROVE  NoBlame(i)'
    <3>1. Dead(runner[i].todo) \in SUBSET Migrations /\ Dead(runner[i].todo) \subseteq Indexes
      BY <1>h, <1>r, <2>4 DEF Dead, CheckPending, NoBlame
    <3>2. QED
      BY <2>4, <2>k, <2>y, <3>1 DEF CheckPending
  <2>5. ASSUME EndTransaction(i) \/ EndRecord(i) \/ EndIndex(i)
        PROVE  NoBlame(i)'
    BY <1>r, <2>5, <2>p, <2>y DEF EndTransaction, EndRecord, EndIndex
  <2>6. ASSUME Drop(i) \/ Probe(i)
        PROVE  NoBlame(i)'
    <3>1. CASE \E pc \in {"creating", "probing"} :
                 \/ runner' = [runner EXCEPT ![i].unlocked = TRUE, ![i].pc = pc]
                 \/ runner' = [runner EXCEPT ![i].pc = pc, ![i].unlocked = TRUE]
      <4>1. PICK pc \in {"creating", "probing"} :
                 \/ runner' = [runner EXCEPT ![i].unlocked = TRUE, ![i].pc = pc]
                 \/ runner' = [runner EXCEPT ![i].pc = pc, ![i].unlocked = TRUE]
        BY <3>1
      <4>2. runner'[i].pc = pc /\ runner'[i].blamed = runner[i].blamed
        BY <1>s, <1>t, <4>1, UnlocksEffect DEF AtWork, OnIndex
      <4>3. QED
        BY <1>h, <4>1, <4>2 DEF NoBlame
    <3>2. CASE \E pc \in {"recording", "invalid"} : Goto(i, pc)
      BY <2>2, <3>2 DEF RunnerStates
    <3>3. QED
      BY <2>6, <3>1, <3>2 DEF Drop, Probe
  <2>7. ASSUME \/ PollLock(i) \/ LogTransaction(i) \/ Up(i) \/ Record(i) \/ LogIndex(i)
               \/ CreateIndex(i) \/ IndexBuilt(i) \/ EndRaced(i) \/ DropBegins(i)
        PROVE  NoBlame(i)'
    <3>1. PICK pc \in {"fetching", "applying", "committed", "recorded", "indexing", "building",
                       "created", "raced", "probing", "dropping"} : Goto(i, pc)
      BY <2>7 DEF PollLock, LogTransaction, Up, Record, LogIndex, CreateIndex, IndexBuilt,
                  EndRaced, Raced, DropBegins
    <3>2. QED
      BY <2>2, <3>1 DEF RunnerStates
  <2>8. ~EndFailure(i) /\ ~UpFails(i) /\ ~IndexFails(i) /\ ~Dies(i)
    BY <1>f, <1>h DEF EndFailure, UpFails, IndexFails, Dies, NoBlame
  <2>9. QED
    BY <2>1, <2>3, <2>4, <2>5, <2>6, <2>7, <2>8 DEF StepOf, RunnerStep
<1>4. QED
  BY <1>1, <1>2, <1>3
----------------------------------------------------------------------------
(***************************************************************************)
(* The inductive invariant: the types, the lock where the work is, the log *)
(* true about transactions, indexes as their runners left them, and what   *)
(* is left out done.                                                       *)
(***************************************************************************)
THEOREM MigrationInvariant == MigrationSpec => []MigrationInv
<1>1. MigrationInit => MigrationInv
  <2>1. SUFFICES ASSUME MigrationInit
                 PROVE  MigrationInv
    OBVIOUS
  <2> USE DEF MigrationInit, NoRunner, NoLog
  <2>2. Types
    BY <2>1 DEF Types, Runner, RunnerStates, LogRow, IndexStates
  <2>3. ControlInv
    BY <2>1 DEF ControlInv, Control, Working, AtWork, Transacting, OnIndex, Unlocked
  <2>4. TransactionInv
    BY <2>1 DEF TransactionInv, Row, InTransaction, Untouched
  <2>5. IndexInv
    BY <2>1 DEF IndexInv, Watched, Dropping
  <2>6. DoneInv
    BY <2>1 DEF DoneInv, LogTrue, InOrder, Done, Working, AtWork, Transacting, OnIndex
  <2>7. AlarmInv
    BY <2>1 DEF AlarmInv, NoTrace, NoBlame
  <2>8. QED
    BY <2>2, <2>3, <2>4, <2>5, <2>6, <2>7 DEF MigrationInv
<1>2. MigrationInv /\ [MigrationNext]_migrationVars => MigrationInv'
  <2>1. SUFFICES ASSUME MigrationInv, [MigrationNext]_migrationVars
                 PROVE  MigrationInv'
    OBVIOUS
  <2>2. Types /\ ControlInv /\ TransactionInv /\ IndexInv /\ DoneInv /\ AlarmInv
    BY <2>1 DEF MigrationInv
  <2>3. Types' /\ ControlInv'
    BY <2>1, <2>2, TypesStep, ControlStep
  <2>4. CASE \E i \in Runners : StepOf(i)
    BY <2>2, <2>3, <2>4, TransactionStep, IndexStep, DoneStep, AlarmStep DEF MigrationInv
  <2>5. CASE UNCHANGED migrationVars
    <3>1. \A i \in Runners : Def(i)' = Def(i) /\ (InTransaction(i)' <=> InTransaction(i))
      BY <2>5 DEF migrationVars, dbVars, Def, InTransaction
    <3>2. TransactionInv'
      BY <2>2, <2>5 DEF TransactionInv, Row, Untouched, InTransaction, Def, migrationVars, dbVars
    <3>3. IndexInv' /\ AlarmInv'
      BY <2>2, <2>5, <3>1 DEF IndexInv, Watched, AlarmInv, NoTrace, NoBlame, migrationVars, dbVars
    <3>4. DoneInv'
      BY <2>2, <2>5 DEF DoneInv, LogTrue, InOrder, Done, Effective, Def, migrationVars, dbVars
    <3>5. QED
      BY <2>3, <3>2, <3>3, <3>4 DEF MigrationInv
  <2>6. QED
    BY <2>1, <2>4, <2>5 DEF MigrationNext, StepOf
<1>3. QED
  BY <1>1, <1>2, PTL DEF MigrationSpec

(***************************************************************************)
(* No transaction of a migration is committed twice, for any number of     *)
(* runners, migrations and failures: a runner applies it (Up) only if the  *)
(* log did not know it when the runner took the lock, and the lock is kept *)
(* until the log says what became of it.                                   *)
(***************************************************************************)
THEOREM MigratesOnce == MigrationSpec => []AppliedOnce
<1>1. MigrationInv => AppliedOnce
  <2>1. SUFFICES ASSUME MigrationInv
                 PROVE  AppliedOnce
    OBVIOUS
  <2>2. Types /\ ControlInv /\ TransactionInv
    BY <2>1 DEF MigrationInv
  <2>3. MigrationTypeOK
    BY <2>2 DEF MigrationTypeOK, Types, ControlInv, Control, Working
  <2>4. ASSUME NEW d \in Migrations \ Indexes
        PROVE  applied[d] <= 1
    <3>1. log[d].state \in {"none", "pending", "ok", "failed", "reverted"}
      BY <2>2 DEF Types, LogRow
    <3>2. Row(d)
      BY <2>2 DEF TransactionInv
    <3>3. QED
      BY <3>1, <3>2 DEF Row
  <2>5. QED
    BY <2>3, <2>4 DEF AppliedOnce
<1>2. QED
  BY <1>1, MigrationInvariant, PTL

(***************************************************************************)
(* A transaction is committed only after everything before it in the graph *)
(* has taken effect, although createIndexConcurrently gives up the lock.   *)
(***************************************************************************)
THEOREM MigratesInOrder == MigrationSpec => []InOrder
<1>1. MigrationInv => InOrder
  BY DEF MigrationInv, DoneInv
<1>2. QED
  BY <1>1, MigrationInvariant, PTL

(***************************************************************************)
(* What migration_logs calls applied has taken effect: Validate lets a     *)
(* service start on a schema that is there.                                *)
(***************************************************************************)
THEOREM LogBelieved == MigrationSpec => []LogTrue
<1>1. MigrationInv => LogTrue
  BY DEF MigrationInv, DoneInv
<1>2. QED
  BY <1>1, MigrationInvariant, PTL

(***************************************************************************)
(* As long as nothing fails, validateSchemaState calls no transaction      *)
(* failed or abandoned, whoever else is at work.                           *)
(***************************************************************************)
THEOREM AlarmsJustified == MigrationSpec => []NoFalseAlarm
<1>1. MigrationInv => NoFalseAlarm
  BY DEF MigrationInv, AlarmInv, NoBlame, NoFalseAlarm
<1>2. QED
  BY <1>1, MigrationInvariant, PTL
=============================================================================
