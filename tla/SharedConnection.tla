-------------------------- MODULE SharedConnection --------------------------
(***************************************************************************)
(* Writes of several coroutines over the one SQLite connection of          *)
(* db/session.py: _execute, the deletions of the audit log, which do not   *)
(* go through it, and import_all.                                          *)
(*                                                                         *)
(* aiosqlite gives the connection a thread of its own.  A coroutine puts a *)
(* job into the queue of the thread and is resumed with its answer; the    *)
(* thread goes on with the next job meanwhile.  Jobs are done and answers  *)
(* are delivered in order.  A transaction belongs to the connection, not   *)
(* to a coroutine: whoever commits or rolls back does so for everyone.     *)
(***************************************************************************)
EXTENDS Naturals, Sequences

CONSTANTS
  Writers,     \* calls of _execute
  Deletions,   \* calls of delete_audit_entry and clear_audit_entries
  Import,      \* the call of import_all
  ImportRows   \* number of rows it imports

ASSUME ConnectionAssumption ==
  /\ ImportRows \in Nat
  /\ Writers \cap Deletions = {} /\ Import \notin Writers \cup Deletions
  /\ (Writers \cup Deletions) \cap (1..ImportRows) = {}

VARIABLES
  at,             \* of each call: where it is
  importRow,      \* the row the import is at
  jobs,           \* the queue of the thread
  answers,        \* results not yet delivered to their coroutines
  inTransaction,  \* a transaction is open on the connection
  unsaved,        \* changes of the open transaction
  file,           \* changes in the database file
  disturbed       \* history: calls that overlapped with a failure of another

connectionVars == <<at, importRow, jobs, answers, inTransaction, unsaved, file, disturbed>>
transaction == <<inTransaction, unsaved, file>>

Tasks == Writers \cup Deletions \cup {Import}
Rows == Writers \cup Deletions \cup (1..ImportRows)
RowOf(t) == IF t = Import THEN importRow ELSE t

Jobs == [task : Tasks, does : {"begin", "write", "commit", "rollback"}]
Answers == [task : Tasks, ok : BOOLEAN]

UnderWay == {t \in Tasks : at[t] \notin {"idle", "returned", "raised"}}

\* Each call has at most one job or one answer in the two queues.
TasksOf(queue) == {queue[i].task : i \in DOMAIN queue}
Distinct(queue) == \A i, j \in DOMAIN queue : queue[i].task = queue[j].task => i = j

ConnectionTypeOK ==
  /\ at \in [Tasks -> {"idle", "beginning", "executing", "committing",
                       "rollingback", "finishing", "undoing", "returned", "raised"}]
  /\ importRow \in 0..ImportRows
  /\ jobs \in Seq(Jobs) /\ answers \in Seq(Answers)
  /\ Distinct(jobs) /\ Distinct(answers) /\ TasksOf(jobs) \cap TasksOf(answers) = {}
  /\ UnderWay = TasksOf(jobs) \cup TasksOf(answers)
  /\ inTransaction \in BOOLEAN
  /\ unsaved \subseteq Rows /\ file \subseteq Rows
  /\ unsaved # {} => inTransaction
  /\ disturbed \subseteq Tasks

ConnectionInit ==
  /\ at = [t \in Tasks |-> "idle"]
  /\ importRow = 0
  /\ jobs = <<>> /\ answers = <<>>
  /\ inTransaction = FALSE /\ unsaved = {} /\ file = {}
  /\ disturbed = {}

-----------------------------------------------------------------------------
(* The coroutines *)

Submit(t, does) == jobs' = Append(jobs, [task |-> t, does |-> does])
MovesTo(t, place) == at' = [at EXCEPT ![t] = place]

\* From the failure of a statement until the rollback of the one who made it.
FailingIn(places, results) ==
  \/ \E t \in Tasks : places[t] \in {"rollingback", "undoing"}
  \/ \E i \in DOMAIN results : ~results[i].ok /\ places[results[i].task] # "beginning"

Overlapping ==
  LET busy == {t \in Tasks : at'[t] \notin {"idle", "returned", "raised"}} IN
    disturbed' = disturbed \cup
      (IF FailingIn(at', answers') /\ \E t, u \in busy : t # u THEN busy ELSE {})

Call(t) ==
  /\ at[t] = "idle"
  /\ IF t = Import THEN MovesTo(t, "beginning") /\ Submit(t, "begin")
                   ELSE MovesTo(t, "executing") /\ Submit(t, "write")
  /\ UNCHANGED <<importRow, answers, transaction>>
  /\ Overlapping

NextJob(t, place, does) == MovesTo(t, place) /\ Submit(t, does) /\ UNCHANGED importRow
Leave(t, outcome) == MovesTo(t, outcome) /\ UNCHANGED <<importRow, jobs>>

\* The import goes on with its next row, also after a row that failed, and commits
\* after the last one.
ImportGoesOn ==
  IF importRow < ImportRows
  THEN importRow' = importRow + 1 /\ MovesTo(Import, "executing") /\ Submit(Import, "write")
  ELSE NextJob(Import, "finishing", "commit")

\* The end of a call of _execute.
CallEnds(t, outcome) == IF t = Import THEN ImportGoesOn ELSE Leave(t, outcome)

\* Broken: a failed statement or commit is not rolled back.
RecoversLeaving(t) == CallEnds(t, "raised")

\* The deletions of the audit log catch nothing.
DeletionFails(t) == Leave(t, "raised")

\* The except of _execute.
Recovers(t) ==
  IF t \in Deletions THEN DeletionFails(t) ELSE NextJob(t, "rollingback", "rollback")

\* The coroutine is resumed with the answer to its last job.
Resume ==
  /\ answers # <<>> /\ answers' = Tail(answers)
  /\ LET t == Head(answers).task  ok == Head(answers).ok IN
       \/ at[t] = "beginning" /\ ok /\ CallEnds(t, "returned")
       \/ at[t] = "beginning" /\ ~ok /\ Leave(t, "raised")
       \/ at[t] = "executing" /\ ok /\ NextJob(t, "committing", "commit")
       \/ at[t] \in {"executing", "committing"} /\ ~ok /\ Recovers(t)
       \/ at[t] = "committing" /\ ok /\ CallEnds(t, "returned")
       \/ at[t] = "rollingback" /\ CallEnds(t, "raised")
       \/ at[t] = "finishing" /\ ok /\ Leave(t, "returned")
       \/ at[t] = "finishing" /\ ~ok /\ NextJob(t, "undoing", "rollback")
       \/ at[t] = "undoing" /\ Leave(t, "raised")
  /\ UNCHANGED transaction
  /\ Overlapping

-----------------------------------------------------------------------------
(* The thread of the connection *)

Does(job) == jobs # <<>> /\ Head(jobs).does = job

Answer(ok) ==
  /\ jobs' = Tail(jobs)
  /\ answers' = Append(answers, [task |-> Head(jobs).task, ok |-> ok])
  /\ UNCHANGED <<at, importRow>>
  /\ Overlapping

\* BEGIN fails within a transaction.
BeginTransaction ==
  /\ Does("begin") /\ Answer(~inTransaction)
  /\ inTransaction' = TRUE
  /\ UNCHANGED <<unsaved, file>>

\* A statement opens a transaction if there is none, and may fail after that.
Write ==
  /\ Does("write")
  /\ \/ /\ Answer(TRUE) /\ inTransaction' = TRUE
        /\ unsaved' = unsaved \cup {RowOf(Head(jobs).task)}
     \/ Answer(FALSE) /\ inTransaction' \in {inTransaction, TRUE} /\ UNCHANGED unsaved
  /\ UNCHANGED file

\* Without a transaction there is nothing to commit, and nothing that fails. A
\* commit that fails leaves the transaction open, or the database has ended it.
Commit ==
  /\ Does("commit")
  /\ \/ /\ Answer(TRUE)
        /\ file' = file \cup unsaved /\ unsaved' = {} /\ inTransaction' = FALSE
     \/ inTransaction /\ Answer(FALSE) /\ UNCHANGED transaction
     \/ /\ inTransaction /\ Answer(FALSE)
        /\ unsaved' = {} /\ inTransaction' = FALSE /\ UNCHANGED file

Rollback ==
  /\ Does("rollback") /\ Answer(TRUE)
  /\ unsaved' = {} /\ inTransaction' = FALSE
  /\ UNCHANGED file

-----------------------------------------------------------------------------

ConnectionNext ==
  \/ \E t \in Tasks : Call(t)
  \/ Resume \/ BeginTransaction \/ Write \/ Commit \/ Rollback

ConnectionSpec == ConnectionInit /\ [][ConnectionNext]_connectionVars

\* What _execute answers of a write that no failure of a statement overlapped is
\* true: one that it has returned is in the file, one that it has refused is not
\* and is not about to be, whatever other calls were writing over the same
\* connection. Nothing is claimed of the writes in `disturbed`: a rollback takes
\* back what others wrote, and their commit what another was refused.
AnswersAreTrue ==
  \A w \in Writers \ disturbed :
    /\ at[w] = "returned" => w \in file
    /\ at[w] = "raised" => w \notin file \cup unsaved
=============================================================================
