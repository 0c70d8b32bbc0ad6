--------------------------- MODULE BackgroundJobs ---------------------------
(***************************************************************************)
(* The background jobs of the web process (src/app/main.py): a request     *)
(* handler inserts a SyncJobLog row and hands a function to FastAPI's      *)
(* BackgroundTasks; the function runs in a thread of the same process,     *)
(* runs two or three collection services over one SQLModel session, each   *)
(* of which commits, and between them reports to the log row through a     *)
(* session of its own.  Nothing survives the process but the database.     *)
(*                                                                         *)
(* The database is SQLite: SELECTs take no transaction, the first flushed  *)
(* change takes the only write lock, held until commit or rollback, and a  *)
(* writer that waits for it longer than the driver's timeout gets          *)
(* "database is locked" as an exception.                                   *)
(***************************************************************************)
EXTENDS Naturals

CONSTANTS
    Tasks,       \* one per accepted request: a run of a background function
    MaxId,       \* bound: sync_job_logs ids that may be handed out
    MaxCrashes,  \* bound: stops of the web process
    NoRow        \* no row of sync_job_logs has that id

ASSUME MaxIdAssumption == MaxId \in Nat \ {0}
ASSUME MaxCrashesAssumption == MaxCrashes \in Nat
ASSUME TasksAssumption == "free" \notin Tasks /\ "other" \notin Tasks

VARIABLES
    backend,  \* settings.bid_data_backend, read by the resync job only
    rows,     \* sync_job_logs: id -> row, or NoRow
    lock,     \* the SQLite write lock: "free", a task, or "other": a request
              \* or a command-line batch of another process
    crashes,  \* stops of the process so far
    pc,       \* where each task is
    kind,     \* the background function it runs
    jobId,    \* the job_id argument it was given (0: not queued yet)
    done,     \* services that have returned to it, so have committed: what
              \* detail_finished_at, contract_finished_at record
    items     \* services that returned with fetched_item_count > 0

vars == <<backend, rows, lock, crashes, pc, kind, jobId, done, items>>

-----------------------------------------------------------------------------

Ids       == 1 .. MaxId
Kinds     == {"bid_resync", "favorite_bid_initial_refresh"}
StepOrder == <<"detail_enrichment", "contract_process", "crawl">>
StepNames == {"detail_enrichment", "contract_process", "crawl"}
Position  == [s \in StepNames |-> CASE s = "detail_enrichment" -> 1
                                    [] s = "contract_process"  -> 2
                                    [] s = "crawl"             -> 3]

\* The favorite refresh has the first two steps only.
NumSteps(k) == IF k = "bid_resync" THEN 3 ELSE 2

Statuses     == {"queued", "running", "completed", "failed"}
StepStatuses == {"absent", "queued", "running", "completed", "failed"}

Row == [owner      : Tasks,       \* the task whose request inserted it
        kind       : Kinds,
        status     : Statuses,
        steps      : [StepNames -> StepStatuses],   \* metadata_json "steps"
        failedStep : StepNames \cup {"none"}]       \* and "failed_step"

ASSUME NoRowAssumption == NoRow \notin Row

PCs == {"idle",       \* no request yet
        "scheduled",  \* BackgroundTasks.add_task done, function not begun
        "sample",     \* begun under the sample backend
        "fetch",      \* in a service, calling the remote API or the browser
        "store",      \* in a service, flushing its first change
        "hold",       \* in a service, holding the write lock
        "mark",       \* between two services, reporting progress
        "finish",     \* all services returned, reporting completion
        "report",     \* in the except clause, reporting failure
        "ended",      \* returned
        "died",       \* an exception escaped it
        "lost"}       \* its process stopped

Live(t)     == pc[t] \notin {"idle", "ended", "died", "lost"}
StepNow(t)  == StepOrder[done[t] + 1]

Init ==
    /\ backend \in {"sample", "sqlmodel"}
    /\ rows    = [i \in Ids |-> NoRow]
    /\ lock    = "free"
    /\ crashes = 0
    /\ pc      = [t \in Tasks |-> "idle"]
    /\ kind    = [t \in Tasks |-> "bid_resync"]
    /\ jobId   = [t \in Tasks |-> 0]
    /\ done    = [t \in Tasks |-> 0]
    /\ items   = [t \in Tasks |-> {}]

-----------------------------------------------------------------------------
(* Writing the log.                                                        *)

\* _resync_metadata, _favorite_initial_refresh_metadata: the steps list.
Metadata(detail, contract, crawl) ==
    [s \in StepNames |-> CASE s = "detail_enrichment" -> detail
                           [] s = "contract_process"  -> contract
                           [] s = "crawl"             -> crawl]

\* SQLite gives a new row the largest id in use plus one.
NextId(i) ==
    /\ \A n \in Ids : rows[n] # NoRow => n < i
    /\ i > 1 => rows[i - 1] # NoRow

\* _update_sync_log in its own session and transaction; the row's status and
\* metadata are replaced, a row that is gone is left alone.
UpdateLog(t, status, steps, failed) ==
    LET i == jobId[t] IN
    IF rows[i] = NoRow
    THEN UNCHANGED <<rows, lock>>
    ELSE /\ lock = "free"
         /\ rows' = [rows EXCEPT ![i] =
                       [@ EXCEPT !.status = status, !.steps = steps,
                                 !.failedStep = failed]]
         /\ UNCHANGED lock

Goto(t, where) == pc' = [pc EXCEPT ![t] = where]

-----------------------------------------------------------------------------
(* The request.                                                            *)

QueuedSteps(k) ==
    IF k = "bid_resync" THEN Metadata("queued", "absent", "queued")
                        ELSE Metadata("queued", "queued", "absent")

\* queue_bid_resync_job, queue_favorite_initial_refresh_job: insert the row,
\* commit, then add_task.  When the lock is held too long the request fails
\* and leaves nothing behind.
Queue(t, k) ==
    /\ pc[t] = "idle"
    /\ lock = "free"
    /\ \E i \in Ids :
         /\ NextId(i)
         /\ rows' = [rows EXCEPT ![i] =
                       [owner |-> t, kind |-> k, status |-> "queued",
                        steps |-> QueuedSteps(k), failedStep |-> "none"]]
         /\ jobId' = [jobId EXCEPT ![t] = i]
    /\ kind' = [kind EXCEPT ![t] = k]
    /\ Goto(t, "scheduled")
    /\ UNCHANGED <<backend, lock, crashes, done, items>>

-----------------------------------------------------------------------------
(* The background function.                                                *)

StartedSteps(k) ==
    Metadata("running", "queued", IF k = "bid_resync" THEN "queued"
                                                      ELSE "absent")

Begin(t) ==
    /\ pc[t] = "scheduled"
    /\ UpdateLog(t, "running", StartedSteps(kind[t]), "none")
    /\ Goto(t, IF kind[t] = "bid_resync" /\ backend = "sample"
               THEN "sample" ELSE "fetch")
    /\ UNCHANGED <<backend, crashes, kind, jobId, done, items>>

\* The sample backend has nothing to collect.
SampleComplete(t) ==
    /\ pc[t] = "sample"
    /\ UpdateLog(t, "completed",
                 Metadata("completed", "completed", "completed"), "none")
    /\ Goto(t, "ended")
    /\ UNCHANGED <<backend, crashes, kind, jobId, done, items>>

\* A service has what it needs to write its first change.
Fetched(t) ==
    /\ pc[t] = "fetch"
    /\ Goto(t, "store")
    /\ UNCHANGED <<backend, rows, lock, crashes, kind, jobId, done, items>>

\* The first flush takes the write lock; the detail service goes on calling
\* the remote API with the lock held.
TakeLock(t) ==
    /\ pc[t] = "store"
    /\ lock = "free"
    /\ lock' = t
    /\ Goto(t, "hold")
    /\ UNCHANGED <<backend, rows, crashes, kind, jobId, done, items>>

\* A wrong Return: the step counter is not advanced.
ReturnsToSameStep(t, got) ==
    /\ items' = [items EXCEPT ![t] = @ \cup got]
    /\ Goto(t, IF done[t] + 1 = NumSteps(kind[t]) THEN "finish" ELSE "mark")
    /\ UNCHANGED done

\* A service returns: its item count reaches the function's local variable.
Return(t, got) ==
    /\ done'  = [done EXCEPT ![t] = @ + 1]
    /\ items' = [items EXCEPT ![t] = @ \cup got]
    /\ Goto(t, IF done[t] + 1 = NumSteps(kind[t]) THEN "finish" ELSE "mark")

\* A wrong Counted: the number of attachments is kept like an item count.
CountsAttachments(s) == {{}, {s}}

\* What a committing service may have counted: the detail service commits
\* last_synced_at even without items, the contract service only writes when
\* it found some, the crawl counts attachments, which nobody looks at.
Counted(s) ==
    CASE s = "detail_enrichment" -> {{}, {"detail_enrichment"}}
      [] s = "contract_process"  -> {{"contract_process"}}
      [] s = "crawl"             -> {{}}

Commit(t) ==
    /\ pc[t] = "hold"
    /\ lock' = "free"
    /\ \E got \in Counted(StepNow(t)) : Return(t, got)
    /\ UNCHANGED <<backend, rows, crashes, kind, jobId>>

\* The bid is not in the table (the auto backend falls back to sample bids), no
\* contract process was found, or there is no detail_url to crawl: the service
\* commits an empty transaction.
NothingToStore(t) ==
    /\ pc[t] = "fetch"
    /\ Return(t, {})
    /\ UNCHANGED <<backend, rows, lock, crashes, kind, jobId>>

\* A wrong ProgressSteps: the step that begins is reported as completed.
ClaimsStepThatBegins(t) ==
    IF kind[t] = "bid_resync" THEN Metadata("completed", "completed", "running")
                              ELSE Metadata("completed", "completed", "absent")

ProgressSteps(t) ==
    IF kind[t] = "bid_resync"
    THEN IF done[t] = 1 THEN Metadata("completed", "running", "running")
                        ELSE Metadata("completed", "completed", "running")
    ELSE Metadata("completed", "running", "absent")

Mark(t) ==
    /\ pc[t] = "mark"
    /\ UpdateLog(t, "running", ProgressSteps(t), "none")
    /\ Goto(t, "fetch")
    /\ UNCHANGED <<backend, crashes, kind, jobId, done, items>>

Finish(t) ==
    /\ pc[t] = "finish"
    /\ UpdateLog(t, "completed",
                 Metadata("completed", "completed",
                          IF kind[t] = "bid_resync" THEN "completed"
                                                    ELSE "absent"), "none")
    /\ Goto(t, "ended")
    /\ UNCHANGED <<backend, crashes, kind, jobId, done, items>>

-----------------------------------------------------------------------------
(* Exceptions.                                                             *)

\* A wrong Rollback: the failure is handled inside the "with Session" block.
RollbackForgotten(t) == lock

\* Leaving "with Session" rolls back what the session has not committed.
Rollback(t) == IF lock = t THEN "free" ELSE lock

\* A wrong Raise: the exception is swallowed and the job goes on to finish.
Swallow(t) ==
    /\ lock' = Rollback(t)
    /\ Goto(t, "finish")
    /\ UNCHANGED <<backend, rows, crashes, kind, jobId, done, items>>

Raise(t) ==
    /\ lock' = Rollback(t)
    /\ Goto(t, "report")
    /\ UNCHANGED <<backend, rows, crashes, kind, jobId, done, items>>

\* The remote call fails after its retries, the browser does, or the flush
\* breaks a constraint.
ServiceFails(t) == pc[t] \in {"fetch", "hold"} /\ Raise(t)

\* "database is locked", inside the try statement.
WaitFails(t) ==
    /\ pc[t] \in {"store", "mark", "finish"}
    /\ lock # "free"
    /\ Raise(t)

\* A wrong FailedStep: blames the step after the one whose items were counted,
\* without asking whether a later one returned none.
BlamesNext(t) ==
    IF items[t] = {} THEN "contract_process" ELSE "crawl"

\* A wrong FailedStep: the favorite refresh guesses from counts as well.
GuessesFromCounts(t) ==
    IF "contract_process" \in items[t] THEN "crawl"
    ELSE IF "detail_enrichment" \in items[t] THEN "contract_process"
    ELSE "detail_enrichment"

\* The resync job infers the step from the item counts, the favorite refresh
\* from detail_finished_at.
FailedStep(t) ==
    IF kind[t] = "bid_resync"
    THEN IF "contract_process" \in items[t] THEN "crawl"
         ELSE IF "detail_enrichment" \in items[t] THEN "contract_process"
         ELSE "detail_enrichment"
    ELSE IF done[t] = 0 THEN "detail_enrichment" ELSE "contract_process"

\* Steps before the failed one are reported completed, later ones queued.
FailureSteps(t) ==
    [s \in StepNames |->
        IF Position[s] > NumSteps(kind[t]) THEN "absent"
        ELSE IF s = FailedStep(t) THEN "failed"
        ELSE IF Position[s] < Position[FailedStep(t)] THEN "completed"
        ELSE "queued"]

ReportFailure(t) ==
    /\ pc[t] = "report"
    /\ UpdateLog(t, "failed", FailureSteps(t), FailedStep(t))
    /\ Goto(t, "ended")
    /\ UNCHANGED <<backend, crashes, kind, jobId, done, items>>

\* "database is locked" before the try statement or in its except clause:
\* nobody catches it, and the row stays as it is.
Escapes(t) ==
    /\ pc[t] \in {"scheduled", "sample", "report"}
    /\ lock # "free"
    /\ Goto(t, "died")
    /\ UNCHANGED <<backend, rows, lock, crashes, kind, jobId, done, items>>

-----------------------------------------------------------------------------
(* The rest of the world.                                                  *)

\* The process stops: no thread survives, no open transaction does, and at
\* the next start nobody looks for queued or running rows.
Crash ==
    /\ crashes < MaxCrashes
    /\ \E t \in Tasks : Live(t)
    /\ crashes' = crashes + 1
    /\ pc' = [t \in Tasks |-> IF Live(t) THEN "lost" ELSE pc[t]]
    /\ lock' = IF lock \in Tasks THEN "free" ELSE lock
    /\ UNCHANGED <<backend, rows, kind, jobId, done, items>>

OtherTakes ==
    /\ lock = "free"
    /\ lock' = "other"
    /\ UNCHANGED <<backend, rows, crashes, pc, kind, jobId, done, items>>

OtherReleases ==
    /\ lock = "other"
    /\ lock' = "free"
    /\ UNCHANGED <<backend, rows, crashes, pc, kind, jobId, done, items>>

\* A wrong Expired: the started_at condition is left out.
ExpiredAtAnyAge(i, cut) == TRUE

\* cleanup_job_logs deletes what started before the cutoff.  Ids grow with
\* started_at, so the cutoff is an id here.
Expired(i, cut) == i < cut

\* No job runs for as long as the retention: at least a day, as long as
\* nobody passes a negative --days.
RetentionOutlivesJobs(cut) == \A t \in Tasks : Live(t) => jobId[t] >= cut

\* Deleted ids come back: the next row gets the largest id left plus one.
Cleanup(cut, only) ==
    /\ lock = "free"
    /\ RetentionOutlivesJobs(cut)
    /\ rows' = [i \in Ids |->
                  IF rows[i] # NoRow /\ Expired(i, cut)
                     /\ rows[i].status \in only
                  THEN NoRow ELSE rows[i]]
    /\ UNCHANGED <<backend, lock, crashes, pc, kind, jobId, done, items>>

-----------------------------------------------------------------------------

TaskStep(t) ==
    \/ Begin(t) \/ SampleComplete(t)
    \/ Fetched(t) \/ TakeLock(t) \/ Commit(t) \/ NothingToStore(t)
    \/ Mark(t) \/ Finish(t)
    \/ ServiceFails(t) \/ WaitFails(t) \/ ReportFailure(t) \/ Escapes(t)

\* --status restricts the cleanup to one status.
StatusFilters == {Statuses} \cup {{s} : s \in Statuses}

Next ==
    \/ \E t \in Tasks : \/ \E k \in Kinds : Queue(t, k)
                         \/ TaskStep(t)
    \/ Crash
    \/ OtherTakes \/ OtherReleases
    \/ \E cut \in 1 .. MaxId + 1, only \in StatusFilters : Cleanup(cut, only)

Spec == Init /\ [][Next]_vars

\* Threads of the pool run, remote calls and lock waits time out, and other
\* writers commit; nobody owes the system a request or a cleanup.
FairSpec ==
    /\ Spec
    /\ \A t \in Tasks : WF_vars(TaskStep(t))
    /\ WF_vars(OtherReleases)

-----------------------------------------------------------------------------
(* Properties.                                                             *)

\* Every variable has its type.
TypeOK ==
    /\ backend \in {"sample", "sqlmodel"}
    /\ rows \in [Ids -> Row \cup {NoRow}]
    /\ lock \in Tasks \cup {"free", "other"}
    /\ crashes \in 0 .. MaxCrashes
    /\ pc \in [Tasks -> PCs]
    /\ kind \in [Tasks -> Kinds]
    /\ jobId \in [Tasks -> Ids \cup {0}]
    /\ done \in [Tasks -> 0 .. 3]
    /\ items \in [Tasks -> SUBSET {"detail_enrichment", "contract_process"}]

\* A log row never calls a step completed whose results the database does not
\* hold: whatever interrupts the job and whoever reports for it.
ClaimsAreCommitted ==
    \A i \in Ids, s \in StepNames :
        /\ rows[i] # NoRow
        /\ rows[i].steps[s] = "completed"
        /\ rows[i].kind = "bid_resync" => backend # "sample"
        => done[rows[i].owner] >= Position[s]

\* failed_step never names a step beyond the first one that has not committed:
\* guessing it from item counts can only err towards an earlier step.
FailedStepNeverOverclaims ==
    \A i \in Ids :
        rows[i] # NoRow /\ rows[i].status = "failed"
        => Position[rows[i].failedStep] <= done[rows[i].owner] + 1

\* The step that did not commit, or the last one when only the completion
\* report failed.
FirstUncommitted(t) ==
    StepOrder[IF done[t] = NumSteps(kind[t]) THEN done[t] ELSE done[t] + 1]

\* The favorite refresh names exactly the step that did not commit.
FavoriteFailedStepIsExact ==
    \A i \in Ids :
        /\ rows[i] # NoRow
        /\ rows[i].status = "failed"
        /\ rows[i].kind = "favorite_bid_initial_refresh"
        => rows[i].failedStep = FirstUncommitted(rows[i].owner)

\* The resync job does too: phase-3-checklist.md lets an operator read the
\* failed step off the log, and a test expects "crawl" when the crawl raises.
ResyncFailedStepIsExact ==
    \A i \in Ids :
        /\ rows[i] # NoRow
        /\ rows[i].status = "failed"
        /\ rows[i].kind = "bid_resync"
        => rows[i].failedStep = FirstUncommitted(rows[i].owner)

\* The write lock is with a task only while one of its services writes: a task
\* that reports to its log row never waits for itself, and a task that is
\* gone, however it went, holds nothing.
LockOnlyInService == \A t \in Tasks : lock = t => pc[t] = "hold"

\* While a task runs, the row it reports to is the one its request inserted,
\* and no other live task reports there, although ids are reused.
OwnRow ==
    \A t \in Tasks :
        Live(t) => /\ rows[jobId[t]] # NoRow
                   /\ rows[jobId[t]].owner = t
                   /\ \A u \in Tasks \ {t} : Live(u) => jobId[u] # jobId[t]

\* Every task that was scheduled returns, dies of an exception or is lost with
\* its process; none waits for ever, for the lock or for another task.
EveryTaskSettles ==
    \A t \in Tasks : pc[t] = "scheduled" ~> ~Live(t)

\* What GET /api/v1/jobs shows the caller whose request started t.
ReportOf(t) ==
    IF pc[t] = "idle" THEN "absent"
    ELSE IF rows[jobId[t]] # NoRow /\ rows[jobId[t]].owner = t
         THEN rows[jobId[t]].status
         ELSE "forgotten"

NeedOf(t) ==
    IF pc[t] = "idle" \/ (kind[t] = "bid_resync" /\ backend = "sample")
    THEN 0 ELSE NumSteps(kind[t])

\* The jobs implement what the job API promises its callers.
Lifecycle == INSTANCE JobLifecycle WITH
    Jobs   <- Tasks,
    report <- [t \in Tasks |-> ReportOf(t)],
    alive  <- [t \in Tasks |-> Live(t)],
    need   <- [t \in Tasks |-> NeedOf(t)],
    stored <- done

\* A job's report moves only along queued, running, completed or failed; it is
\* completed only with every step stored, steps are stored only while it is
\* running, and only retention makes a report disappear.
ImplementsLifecycle == Lifecycle!Spec

=============================================================================
