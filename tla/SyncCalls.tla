------------------------------ MODULE SyncCalls ------------------------------
(***************************************************************************)
(* The calls that collect data on somebody's request: the admin API, the   *)
(* command lines, the refresh of the favorites and the manual actions of   *)
(* the drawer.  A call runs services one after another.  A service selects *)
(* its bids, asks the remote API about one after the other, repeating a    *)
(* request that fails for a passing reason, and commits once.  In the end  *)
(* the call writes one row of the job log, alerts the operators when it    *)
(* failed, and answers.  Calls run at the same time and share the write    *)
(* lock of SQLite; users, time and other calls change the bids between     *)
(* their steps.  What a service stores for a bid is in Enrichment, here it *)
(* is only known who stored something for which bid.                       *)
(***************************************************************************)
EXTENDS Integers, Sequences, FiniteSets

CONSTANTS
    Calls,       \* calls, each of which happens once
    Bids,        \* bids that are, or may get, in the database
    WithPage,    \* those with a detail_url
    Requests,    \* what the calls may ask for
    MaxKeys,     \* bound: values a service looks a bid up with
    Other,       \* a writer of the database that is none of the calls
    Nobody       \* nobody holds the lock

Services == {"list", "detail", "change", "contract", "crawl", "reference"}

ASSUME CallAssumption ==
    /\ Nobody \notin Calls \cup {Other} /\ Other \notin Calls
    /\ WithPage \subseteq Bids
ASSUME KeyAssumption  == MaxKeys \in Nat \ {0}

-----------------------------------------------------------------------------
(* Requests: the services to run, the bids given (none means that the      *)
(* services select them), how the detail service selects, and what starts  *)
(* and ends the call.                                                      *)

Request == [steps : Seq(Services), ids : SUBSET Bids,
            mode : {"targeted", "all"}, narrows : BOOLEAN,
            favorites : BOOLEAN, raises : BOOLEAN]

ASSUME RequestAssumption == Requests \subseteq Request

\* No call runs a service twice, no batch the list service.
ASSUME StepAssumption ==
    \A r \in Requests :
        /\ \A i, j \in DOMAIN r.steps : r.steps[i] = r.steps[j] => i = j
        /\ r.narrows => \A i \in DOMAIN r.steps : r.steps[i] # "list"

One(service, ids, mode) ==
    [steps |-> <<service>>, ids |-> ids, mode |-> mode, narrows |-> FALSE,
     favorites |-> FALSE, raises |-> FALSE]

\* The admin API answers with a failed job, a command line raises.
Command(request) == [request EXCEPT !.raises = TRUE]

AdminListSync           == One("list", {}, "targeted")
AdminDetail(ids, mode)  == One("detail", ids, mode)
AdminContract(ids)      == One("contract", ids, "targeted")
AdminCrawl(ids)         == One("crawl", ids, "targeted")

CommandListSync         == Command(One("list", {}, "targeted"))
CommandDetail(ids, mode) == Command(One("detail", ids, mode))
CommandContract(ids)    == Command(One("contract", ids, "targeted"))
CommandChanges(ids)     == Command(One("change", ids, "targeted"))
CommandCrawl(ids)       == Command(One("crawl", ids, "targeted"))

\* Steps of the batch that are not skipped; detail_result decides the bids of
\* the later ones.
BatchSteps(skipped) ==
    SelectSeq(<<"detail", "change", "contract", "crawl", "reference">>,
              LAMBDA s : s \notin skipped)

AdminBatch(ids, mode, skipped) ==
    [steps |-> BatchSteps(skipped), ids |-> ids, mode |-> mode,
     narrows |-> TRUE, favorites |-> FALSE, raises |-> FALSE]

CommandBatch(ids, mode, skipped) == Command(AdminBatch(ids, mode, skipped))

\* _refresh_favorite_bids selects before it opens its session.
RefreshFavorites ==
    [steps |-> <<"detail", "contract">>, ids |-> {}, mode |-> "targeted",
     narrows |-> FALSE, favorites |-> TRUE, raises |-> FALSE]

ManualAction(service, b) == One(service, {b}, "targeted")

\* With the sample backend only the row is written.
Sampled(request) == [request EXCEPT !.steps = <<>>]

-----------------------------------------------------------------------------

VARIABLES
    bids,       \* what a bid is like, or "absent"
    lock,       \* the call that holds the write lock
    pending,    \* what a call has flushed and not committed, by service and bid
    stored,     \* what is committed, by call, service and bid
    rows,       \* the rows of the job log, by call
    readBack,   \* history: the calls that have read their last row back
    notified,   \* the calls whose failure was sent to the webhook
    req, pc,    \* a call's request, and where it is
    step,       \* the service it is at
    passed,     \* processed_bid_ids, what it hands to the next service
    chosen,     \* the bids each service so far has selected
    todo,       \* those the current one has not got to yet
    now,        \* the remote request it is at
    gaveUp      \* whether one of its remote requests failed for good

data == <<bids, stored, rows, readBack, notified>>
vars == <<bids, lock, pending, stored, rows, readBack, notified, req, pc, step,
          passed, chosen, todo, now, gaveUp>>

\* Targeted enrichment wants favorites and bids that are due: new, changed
\* recently, or of a status under review.
BidStates == {"absent", "plain", "due", "favorite"}
Present   == {b \in Bids : bids[b] # "absent"}
Favorites == {b \in Bids : bids[b] = "favorite"}

\* No count: the error was not raised by run_with_retry.
NoCount == -1

Row == [status : {"completed", "failed"}, retries : Nat \cup {NoCount}]

\* A request about a bid with the key-th lookup value, after some errors.
Nothing == [bid |-> Nobody, key |-> 0, tries |-> <<>>]

PCs == {"idle",       \* not begun
        "select",     \* about to begin a service, or to log completion
        "next",       \* about to take the next bid, or to commit
        "fetch",      \* waits for the remote API
        "write",      \* about to flush
        "failed",     \* in the except clause, about to log the failure
        "refresh",    \* row committed, about to read it back
        "notify",     \* about to post to the webhook
        "answered", "raised", "stopped"}

Over(c)    == pc[c] \in {"answered", "raised", "stopped"}
Running(c) == pc[c] # "idle" /\ ~Over(c)
Goto(c, where) == pc' = [pc EXCEPT ![c] = where]

Finished(c) == step[c] > Len(req[c].steps)
Service(c)  == req[c].steps[step[c]]          \* ~Finished(c)

Init ==
    /\ bids \in [Bids -> BidStates]
    /\ lock     = Nobody
    /\ pending  = [c \in Calls |-> {}]
    /\ stored   = {}
    /\ rows     = [c \in Calls |-> <<>>]
    /\ readBack = {}
    /\ notified = {}
    /\ req \in [Calls -> Requests]
    /\ pc       = [c \in Calls |-> "idle"]
    /\ step     = [c \in Calls |-> 1]
    /\ passed   = [c \in Calls |-> {}]
    /\ chosen   = [c \in Calls |-> <<>>]
    /\ todo     = [c \in Calls |-> {}]
    /\ now      = [c \in Calls |-> Nothing]
    /\ gaveUp   = [c \in Calls |-> FALSE]

-----------------------------------------------------------------------------
(* The beginning of a call and of a service.                               *)

\* A refresh without favorites says so and logs nothing.
Begin(c) ==
    LET given == IF req[c].favorites THEN Favorites ELSE req[c].ids IN
    /\ pc[c] = "idle"
    /\ passed' = [passed EXCEPT ![c] = given]
    /\ Goto(c, IF req[c].favorites /\ given = {} THEN "answered" ELSE "select")
    /\ UNCHANGED <<data, lock, pending, req, step, chosen, todo, now, gaveUp>>

\* _load_target_bids and should_run_detail_enrichment.
DetailBids(given, mode) ==
    IF given # {} THEN given \cap Present
    ELSE IF mode = "all" THEN Present
    ELSE {b \in Present : bids[b] \in {"due", "favorite"}}

\* _load_bids of the change history and the contract process.
GivenOrAll(given) == IF given # {} THEN given \cap Present ELSE Present

\* A bid without a detail_url is skipped.
CrawledBids(given) == given \cap Present \cap WithPage

\* Without ids there is nothing to do.
ReferenceBids(given) == given \cap Present

\* The services' selections; the list service upserts what it will be sent.
Selections(service, given, mode) ==
    CASE service = "list"      -> SUBSET Bids
      [] service = "detail"    -> {DetailBids(given, mode)}
      [] service = "change"    -> {GivenOrAll(given)}
      [] service = "contract"  -> {GivenOrAll(given)}
      [] service = "crawl"     -> {CrawledBids(given)}
      [] service = "reference" -> {ReferenceBids(given)}

\* A batch that skips the detail step must be given its bids.
NeedsIds(c) ==
    /\ req[c].narrows /\ step[c] = 1 /\ passed[c] = {}
    /\ \A i \in DOMAIN req[c].steps : req[c].steps[i] # "detail"

Select(c) ==
    /\ pc[c] = "select"
    /\ ~NeedsIds(c)
    /\ ~Finished(c)
    /\ \E selection \in Selections(Service(c), passed[c], req[c].mode) :
          /\ chosen' = [chosen EXCEPT ![c] = Append(@, selection)]
          /\ todo'   = [todo EXCEPT ![c] = selection]
    /\ now' = [now EXCEPT ![c] = Nothing]
    /\ Goto(c, "next")
    /\ UNCHANGED <<data, lock, pending, req, step, passed, gaveUp>>

-----------------------------------------------------------------------------
(* One bid of a service.                                                   *)

NextBid(c) ==
    /\ pc[c] = "next"
    /\ \E b \in todo[c] :
          now' = [now EXCEPT ![c] = [bid |-> b, key |-> 1, tries |-> <<>>]]
    /\ Goto(c, "fetch")
    /\ UNCHANGED <<data, lock, pending, req, step, passed, chosen, todo, gaveUp>>

\* A wrong MaxAttempts: the policy's number taken as one of repetitions.
CountsRepetitions(service) ==
    CASE service \in {"detail", "contract"} -> 4
      [] service = "crawl" -> 3
      [] OTHER -> 1

\* The services' retry policies; the others call the client directly.
MaxAttempts(service) ==
    CASE service \in {"detail", "contract"} -> 3
      [] service = "crawl" -> 2
      [] OTHER -> 1

\* Time-outs, 429 and 5xx, and errors of the browser are passing; other errors,
\* like a refused key, are not.
ShouldRetry(error) == error = "passing"

Errors == {"passing", "lasting"}

\* A wrong RetryCount: it counts attempts.
AttemptCount(service, tries) == Len(tries)

\* retry_count of the error that is raised after the last attempt; errors of
\* the other services are not wrapped, except those of the list service.
RetryCount(service, tries) ==
    IF service \in {"detail", "contract", "crawl", "list"} THEN Len(tries) - 1
    ELSE NoCount

\* A wrong Rollback: the except clause goes on with the session of the try.
KeepsSession(c) == pending[c]

\* Leaving the with statement closes the session, which rolls back.
Rollback(c) == {}

\* An exception ends the try statement.
Raise(c) ==
    /\ pending' = [pending EXCEPT ![c] = Rollback(c)]
    /\ lock' = IF lock = c /\ Rollback(c) = {} THEN Nobody ELSE lock
    /\ Goto(c, "failed")

\* A wrong NextKey: the same value again.
SameKey(c) ==
    /\ now[c].key < MaxKeys
    /\ Service(c) \in {"detail", "contract"}
    /\ now' = [now EXCEPT ![c].tries = <<>>]
    /\ UNCHANGED <<lock, pending, pc, todo, gaveUp>>

\* A further lookup value, as long as there is one.
NextKey(c) ==
    /\ now[c].key < MaxKeys
    /\ Service(c) \in {"detail", "contract"}
    /\ now' = [now EXCEPT ![c].key = @ + 1, ![c].tries = <<>>]
    /\ UNCHANGED <<lock, pending, pc, todo, gaveUp>>

\* No value found anything: the contract service leaves the bid alone, the
\* others replace what they stored for it by nothing.
NothingFound(c) ==
    IF Service(c) \in {"contract", "list"}
    THEN /\ todo' = [todo EXCEPT ![c] = @ \ {now[c].bid}]
         /\ Goto(c, "next")
    ELSE /\ Goto(c, "write")
         /\ UNCHANGED todo

\* A wrong GiveUp: a failure is taken for an empty answer.
Swallow(c) ==
    /\ NothingFound(c)
    /\ UNCHANGED <<lock, pending>>

\* The last attempt's error goes out of the service.
GiveUp(c) ==
    /\ Raise(c)
    /\ UNCHANGED todo

\* run_with_retry: one attempt, and what comes of it.
Attempt(c) ==
    /\ pc[c] = "fetch"
    /\ \/ /\ Goto(c, "write")
          /\ UNCHANGED <<lock, pending, todo, now, gaveUp>>
       \/ NextKey(c)
       \/ /\ NothingFound(c)
          /\ UNCHANGED <<lock, pending, now, gaveUp>>
       \/ \E error \in Errors :
             /\ now' = [now EXCEPT ![c].tries = Append(@, error)]
             /\ IF /\ Len(now'[c].tries) < MaxAttempts(Service(c))
                   /\ ShouldRetry(error)
                THEN UNCHANGED <<lock, pending, pc, todo, gaveUp>>
                ELSE /\ GiveUp(c)
                     /\ gaveUp' = [gaveUp EXCEPT ![c] = TRUE]
    /\ UNCHANGED <<data, req, step, passed, chosen>>

\* The first write takes the lock, which is kept until the commit, over the
\* requests for the other bids.
Write(c) ==
    /\ pc[c] = "write"
    /\ lock \in {c, Nobody}
    /\ lock' = c
    /\ pending' = [pending EXCEPT ![c] = @ \cup {<<Service(c), now[c].bid>>}]
    /\ todo' = [todo EXCEPT ![c] = @ \ {now[c].bid}]
    /\ Goto(c, "next")
    /\ UNCHANGED <<data, req, step, passed, chosen, now, gaveUp>>

\* A wrong Narrowed: the batch goes on with the bids it was asked for.
AsAsked(c) == req[c].ids

\* What the batch hands on: processed_bid_ids of the detail service.
Narrowed(c) == chosen[c][step[c]]

Upserted(c) == {b \in Bids : <<"list", b>> \in pending[c] /\ bids[b] = "absent"}

Committed(c) == stored \cup {<<c, p[1], p[2]>> : p \in pending[c]}

Commit(c) ==
    /\ pc[c] = "next"
    /\ todo[c] = {}
    /\ stored' = Committed(c)
    /\ bids' = [b \in Bids |-> IF b \in Upserted(c) THEN "due" ELSE bids[b]]
    /\ pending' = [pending EXCEPT ![c] = {}]
    /\ lock' = IF lock = c THEN Nobody ELSE lock
    /\ passed' = [passed EXCEPT ![c] =
                    IF req[c].narrows /\ Service(c) = "detail"
                    THEN Narrowed(c) ELSE @]
    /\ step' = [step EXCEPT ![c] = @ + 1]
    /\ Goto(c, "select")
    /\ UNCHANGED <<rows, readBack, notified, req, chosen, todo, now, gaveUp>>

\* "database is locked", or another error of the database or the code, a
\* batch that lacks its bids among them.  An upsert that fails is wrapped like
\* a request of the list service.
StoreFails(c) ==
    /\ pc[c] \in {"select", "next", "write"}
    /\ Raise(c)
    /\ now' = [now EXCEPT ![c] =
                 IF pc[c] = "write" /\ Service(c) = "list"
                 THEN [bid |-> Nobody, key |-> 0, tries |-> <<"lasting">>]
                 ELSE Nothing]
    /\ UNCHANGED <<data, req, step, passed, chosen, todo, gaveUp>>

-----------------------------------------------------------------------------
(* log_sync_job, and the end of the call.                                  *)

FailureRetries(c) ==
    IF now[c].tries = <<>> THEN NoCount
    ELSE RetryCount(Service(c), now[c].tries)

\* The commit of the row is one of everything its session has flushed.
LogRow(c, row) ==
    /\ lock \in {c, Nobody}
    /\ rows' = [rows EXCEPT ![c] = Append(@, row)]
    /\ stored' = Committed(c)
    /\ pending' = [pending EXCEPT ![c] = {}]
    /\ lock' = Nobody
    /\ Goto(c, "refresh")
    /\ UNCHANGED <<bids, readBack, notified, req, step, passed, chosen, todo, now,
                   gaveUp>>

LogCompleted(c) ==
    /\ pc[c] = "select"
    /\ Finished(c)
    /\ ~NeedsIds(c)
    /\ LogRow(c, [status |-> "completed", retries |-> NoCount])

LogFailed(c) ==
    /\ pc[c] = "failed"
    /\ LogRow(c, [status |-> "failed", retries |-> FailureRetries(c)])

LastRow(c) == rows[c][Len(rows[c])]       \* pc[c] \in {"refresh", "notify"}

\* A command line raises the error again after it has logged it.
End(c) == Goto(c, IF LastRow(c).status = "failed" /\ req[c].raises
                  THEN "raised" ELSE "answered")

\* A wrong Alerts: not what a command line is about to raise anyway.
AlertsOfAnswers(c) == LastRow(c).status = "failed" /\ ~req[c].raises

Alerts(c) == LastRow(c).status = "failed"

\* session.refresh; a completed call is then over.
Refresh(c) ==
    /\ pc[c] = "refresh"
    /\ readBack' = readBack \cup {c}
    /\ IF Alerts(c) THEN Goto(c, "notify") ELSE End(c)
    /\ UNCHANGED <<bids, stored, rows, notified, lock, pending, req, step, passed,
                   chosen, todo, now, gaveUp>>

\* A lock, or a cleanup that has deleted the row.  A completed call is then
\* logged a second time, as failed.
RefreshFails(c) ==
    /\ pc[c] = "refresh"
    /\ Goto(c, IF LastRow(c).status = "failed" THEN "raised" ELSE "failed")
    /\ now' = [now EXCEPT ![c] =
                 IF LastRow(c).status = "failed" THEN @ ELSE Nothing]
    /\ UNCHANGED <<data, lock, pending, req, step, passed, chosen, todo, gaveUp>>

\* Whether or not the webhook answers.
Notify(c) ==
    /\ pc[c] = "notify"
    /\ notified' = notified \cup {c}
    /\ End(c)
    /\ UNCHANGED <<bids, stored, rows, readBack, lock, pending, req, step, passed,
                   chosen, todo, now, gaveUp>>

\* The failure cannot be logged: the error goes out of the call.
LogFails(c) ==
    /\ pc[c] = "failed"
    /\ Goto(c, "raised")
    /\ UNCHANGED <<data, lock, pending, req, step, passed, chosen, todo, now,
                   gaveUp>>

\* The process stops; what it had not committed is gone.
Stop(c) ==
    /\ Running(c)
    /\ pending' = [pending EXCEPT ![c] = {}]
    /\ lock' = IF lock = c THEN Nobody ELSE lock
    /\ Goto(c, "stopped")
    /\ UNCHANGED <<data, req, step, passed, chosen, todo, now, gaveUp>>

\* Users favor bids and set statuses when they get the lock; a bid that was due
\* because it was new or had changed gets old.
BidChanges ==
    /\ \E b \in Present : \E state \in BidStates \ {"absent"} :
          /\ lock # Nobody => bids[b] = "due" /\ state = "plain"
          /\ bids' = [bids EXCEPT ![b] = state]
    /\ UNCHANGED <<lock, pending, stored, rows, readBack, notified, req, pc, step,
                   passed, chosen, todo, now, gaveUp>>

\* Jobs, syncs of other processes and the like take the lock, and add bids.
OtherTakes ==
    /\ lock = Nobody
    /\ lock' = Other
    /\ UNCHANGED <<data, pending, req, pc, step, passed, chosen, todo, now,
                   gaveUp>>

OtherCommits ==
    /\ lock = Other
    /\ lock' = Nobody
    /\ \E new \in SUBSET (Bids \ Present) :
          bids' = [b \in Bids |-> IF b \in new THEN "due" ELSE bids[b]]
    /\ UNCHANGED <<pending, stored, rows, readBack, notified, req, pc, step, passed,
                   chosen, todo, now, gaveUp>>

CallStep(c) ==
    \/ Select(c) \/ NextBid(c) \/ Attempt(c) \/ Write(c) \/ Commit(c)
    \/ StoreFails(c) \/ LogCompleted(c) \/ LogFailed(c) \/ LogFails(c)
    \/ Refresh(c) \/ RefreshFails(c) \/ Notify(c)

Next ==
    \/ \E c \in Calls : Begin(c) \/ CallStep(c) \/ Stop(c)
    \/ BidChanges \/ OtherTakes \/ OtherCommits

\* A call that has begun goes on: its thread is scheduled, remote calls and
\* waits for the lock have time-outs.
Fairness == \A c \in Calls : WF_vars(CallStep(c))

Spec     == Init /\ [][Next]_vars
FairSpec == Spec /\ Fairness

-----------------------------------------------------------------------------
(* Properties.                                                             *)

\* Every variable has its type; who has something pending has the lock.
TypeOK ==
    /\ bids \in [Bids -> BidStates]
    /\ lock \in Calls \cup {Other, Nobody}
    /\ pending \in [Calls -> SUBSET (Services \X Bids)]
    /\ \A c \in Calls : pending[c] # {} => lock = c
    /\ stored \subseteq Calls \X Services \X Bids
    /\ readBack \subseteq Calls /\ notified \subseteq Calls
    /\ req \in [Calls -> Requests]
    /\ pc \in [Calls -> PCs]
    /\ \A c \in Calls :
          /\ step[c] \in 1 .. Len(req[c].steps) + 1
          /\ Len(rows[c]) <= 2 /\ \A i \in DOMAIN rows[c] : rows[c][i] \in Row
          /\ chosen[c] \in Seq(SUBSET Bids)
          /\ Len(now[c].tries) <= 3
    /\ passed \in [Calls -> SUBSET Bids]
    /\ todo \in [Calls -> SUBSET Bids]
    /\ gaveUp \in [Calls -> BOOLEAN]

StoredBy(c, service) == {b \in Bids : <<c, service, b>> \in stored}

\* However a call ends, its services have stored all they selected or nothing,
\* and in order: those before the step it got to are complete, the others have
\* left no trace.  The contract service passes over bids without items, the
\* list service over operations without any.
ServicesAreAtomic ==
    \A c \in Calls : \A i \in DOMAIN req[c].steps :
        LET service == req[c].steps[i] IN
        IF i < step[c]
        THEN /\ StoredBy(c, service) \subseteq chosen[c][i]
             /\ service \notin {"contract", "list"} =>
                   StoredBy(c, service) = chosen[c][i]
        ELSE StoredBy(c, service) = {}

\* A row says "completed" only if all services of the call have committed and
\* none of its remote requests was given up.
CompletedIsTrue ==
    \A c \in Calls :
        (\E i \in DOMAIN rows[c] : rows[c][i].status = "completed")
        => Finished(c) /\ ~gaveUp[c]

\* Once the detail service of a batch has selected bids, the later steps keep
\* to them, whatever users and syncs do in between.
LaterStepsKeepSelection ==
    \A c \in Calls :
        (req[c].narrows /\ chosen[c] # <<>> /\ req[c].steps[1] = "detail"
         /\ chosen[c][1] # {})
        => \A i \in DOMAIN chosen[c] : chosen[c][i] \subseteq chosen[c][1]

\* The retry count of a failed row is the number of attempts made after the
\* first; only passing errors were tried again, and one is reported only after
\* the last attempt the policy allows.
RetriesAreHonest ==
    \A c \in Calls : \A i \in DOMAIN rows[c] :
        (rows[c][i].status = "failed" /\ gaveUp[c] /\ now[c].tries # <<>>) =>
            LET tries == now[c].tries
                last  == Len(tries)
            IN
            /\ \A k \in 1 .. last - 1 : tries[k] = "passing"
            /\ tries[last] = "passing" => last = MaxAttempts(Service(c))
            /\ rows[c][i].retries \in {last - 1, NoCount}
            /\ last > 1 => rows[c][i].retries = last - 1

HasFailedRow(c) == \E i \in DOMAIN rows[c] : rows[c][i].status = "failed"

\* Operators are alerted to a failure only when it is in the log, and to every
\* failure that is, whether the call then answers or raises its error again,
\* unless the process stops or the row cannot be read back.  A call that answers
\* has read it back.
FailuresAreAlerted ==
    \A c \in Calls :
        /\ c \in notified => HasFailedRow(c)
        /\ (HasFailedRow(c) /\ pc[c] = "answered") => c \in readBack
        /\ (HasFailedRow(c) /\ c \in readBack /\ pc[c] \in {"answered", "raised"})
           => c \in notified

\* Every call that begins answers, raises or is stopped.
EveryCallEnds == \A c \in Calls : pc[c] = "select" ~> Over(c)

\* A batch without bids given runs for selected ones (phase-2.md): the steps
\* after the detail step keep to its selection, an empty one included.
BatchKeepsSelection ==
    \A c \in Calls :
        (req[c].narrows /\ chosen[c] # <<>> /\ req[c].steps[1] = "detail")
        => \A i \in DOMAIN chosen[c] : chosen[c][i] \subseteq chosen[c][1]

=============================================================================
