---------------------------- MODULE JobLifecycle ----------------------------
(***************************************************************************)
(* What GET /api/v1/jobs/{job_id} promises the caller who queued a         *)
(* background job, stated without threads, sessions or the database lock.  *)
(* A job is accepted, starts, stores the results of its steps one after    *)
(* another and settles once, as completed or failed.  Its worker may also  *)
(* be abandoned (the process stops, or the log cannot be written): the     *)
(* report then stays where it was.  Retention may forget a report only     *)
(* when no worker is behind it any more.                                   *)
(***************************************************************************)
EXTENDS Naturals

CONSTANT Jobs

VARIABLES
    report,   \* report[j]: the status the API shows for j
    alive,    \* alive[j]: a worker is behind j
    need,     \* need[j]: number of steps j must store to be completed
    stored    \* stored[j]: number of steps of j whose results are stored

vars == <<report, alive, need, stored>>

Reports == {"absent", "queued", "running", "completed", "failed", "forgotten"}
Settled == {"completed", "failed"}

Init ==
    /\ report = [j \in Jobs |-> "absent"]
    /\ alive  = [j \in Jobs |-> FALSE]
    /\ need   = [j \in Jobs |-> 0]
    /\ stored = [j \in Jobs |-> 0]

Accept(j) ==
    /\ report[j] = "absent"
    /\ report' = [report EXCEPT ![j] = "queued"]
    /\ alive'  = [alive EXCEPT ![j] = TRUE]
    /\ \E n \in 0 .. 3 : need' = [need EXCEPT ![j] = n]
    /\ UNCHANGED stored

Start(j) ==
    /\ alive[j]
    /\ report[j] = "queued"
    /\ report' = [report EXCEPT ![j] = "running"]
    /\ UNCHANGED <<alive, need, stored>>

\* Results become durable only while the job is reported as running.
StoreStep(j) ==
    /\ alive[j]
    /\ report[j] = "running"
    /\ stored[j] < need[j]
    /\ stored' = [stored EXCEPT ![j] = @ + 1]
    /\ UNCHANGED <<report, alive, need>>

Complete(j) ==
    /\ alive[j]
    /\ report[j] = "running"
    /\ stored[j] = need[j]
    /\ report' = [report EXCEPT ![j] = "completed"]
    /\ alive'  = [alive EXCEPT ![j] = FALSE]
    /\ UNCHANGED <<need, stored>>

Fail(j) ==
    /\ alive[j]
    /\ report[j] = "running"
    /\ report' = [report EXCEPT ![j] = "failed"]
    /\ alive'  = [alive EXCEPT ![j] = FALSE]
    /\ UNCHANGED <<need, stored>>

\* A stopped process abandons all its jobs at once.
Abandon(S) ==
    /\ S # {}
    /\ \A j \in S : alive[j]
    /\ alive' = [j \in Jobs |-> alive[j] /\ j \notin S]
    /\ UNCHANGED <<report, need, stored>>

Forget(S) ==
    /\ S # {}
    /\ \A j \in S : ~alive[j] /\ report[j] \notin {"absent", "forgotten"}
    /\ report' = [j \in Jobs |-> IF j \in S THEN "forgotten" ELSE report[j]]
    /\ UNCHANGED <<alive, need, stored>>

Next ==
    \/ \E j \in Jobs : \/ Accept(j) \/ Start(j) \/ StoreStep(j)
                       \/ Complete(j) \/ Fail(j)
    \/ \E S \in SUBSET Jobs : Abandon(S) \/ Forget(S)

Spec == Init /\ [][Next]_vars

=============================================================================
