------------------------ MODULE BackgroundJobs_proofs ------------------------
(***************************************************************************)
(* Proofs about BackgroundJobs, for any number of tasks, ids and crashes.  *)
(*                                                                         *)
(* The safety invariants are not inductive as they stand: that a row's     *)
(* claims stay true needs to know that nobody but the row's owner reports  *)
(* to it, which needs that a live task's row exists and is its own, that a *)
(* row that has settled belongs to a task that is not live any more, and   *)
(* how far a task has come at each place of its code.                      *)
(***************************************************************************)
EXTENDS BackgroundJobs, TLAPS

-----------------------------------------------------------------------------
(* The inductive invariant.                                                *)

\* How many services have returned at each place, and which may have counted
\* items.
Progress(t) ==
    /\ pc[t] \in {"idle", "scheduled", "sample"} => done[t] = 0
    /\ pc[t] \in {"fetch", "store", "hold"} => done[t] < NumSteps(kind[t])
    /\ pc[t] = "mark" => done[t] > 0 /\ done[t] < NumSteps(kind[t])
    /\ pc[t] = "finish" => done[t] = NumSteps(kind[t])
    /\ pc[t] = "sample" => kind[t] = "bid_resync" /\ backend = "sample"
    /\ pc[t] \in {"fetch", "store", "hold", "mark", "finish"} =>
         ~(kind[t] = "bid_resync" /\ backend = "sample")
    /\ done[t] <= NumSteps(kind[t])
    /\ "detail_enrichment" \in items[t] => done[t] >= 1
    /\ "contract_process" \in items[t] => done[t] >= 2

\* A scheduled task has an id; a live one's row is there and has not settled.
LiveRow(t) ==
    /\ pc[t] # "idle" => jobId[t] \in Ids
    /\ Live(t) => /\ rows[jobId[t]] # NoRow
                  /\ rows[jobId[t]].owner = t
                  /\ rows[jobId[t]].status =
                        (IF pc[t] = "scheduled" THEN "queued" ELSE "running")

\* A row was inserted for a task that remembers its id.
RowOwner(i) ==
    rows[i] # NoRow => /\ pc[rows[i].owner] # "idle"
                       /\ jobId[rows[i].owner] = i
                       /\ kind[rows[i].owner] = rows[i].kind

\* The three invariants about a row's content, for one row.
Claims(i) ==
    \A s \in StepNames :
        /\ rows[i] # NoRow
        /\ rows[i].steps[s] = "completed"
        /\ rows[i].kind = "bid_resync" => backend # "sample"
        => done[rows[i].owner] >= Position[s]

FailedStepBound(i) ==
    rows[i] # NoRow /\ rows[i].status = "failed"
    => Position[rows[i].failedStep] <= done[rows[i].owner] + 1

FavoriteExact(i) ==
    /\ rows[i] # NoRow
    /\ rows[i].status = "failed"
    /\ rows[i].kind = "favorite_bid_initial_refresh"
    => rows[i].failedStep = FirstUncommitted(rows[i].owner)

IInv ==
    /\ TypeOK
    /\ LockOnlyInService
    /\ \A t \in Tasks : Progress(t) /\ LiveRow(t)
    /\ \A i \in Ids : /\ RowOwner(i) /\ Claims(i)
                      /\ FailedStepBound(i) /\ FavoriteExact(i)


-----------------------------------------------------------------------------
(* Facts about the data.                                                   *)

\* The three steps, in the order of every job.
LEMMA StepFacts ==
    /\ Position["detail_enrichment"] = 1
    /\ Position["contract_process"] = 2
    /\ Position["crawl"] = 3
    /\ StepOrder[1] = "detail_enrichment"
    /\ StepOrder[2] = "contract_process"
    /\ StepOrder[3] = "crawl"
    /\ \A k \in Kinds : NumSteps(k) \in {2, 3}
BY DEF Position, StepOrder, StepNames, NumSteps

\* The steps list the code builds is a list of step statuses.
LEMMA MetadataType ==
    ASSUME NEW d \in StepStatuses, NEW c \in StepStatuses,
           NEW w \in StepStatuses
    PROVE  /\ Metadata(d, c, w) \in [StepNames -> StepStatuses]
           /\ Metadata(d, c, w)["detail_enrichment"] = d
           /\ Metadata(d, c, w)["contract_process"] = c
           /\ Metadata(d, c, w)["crawl"] = w
<1>1. \A s \in StepNames : \/ s = "detail_enrichment"
                            \/ s = "contract_process"
                            \/ s = "crawl"
  BY DEF StepNames
<1>2. QED  BY <1>1 DEF Metadata, StepNames

LEMMA InitIInv == Init => IInv
<1> SUFFICES ASSUME Init PROVE IInv  OBVIOUS
<1>1. TypeOK
  BY MaxCrashesAssumption DEF Init, TypeOK, PCs, Kinds
<1>2. LockOnlyInService
  BY TasksAssumption DEF Init, LockOnlyInService
<1>3. ASSUME NEW t \in Tasks PROVE Progress(t) /\ LiveRow(t)
  <2>1. pc[t] = "idle" /\ done[t] = 0 /\ items[t] = {}
        /\ kind[t] = "bid_resync"
    BY DEF Init
  <2>2. Progress(t)
    BY <2>1 DEF Progress, NumSteps
  <2>3. LiveRow(t)
    BY <2>1 DEF LiveRow, Live
  <2>4. QED  BY <2>2, <2>3
<1>4. \A i \in Ids : RowOwner(i) /\ Claims(i) /\ FailedStepBound(i)
                     /\ FavoriteExact(i)
  BY DEF Init, RowOwner, Claims, FailedStepBound, FavoriteExact
<1>5. QED  BY <1>1, <1>2, <1>3, <1>4 DEF IInv

-----------------------------------------------------------------------------
(* Two kinds of step of a task: it moves without touching the log, or it   *)
(* reports to its row.                                                     *)

\* A live task moves, perhaps with one more service done; the log is unchanged.
LEMMA MoveKeepsIInv ==
    ASSUME IInv, NEW t \in Tasks, Live(t),
           NEW where \in PCs \ {"idle", "scheduled"},
           pc[t] = "scheduled" => where = "died",
           NEW d \in 0 .. 3, d >= done[t],
           NEW got \in SUBSET {"detail_enrichment", "contract_process"},
           pc' = [pc EXCEPT ![t] = where],
           done' = [done EXCEPT ![t] = d],
           items' = [items EXCEPT ![t] = got],
           lock' \in {lock, "free", t},
           LockOnlyInService', Progress(t)',
           UNCHANGED <<backend, rows, crashes, kind, jobId>>
    PROVE  IInv'
<1>1. TypeOK'
  BY DEF IInv, TypeOK
<1>2. \A u \in Tasks : Progress(u)'
  <2> SUFFICES ASSUME NEW u \in Tasks, u # t PROVE Progress(u)'
    OBVIOUS
  <2>1. Progress(u) /\ pc'[u] = pc[u] /\ done'[u] = done[u]
                    /\ items'[u] = items[u]
    BY DEF IInv, TypeOK
  <2>2. QED  BY <2>1 DEF Progress
<1>3. \A u \in Tasks : LiveRow(u)'
  BY DEF IInv, TypeOK, LiveRow, Live
<1>4. ASSUME NEW i \in Ids
      PROVE  (RowOwner(i) /\ Claims(i) /\ FailedStepBound(i)
              /\ FavoriteExact(i))'
  <2>1. CASE rows[i] = NoRow
    BY <2>1 DEF RowOwner, Claims, FailedStepBound, FavoriteExact
  <2>2. CASE rows[i] # NoRow
    <3>1. rows[i] \in Row
      BY <2>2 DEF IInv, TypeOK
    <3> DEFINE o == rows[i].owner
    <3>2. o \in Tasks /\ jobId[o] = i
      BY <2>2, <3>1 DEF IInv, RowOwner, Row
    <3>3. RowOwner(i)'
      BY <2>2, <3>2 DEF IInv, TypeOK, RowOwner
    <3>4. done[o] \in 0 .. 3 /\ done'[o] >= done[o]
      BY <3>2 DEF IInv, TypeOK
    <3>5. Claims(i)'
      <4> SUFFICES ASSUME NEW s \in StepNames, rows[i].steps[s] = "completed",
                          rows[i].kind = "bid_resync" => backend # "sample"
                   PROVE  done'[o] >= Position[s]
        BY DEF Claims
      <4>1. done[o] >= Position[s]
        BY <2>2 DEF IInv, Claims
      <4>2. Position[s] \in Nat
        BY DEF Position, StepNames
      <4>3. QED  BY <3>4, <4>1, <4>2
    <3>6. rows[i].status = "failed" => o # t
      BY <3>2 DEF IInv, LiveRow
    <3>7. rows[i].status = "failed" => done'[o] = done[o]
      BY <3>2, <3>6 DEF IInv, TypeOK
    <3>8. FailedStepBound(i)'
      BY <2>2, <3>7 DEF IInv, FailedStepBound
    <3>9. FavoriteExact(i)'
      BY <2>2, <3>7 DEF IInv, FavoriteExact, FirstUncommitted
    <3>10. QED  BY <3>3, <3>5, <3>8, <3>9
  <2>3. QED  BY <2>1, <2>2
<1>5. QED  BY <1>1, <1>2, <1>3, <1>4 DEF IInv

\* In particular when no service returns.
LEMMA JumpKeepsIInv ==
    ASSUME IInv, NEW t \in Tasks, Live(t),
           NEW where \in PCs \ {"idle", "scheduled"},
           pc[t] = "scheduled" => where = "died",
           pc' = [pc EXCEPT ![t] = where],
           lock' \in {lock, "free", t},
           LockOnlyInService', Progress(t)',
           UNCHANGED <<backend, rows, crashes, kind, jobId, done, items>>
    PROVE  IInv'
<1>1. PICK d \in 0 .. 3, got \in SUBSET {"detail_enrichment",
                                          "contract_process"} :
        d = done[t] /\ got = items[t]
  BY DEF IInv, TypeOK
<1>2. /\ done' = [done EXCEPT ![t] = d] /\ d >= done[t]
      /\ items' = [items EXCEPT ![t] = got]
  BY <1>1 DEF IInv, TypeOK
<1>3. QED  BY <1>2, MoveKeepsIInv

\* A live task reports to its row what is true of it.
LEMMA ReportKeepsIInv ==
    ASSUME IInv, NEW t \in Tasks, Live(t),
           NEW where \in PCs \ {"idle", "scheduled", "hold"}, pc[t] # "hold",
           NEW status \in {"running", "completed", "failed"},
           NEW steps \in [StepNames -> StepStatuses],
           NEW failed \in StepNames \cup {"none"},
           UpdateLog(t, status, steps, failed),
           pc' = [pc EXCEPT ![t] = where],
           status # "running" => where = "ended",
           \A s \in StepNames :
              /\ steps[s] = "completed"
              /\ kind[t] = "bid_resync" => backend # "sample"
              => done[t] >= Position[s],
           status = "failed" =>
              /\ Position[failed] <= done[t] + 1
              /\ kind[t] = "favorite_bid_initial_refresh"
                 => failed = FirstUncommitted(t),
           Progress(t)',
           UNCHANGED <<backend, crashes, kind, jobId, done, items>>
    PROVE  IInv'
<1> DEFINE j == jobId[t]
<1>1. /\ j \in Ids /\ rows[j] # NoRow /\ rows[j] \in Row
      /\ rows[j].owner = t /\ rows[j].kind = kind[t]
  BY DEF IInv, TypeOK, LiveRow, Live, RowOwner
<1> DEFINE new == [rows[j] EXCEPT !.status = status, !.steps = steps,
                                  !.failedStep = failed]
<1>2. rows' = [rows EXCEPT ![j] = new] /\ lock' = lock
  BY <1>1 DEF UpdateLog
<1>3. /\ new \in Row /\ new.owner = t /\ new.kind = kind[t]
      /\ new.status = status /\ new.steps = steps /\ new.failedStep = failed
  BY <1>1 DEF Row, Statuses
<1> HIDE DEF new
<1>4. new # NoRow
  BY <1>3, NoRowAssumption
<1>5. /\ rows'[j] = new
      /\ \A i \in Ids : i # j => rows'[i] = rows[i]
  BY <1>1, <1>2 DEF IInv, TypeOK
<1>6. TypeOK'
  BY <1>2, <1>3 DEF IInv, TypeOK
<1>7. LockOnlyInService'
  BY <1>2 DEF IInv, TypeOK, LockOnlyInService
<1>8. \A u \in Tasks : Progress(u)'
  BY DEF IInv, TypeOK, Progress
<1>9. \A u \in Tasks : LiveRow(u)'
  <2>1. LiveRow(t)'
    BY <1>1, <1>3, <1>4, <1>5 DEF IInv, TypeOK, LiveRow, Live
  <2>2. ASSUME NEW u \in Tasks, u # t PROVE LiveRow(u)'
    <3>1. LiveRow(u) /\ (Live(u) => jobId[u] # j)
      BY <1>1, <2>2 DEF IInv, LiveRow
    <3>2. pc'[u] = pc[u]
      BY <2>2 DEF IInv, TypeOK
    <3>3. QED  BY <1>5, <3>1, <3>2 DEF LiveRow, Live
  <2>3. QED  BY <2>1, <2>2
<1>10. ASSUME NEW i \in Ids
       PROVE  (RowOwner(i) /\ Claims(i) /\ FailedStepBound(i)
               /\ FavoriteExact(i))'
  <2>1. CASE i = j
    <3>1. RowOwner(i)'
      BY <1>1, <1>3, <1>5, <2>1 DEF IInv, TypeOK, RowOwner
    <3>2. Claims(i)'
      BY <1>3, <1>5, <2>1 DEF Claims
    <3>3. FailedStepBound(i)'
      BY <1>3, <1>5, <2>1 DEF FailedStepBound
    <3>4. FavoriteExact(i)'
      BY <1>3, <1>5, <2>1 DEF FavoriteExact, FirstUncommitted
    <3>5. QED  BY <3>1, <3>2, <3>3, <3>4
  <2>2. CASE i # j
    <3>1. rows'[i] = rows[i]
      BY <1>5, <2>2
    <3>2. rows[i] # NoRow => rows[i].owner \in Tasks
      BY DEF IInv, TypeOK, Row
    <3>3. RowOwner(i)'
      BY <3>1, <3>2 DEF IInv, TypeOK, RowOwner
    <3>4. Claims(i)' /\ FailedStepBound(i)' /\ FavoriteExact(i)'
      BY <3>1 DEF IInv, Claims, FailedStepBound, FavoriteExact,
                  FirstUncommitted
    <3>5. QED  BY <3>3, <3>4
  <2>3. QED  BY <2>1, <2>2
<1>11. QED  BY <1>6, <1>7, <1>8, <1>9, <1>10 DEF IInv

-----------------------------------------------------------------------------
(* One lemma per group of actions.                                         *)

\* A task that waits for nothing: it moves inside its services or out of them.
LEMMA ServiceStepsKeepIInv ==
    ASSUME IInv, NEW t \in Tasks,
           \/ Fetched(t) \/ TakeLock(t) \/ Commit(t) \/ NothingToStore(t)
           \/ ServiceFails(t) \/ WaitFails(t) \/ Escapes(t)
    PROVE  IInv'
<1> USE DEF Goto
<1>1. /\ pc[t] \in PCs /\ kind[t] \in Kinds /\ done[t] \in 0 .. 3
      /\ items[t] \in SUBSET {"detail_enrichment", "contract_process"}
      /\ items = [items EXCEPT ![t] = items[t]]
      /\ done = [done EXCEPT ![t] = done[t]]
      /\ pc \in [Tasks -> PCs] /\ done \in [Tasks -> 0 .. 3]
      /\ items \in [Tasks -> SUBSET {"detail_enrichment", "contract_process"}]
  BY DEF IInv, TypeOK
<1>2. Progress(t) /\ LockOnlyInService
  BY DEF IInv
<1>3. t # "free" /\ t # "other"
  BY TasksAssumption
<1>4. CASE Fetched(t)
  <2>1. Live(t) /\ "store" \in PCs \ {"idle", "scheduled"}
    BY <1>4 DEF Fetched, Live, PCs
  <2>2. LockOnlyInService' /\ Progress(t)'
    BY <1>1, <1>2, <1>4 DEF Fetched, LockOnlyInService, Progress
  <2>3. QED  BY <1>1, <1>4, <2>1, <2>2, JumpKeepsIInv DEF Fetched
<1>5. CASE TakeLock(t)
  <2>1. Live(t) /\ "hold" \in PCs \ {"idle", "scheduled"}
    BY <1>5 DEF TakeLock, Live, PCs
  <2>2. LockOnlyInService' /\ Progress(t)'
    BY <1>1, <1>2, <1>5 DEF TakeLock, LockOnlyInService, Progress
  <2>3. QED  BY <1>1, <1>5, <2>1, <2>2, JumpKeepsIInv DEF TakeLock
<1>6. CASE Commit(t) \/ NothingToStore(t)
  <2>1. pc[t] \in {"fetch", "hold"} /\ Live(t)
    BY <1>6 DEF Commit, NothingToStore, Live
  <2>2. done[t] + 1 \in 0 .. 3 /\ done[t] + 1 <= NumSteps(kind[t])
    BY <1>1, <1>2, <2>1 DEF Progress, NumSteps
  <2>3. PICK got : /\ Return(t, got)
                   /\ \/ got = {}
                      \/ got = {StepNow(t)} /\ StepNow(t) \in
                            {"detail_enrichment", "contract_process"}
    <3>1. StepNow(t) \in StepNames
      BY <1>1, <2>2, StepFacts DEF StepNow, StepNames
    <3>2. \A g \in Counted(StepNow(t)) :
             \/ g = {}
             \/ g = {StepNow(t)} /\ StepNow(t) \in
                   {"detail_enrichment", "contract_process"}
      BY <3>1 DEF Counted, StepNames
    <3>3. QED  BY <1>6, <3>2 DEF Commit, NothingToStore
  <2>4. got \in SUBSET {"detail_enrichment", "contract_process"}
    BY <2>3
  <2>5. /\ "detail_enrichment" \in got => done[t] + 1 >= 1
        /\ "contract_process" \in got => done[t] + 1 >= 2
    <3>1. done[t] = 0 => StepNow(t) = "detail_enrichment"
      BY StepFacts DEF StepNow
    <3>2. QED  BY <1>1, <2>3, <3>1
  <2> DEFINE where == IF done[t] + 1 = NumSteps(kind[t]) THEN "finish"
                                                         ELSE "mark"
             all == items[t] \cup got
  <2>6. /\ pc' = [pc EXCEPT ![t] = where] /\ where \in PCs \ {"idle", "scheduled"}
        /\ done' = [done EXCEPT ![t] = done[t] + 1]
        /\ items' = [items EXCEPT ![t] = all]
        /\ all \in SUBSET {"detail_enrichment", "contract_process"}
    BY <1>1, <2>3, <2>4 DEF Return, PCs
  <2>7. lock' \in {lock, "free"} /\ UNCHANGED <<backend, rows, crashes, kind, jobId>>
    BY <1>6 DEF Commit, NothingToStore
  <2>8. LockOnlyInService'
    <3>1. lock' # t
      BY <1>2, <1>3, <1>6 DEF Commit, NothingToStore, LockOnlyInService
    <3>2. QED  BY <1>1, <1>2, <1>3, <2>6, <2>7, <3>1, TasksAssumption
               DEF LockOnlyInService
  <2>9. Progress(t)'
    <3>1. /\ pc'[t] = where /\ done'[t] = done[t] + 1 /\ items'[t] = all
          /\ kind'[t] = kind[t]
      BY <1>1, <2>6, <2>7
    <3>2. ~(kind[t] = "bid_resync" /\ backend = "sample") /\ backend' = backend
      BY <1>2, <2>1, <2>7 DEF Progress
    <3>3. QED  BY <1>1, <1>2, <2>2, <2>5, <3>1, <3>2 DEF Progress, NumSteps
  <2>10. done[t] + 1 >= done[t]
    BY <1>1
  <2>11. QED
    BY <2>1, <2>2, <2>6, <2>7, <2>8, <2>9, <2>10, MoveKeepsIInv
<1>7. CASE ServiceFails(t) \/ WaitFails(t)
  <2>1. /\ Live(t) /\ "report" \in PCs \ {"idle", "scheduled"}
        /\ pc[t] # "scheduled" /\ Raise(t)
    BY <1>7 DEF ServiceFails, WaitFails, Live, PCs
  <2>2. lock' \in {lock, "free"} /\ lock' # t
    BY <1>3, <2>1 DEF Raise, Rollback
  <2>3. LockOnlyInService'
    BY <1>1, <1>2, <2>1, <2>2, TasksAssumption DEF Raise, LockOnlyInService
  <2>4. Progress(t)'
    BY <1>1, <1>2, <2>1 DEF Raise, Progress
  <2>5. QED  BY <1>1, <2>1, <2>2, <2>3, <2>4, JumpKeepsIInv DEF Raise
<1>8. CASE Escapes(t)
  <2>1. Live(t) /\ "died" \in PCs \ {"idle", "scheduled"}
    BY <1>8 DEF Escapes, Live, PCs
  <2>2. LockOnlyInService' /\ Progress(t)'
    BY <1>1, <1>2, <1>8 DEF Escapes, LockOnlyInService, Progress
  <2>3. QED  BY <1>1, <1>8, <2>1, <2>2, JumpKeepsIInv DEF Escapes
<1>9. QED  BY <1>4, <1>5, <1>6, <1>7, <1>8

\* A task that reports to its row.
LEMMA ReportStepsKeepIInv ==
    ASSUME IInv, NEW t \in Tasks,
           \/ Begin(t) \/ SampleComplete(t) \/ Mark(t) \/ Finish(t)
           \/ ReportFailure(t)
    PROVE  IInv'
<1> USE DEF Goto
<1>1. /\ pc[t] \in PCs /\ kind[t] \in Kinds /\ done[t] \in 0 .. 3
      /\ pc \in [Tasks -> PCs]
      /\ Progress(t)
  BY DEF IInv, TypeOK
<1>2. \A s \in StepNames : \/ s = "detail_enrichment"
                            \/ s = "contract_process"
                            \/ s = "crawl"
  BY DEF StepNames
<1>3. /\ "absent" \in StepStatuses /\ "queued" \in StepStatuses
      /\ "running" \in StepStatuses /\ "completed" \in StepStatuses
  BY DEF StepStatuses
<1>4. "none" \in StepNames \cup {"none"}
  OBVIOUS
<1>5. CASE Begin(t)
  <2> DEFINE steps == StartedSteps(kind[t])
             where == IF kind[t] = "bid_resync" /\ backend = "sample"
                      THEN "sample" ELSE "fetch"
  <2>1. /\ Live(t) /\ pc[t] # "hold" /\ pc' = [pc EXCEPT ![t] = where]
        /\ where \in PCs \ {"idle", "scheduled", "hold"}
        /\ UpdateLog(t, "running", steps, "none")
        /\ UNCHANGED <<backend, crashes, kind, jobId, done, items>>
    BY <1>5 DEF Begin, Live, PCs
  <2>2. /\ steps \in [StepNames -> StepStatuses]
        /\ \A s \in StepNames : steps[s] # "completed"
    <3> DEFINE last == IF kind[t] = "bid_resync" THEN "queued" ELSE "absent"
    <3>1. steps = Metadata("running", "queued", last)
      BY DEF StartedSteps
    <3>2. last \in StepStatuses /\ last # "completed"
      BY <1>3
    <3> HIDE DEF last, steps
    <3>3. /\ steps \in [StepNames -> StepStatuses]
          /\ steps["detail_enrichment"] = "running"
          /\ steps["contract_process"] = "queued" /\ steps["crawl"] = last
      BY <1>3, <3>1, <3>2, MetadataType
    <3>4. QED  BY <1>2, <3>2, <3>3
  <2>3. Progress(t)'
    BY <1>1, <1>5, <2>1 DEF Begin, Progress, NumSteps
  <2> HIDE DEF steps, where
  <2>4. QED  BY <1>4, <2>1, <2>2, <2>3, ReportKeepsIInv
<1>6. CASE SampleComplete(t)
  <2> DEFINE steps == Metadata("completed", "completed", "completed")
  <2>1. /\ Live(t) /\ pc[t] # "hold" /\ pc' = [pc EXCEPT ![t] = "ended"]
        /\ "ended" \in PCs \ {"idle", "scheduled", "hold"}
        /\ UpdateLog(t, "completed", steps, "none")
        /\ UNCHANGED <<backend, crashes, kind, jobId, done, items>>
    BY <1>6 DEF SampleComplete, Live, PCs
  <2>2. steps \in [StepNames -> StepStatuses]
    BY <1>3, MetadataType
  <2>3. kind[t] = "bid_resync" /\ backend = "sample"
    BY <1>1, <1>6 DEF SampleComplete, Progress
  <2>4. Progress(t)'
    BY <1>1, <2>1 DEF Progress
  <2> HIDE DEF steps
  <2>5. QED  BY <1>4, <2>1, <2>2, <2>3, <2>4, ReportKeepsIInv
<1>7. CASE Mark(t)
  <2> DEFINE steps == ProgressSteps(t)
  <2>1. /\ Live(t) /\ pc[t] # "hold" /\ pc' = [pc EXCEPT ![t] = "fetch"]
        /\ "fetch" \in PCs \ {"idle", "scheduled", "hold"}
        /\ UpdateLog(t, "running", steps, "none")
        /\ UNCHANGED <<backend, crashes, kind, jobId, done, items>>
    BY <1>7 DEF Mark, Live, PCs
  <2>2. done[t] >= 1 /\ done[t] < NumSteps(kind[t])
    BY <1>1, <1>7 DEF Mark, Progress
  <2> DEFINE contract == IF kind[t] = "bid_resync" /\ done[t] # 1
                         THEN "completed" ELSE "running"
             crawl == IF kind[t] = "bid_resync" THEN "running" ELSE "absent"
  <2>3. steps \in [StepNames -> StepStatuses]
        /\ \A s \in StepNames :
             steps[s] = "completed" => done[t] >= Position[s]
    <3>1. steps = Metadata("completed", contract, crawl)
      BY DEF ProgressSteps
    <3>2. /\ contract \in StepStatuses /\ crawl \in StepStatuses
          /\ contract = "completed" => done[t] >= 2
          /\ crawl # "completed"
      BY <1>1, <1>3, <2>2
    <3> HIDE DEF contract, crawl, steps
    <3>3. /\ steps \in [StepNames -> StepStatuses]
          /\ steps["contract_process"] = contract /\ steps["crawl"] = crawl
      BY <1>3, <3>1, <3>2, MetadataType
    <3>4. QED  BY <1>1, <1>2, <2>2, <3>2, <3>3, StepFacts
  <2>4. Progress(t)'
    BY <1>1, <1>7, <2>1, <2>2 DEF Progress, Mark
  <2> HIDE DEF steps
  <2>5. QED  BY <1>4, <2>1, <2>3, <2>4, ReportKeepsIInv
<1>8. CASE Finish(t)
  <2> DEFINE last  == IF kind[t] = "bid_resync" THEN "completed" ELSE "absent"
             steps == Metadata("completed", "completed", last)
  <2>1. /\ Live(t) /\ pc[t] # "hold" /\ pc' = [pc EXCEPT ![t] = "ended"]
        /\ "ended" \in PCs \ {"idle", "scheduled", "hold"}
        /\ UpdateLog(t, "completed", steps, "none")
        /\ UNCHANGED <<backend, crashes, kind, jobId, done, items>>
    BY <1>8 DEF Finish, Live, PCs
  <2>2. done[t] = NumSteps(kind[t])
    BY <1>1, <1>8 DEF Finish, Progress
  <2>3. /\ last \in StepStatuses
        /\ last = "completed" => NumSteps(kind[t]) = 3
        /\ NumSteps(kind[t]) \in {2, 3}
    BY <1>3 DEF NumSteps
  <2> HIDE DEF last
  <2>4. /\ steps \in [StepNames -> StepStatuses]
        /\ steps["crawl"] = last
    BY <1>3, <2>3, MetadataType
  <2> HIDE DEF steps
  <2>7. \A s \in StepNames :
          steps[s] = "completed" => done[t] >= Position[s]
    BY <1>1, <1>2, <2>2, <2>3, <2>4, StepFacts
  <2>5. Progress(t)'
    BY <1>1, <2>1 DEF Progress
  <2>6. QED  BY <1>4, <2>1, <2>4, <2>7, <2>5, ReportKeepsIInv
<1>9. CASE ReportFailure(t)
  <2> DEFINE steps  == FailureSteps(t)
             failed == FailedStep(t)
  <2>1. /\ Live(t) /\ pc[t] # "hold" /\ pc' = [pc EXCEPT ![t] = "ended"]
        /\ "ended" \in PCs \ {"idle", "scheduled", "hold"}
        /\ UpdateLog(t, "failed", steps, failed)
        /\ UNCHANGED <<backend, crashes, kind, jobId, done, items>>
    BY <1>9 DEF ReportFailure, Live, PCs
  <2>2. failed \in StepNames
    BY DEF FailedStep, StepNames
  <2>3. Position[failed] <= done[t] + 1
    BY <1>1, StepFacts DEF FailedStep, Progress
  <2>4. kind[t] = "favorite_bid_initial_refresh"
        => failed = FirstUncommitted(t)
    <3> SUFFICES ASSUME kind[t] = "favorite_bid_initial_refresh"
                 PROVE  failed = FirstUncommitted(t)
      OBVIOUS
    <3>1. NumSteps(kind[t]) = 2 /\ done[t] \in {0, 1, 2}
      BY <1>1 DEF NumSteps, Progress
    <3>2. QED  BY <3>1, StepFacts DEF FailedStep, FirstUncommitted
  <2>5. steps \in [StepNames -> StepStatuses]
    BY DEF FailureSteps, StepStatuses
  <2>6. \A s \in StepNames :
          steps[s] = "completed" => done[t] >= Position[s]
    <3> SUFFICES ASSUME NEW s \in StepNames, steps[s] = "completed"
                 PROVE  done[t] >= Position[s]
      OBVIOUS
    <3>1. Position[s] < Position[failed]
      BY DEF FailureSteps
    <3>2. Position[s] \in Nat /\ Position[failed] \in Nat
      BY <1>2, <2>2, StepFacts
    <3>3. QED  BY <1>1, <2>3, <3>1, <3>2
  <2>7. Progress(t)'
    BY <1>1, <2>1 DEF Progress
  <2> HIDE DEF steps, failed
  <2>8. QED
    BY <2>1, <2>2, <2>3, <2>4, <2>5, <2>6, <2>7, ReportKeepsIInv
<1>10. QED  BY <1>5, <1>6, <1>7, <1>8, <1>9

\* A request inserts a row for an idle task.
LEMMA QueueKeepsIInv ==
    ASSUME IInv, NEW t \in Tasks, NEW k \in Kinds, Queue(t, k)
    PROVE  IInv'
<1>1. PICK j \in Ids :
        /\ NextId(j)
        /\ rows' = [rows EXCEPT ![j] =
                      [owner |-> t, kind |-> k, status |-> "queued",
                       steps |-> QueuedSteps(k), failedStep |-> "none"]]
        /\ jobId' = [jobId EXCEPT ![t] = j]
  BY DEF Queue
<1> DEFINE new == [owner |-> t, kind |-> k, status |-> "queued",
                   steps |-> QueuedSteps(k), failedStep |-> "none"]
<1>2. /\ pc[t] = "idle" /\ pc' = [pc EXCEPT ![t] = "scheduled"]
      /\ kind' = [kind EXCEPT ![t] = k]
      /\ UNCHANGED <<backend, lock, crashes, done, items>>
  BY DEF Queue, Goto
<1>3. rows[j] = NoRow
  BY <1>1 DEF NextId, Ids
<1>4. QueuedSteps(k) \in [StepNames -> StepStatuses]
      /\ \A s \in StepNames : QueuedSteps(k)[s] # "completed"
  <2>1. {"absent", "queued"} \subseteq StepStatuses
    BY DEF StepStatuses
  <2>2. QED  BY <2>1, MetadataType DEF QueuedSteps, StepNames
<1>5. /\ new \in Row /\ new.owner = t /\ new.kind = k
      /\ new.status = "queued" /\ new.steps = QueuedSteps(k)
  BY <1>4 DEF Row, Statuses
<1> HIDE DEF new
<1>6. new # NoRow
  BY <1>5, NoRowAssumption
<1>7. /\ rows' = [rows EXCEPT ![j] = new] /\ rows'[j] = new
      /\ \A i \in Ids : i # j => rows'[i] = rows[i]
  BY <1>1 DEF IInv, TypeOK, new
<1>8. TypeOK'
  BY <1>1, <1>2, <1>5, <1>7 DEF IInv, TypeOK, PCs
<1>9. LockOnlyInService'
  BY <1>2 DEF IInv, TypeOK, LockOnlyInService
<1>10. ASSUME NEW u \in Tasks PROVE Progress(u)' /\ LiveRow(u)'
  <2>1. CASE u = t
    <3>1. done[t] = 0 /\ items'[t] = items[t] /\ Progress(t) /\ pc'[t] = "scheduled"
          /\ jobId'[t] = j
      BY <1>1, <1>2 DEF IInv, TypeOK, Progress
    <3>2. Progress(t)'
      BY <1>2, <3>1 DEF Progress, NumSteps
    <3>3. LiveRow(t)'
      BY <1>5, <1>6, <1>7, <3>1 DEF LiveRow
    <3>4. QED  BY <2>1, <3>2, <3>3
  <2>2. CASE u # t
    <3>1. /\ pc'[u] = pc[u] /\ kind'[u] = kind[u] /\ jobId'[u] = jobId[u]
          /\ Progress(u) /\ LiveRow(u)
      BY <1>1, <1>2, <2>2 DEF IInv, TypeOK
    <3>2. QED  BY <1>2, <1>3, <1>7, <3>1 DEF Progress, LiveRow, Live
  <2>3. QED  BY <2>1, <2>2
<1>11. ASSUME NEW i \in Ids
       PROVE  (RowOwner(i) /\ Claims(i) /\ FailedStepBound(i)
               /\ FavoriteExact(i))'
  <2>1. CASE i = j
    <3>1. RowOwner(i)'
      BY <1>1, <1>2, <1>5, <1>7, <2>1 DEF IInv, TypeOK, RowOwner
    <3>2. Claims(i)' /\ FailedStepBound(i)' /\ FavoriteExact(i)'
      BY <1>4, <1>5, <1>7, <2>1 DEF Claims, FailedStepBound, FavoriteExact
    <3>3. QED  BY <3>1, <3>2
  <2>2. CASE i # j
    <3>1. rows'[i] = rows[i]
      BY <1>7, <2>2
    <3>2. rows[i] # NoRow => /\ rows[i].owner \in Tasks
                             /\ rows[i].owner # t
                             /\ kind'[rows[i].owner] = kind[rows[i].owner]
      BY <1>2 DEF IInv, TypeOK, Row, RowOwner
    <3>3. RowOwner(i)'
      BY <1>1, <1>2, <3>1, <3>2 DEF IInv, TypeOK, RowOwner
    <3>4. Claims(i)' /\ FailedStepBound(i)'
      BY <1>2, <3>1 DEF IInv, Claims, FailedStepBound
    <3>5. FavoriteExact(i)'
      BY <1>2, <3>1, <3>2 DEF IInv, FavoriteExact, FirstUncommitted
    <3>6. QED  BY <3>3, <3>4, <3>5
  <2>3. QED  BY <2>1, <2>2
<1>12. QED  BY <1>8, <1>9, <1>10, <1>11 DEF IInv

\* Retention deletes rows, but no live task's.
LEMMA CleanupKeepsIInv ==
    ASSUME IInv, NEW cut \in 1 .. MaxId + 1, NEW only \in StatusFilters,
           Cleanup(cut, only)
    PROVE  IInv'
<1>1. UNCHANGED <<backend, lock, crashes, pc, kind, jobId, done, items>>
  BY DEF Cleanup
<1>2. \A i \in Ids : rows'[i] = rows[i] \/ rows'[i] = NoRow
  BY DEF Cleanup
<1>3. TypeOK'
  BY <1>1 DEF Cleanup, IInv, TypeOK
<1>4. LockOnlyInService'
  BY <1>1 DEF IInv, LockOnlyInService
<1>5. ASSUME NEW t \in Tasks PROVE Progress(t)' /\ LiveRow(t)'
  <2>1. Progress(t)'
    BY <1>1 DEF IInv, Progress
  <2>2. Live(t) => rows'[jobId[t]] = rows[jobId[t]]
    <3> SUFFICES ASSUME Live(t) PROVE rows'[jobId[t]] = rows[jobId[t]]
      OBVIOUS
    <3>1. jobId[t] \in Ids /\ jobId[t] >= cut
      BY DEF IInv, LiveRow, Live, Cleanup, RetentionOutlivesJobs
    <3>2. ~Expired(jobId[t], cut)
      BY <3>1 DEF Expired, Ids
    <3>3. QED  BY <3>1, <3>2 DEF Cleanup
  <2>3. LiveRow(t)'
    BY <1>1, <2>2 DEF IInv, LiveRow, Live
  <2>4. QED  BY <2>1, <2>3
<1>6. ASSUME NEW i \in Ids
      PROVE  (RowOwner(i) /\ Claims(i) /\ FailedStepBound(i)
              /\ FavoriteExact(i))'
  BY <1>1, <1>2 DEF IInv, RowOwner, Claims, FailedStepBound, FavoriteExact,
                    FirstUncommitted
<1>7. QED  BY <1>3, <1>4, <1>5, <1>6 DEF IInv

\* The process stops, or others use the database.
LEMMA WorldKeepsIInv ==
    ASSUME IInv, Crash \/ OtherTakes \/ OtherReleases
    PROVE  IInv'
<1>1. UNCHANGED <<backend, rows, kind, jobId, done, items>>
  BY DEF Crash, OtherTakes, OtherReleases
<1>2. pc' \in [Tasks -> PCs]
      /\ \A t \in Tasks : pc'[t] = pc[t] \/ (Live(t) /\ pc'[t] = "lost")
  BY DEF Crash, OtherTakes, OtherReleases, IInv, TypeOK, PCs
<1>3. TypeOK'
  BY <1>1, <1>2, MaxCrashesAssumption
     DEF Crash, OtherTakes, OtherReleases, IInv, TypeOK
<1>4. LockOnlyInService'
  <2>1. CASE Crash
    <3>1. lock' \notin Tasks
      BY <2>1, TasksAssumption DEF Crash
    <3>2. QED  BY <3>1 DEF LockOnlyInService
  <2>2. CASE OtherTakes \/ OtherReleases
    BY <2>2, TasksAssumption DEF OtherTakes, OtherReleases, LockOnlyInService
  <2>3. QED  BY <2>1, <2>2
<1>5. ASSUME NEW t \in Tasks PROVE Progress(t)' /\ LiveRow(t)'
  <2>1. Progress(t) /\ LiveRow(t)
    BY DEF IInv
  <2>2. Progress(t)'
    BY <1>1, <1>2, <2>1 DEF Progress
  <2>3. LiveRow(t)'
    BY <1>1, <1>2, <2>1 DEF LiveRow, Live
  <2>4. QED  BY <2>2, <2>3
<1>6. ASSUME NEW i \in Ids
      PROVE  (RowOwner(i) /\ Claims(i) /\ FailedStepBound(i)
              /\ FavoriteExact(i))'
  <2>1. RowOwner(i)'
    <3>1. rows[i] # NoRow => rows[i].owner \in Tasks
      BY DEF IInv, TypeOK, Row
    <3>2. QED  BY <1>1, <1>2, <3>1 DEF IInv, RowOwner
  <2>2. Claims(i)' /\ FailedStepBound(i)' /\ FavoriteExact(i)'
    BY <1>1 DEF IInv, Claims, FailedStepBound, FavoriteExact, FirstUncommitted
  <2>3. QED  BY <2>1, <2>2
<1>7. QED  BY <1>3, <1>4, <1>5, <1>6 DEF IInv

-----------------------------------------------------------------------------
(* The theorems.                                                           *)

\* The strengthened invariant is inductive.
THEOREM Invariance == Spec => []IInv
<1>1. Init => IInv
  BY InitIInv
<1>2. IInv /\ [Next]_vars => IInv'
  <2> SUFFICES ASSUME IInv, [Next]_vars PROVE IInv'
    OBVIOUS
  <2>1. CASE \E t \in Tasks, k \in Kinds : Queue(t, k)
    BY <2>1, QueueKeepsIInv
  <2>2. CASE \E t \in Tasks : TaskStep(t)
    BY <2>2, ServiceStepsKeepIInv, ReportStepsKeepIInv DEF TaskStep
  <2>3. CASE Crash \/ OtherTakes \/ OtherReleases
    BY <2>3, WorldKeepsIInv
  <2>4. CASE \E cut \in 1 .. MaxId + 1, only \in StatusFilters :
                Cleanup(cut, only)
    BY <2>4, CleanupKeepsIInv
  <2>5. CASE UNCHANGED vars
    BY <2>5 DEF vars, IInv, TypeOK, LockOnlyInService, Progress, LiveRow, Live,
                RowOwner, Claims, FailedStepBound, FavoriteExact,
                FirstUncommitted
  <2>6. QED  BY <2>1, <2>2, <2>3, <2>4, <2>5 DEF Next
<1>3. QED  BY <1>1, <1>2, PTL DEF Spec

\* Every variable keeps its type.
THEOREM TypeCorrect == Spec => []TypeOK
<1>1. IInv => TypeOK  BY DEF IInv
<1>2. QED  BY <1>1, Invariance, PTL

\* A task that reports to the log, or that is gone, never holds the write lock
\* its report needs.
THEOREM LockDiscipline == Spec => []LockOnlyInService
<1>1. IInv => LockOnlyInService  BY DEF IInv
<1>2. QED  BY <1>1, Invariance, PTL

\* A live task reports to the row its own request inserted and to no other
\* live task's, although deleted ids are handed out again.
THEOREM RowOwnership == Spec => []OwnRow
<1>1. IInv => OwnRow
  <2> SUFFICES ASSUME IInv, NEW t \in Tasks, Live(t)
               PROVE  /\ rows[jobId[t]] # NoRow
                      /\ rows[jobId[t]].owner = t
                      /\ \A u \in Tasks \ {t} : Live(u) => jobId[u] # jobId[t]
    BY DEF OwnRow
  <2>1. rows[jobId[t]] # NoRow /\ rows[jobId[t]].owner = t
    BY DEF IInv, LiveRow
  <2>2. \A u \in Tasks \ {t} : Live(u) => jobId[u] # jobId[t]
    BY <2>1 DEF IInv, LiveRow
  <2>3. QED  BY <2>1, <2>2
<1>2. QED  BY <1>1, Invariance, PTL

\* The log never claims results the database does not hold.
THEOREM LogHonesty == Spec => []ClaimsAreCommitted
<1>1. IInv => ClaimsAreCommitted
  BY DEF IInv, Claims, ClaimsAreCommitted
<1>2. QED  BY <1>1, Invariance, PTL

\* failed_step is never beyond the first step that has not committed.
THEOREM FailedStepSafety == Spec => []FailedStepNeverOverclaims
<1>1. IInv => FailedStepNeverOverclaims
  BY DEF IInv, FailedStepBound, FailedStepNeverOverclaims
<1>2. QED  BY <1>1, Invariance, PTL

\* The favorite refresh names exactly the step that did not commit.
THEOREM FavoriteFailedStep == Spec => []FavoriteFailedStepIsExact
<1>1. IInv => FavoriteFailedStepIsExact
  BY DEF IInv, FavoriteExact, FavoriteFailedStepIsExact
<1>2. QED  BY <1>1, Invariance, PTL

-----------------------------------------------------------------------------
(* BackgroundJobs implements JobLifecycle.                                 *)

\* What each task's caller sees, before and after a step that touches no row
\* but perhaps that of the stepping task t.
LEMMA OthersSeeNothing ==
    ASSUME IInv, IInv', NEW t \in Tasks,
           \A i \in Ids : rows'[i] # rows[i] =>
               \/ rows'[i] # NoRow /\ rows'[i].owner = t
                  /\ (rows[i] = NoRow \/ rows[i].owner = t),
           \A u \in Tasks \ {t} : /\ pc'[u] = pc[u] /\ jobId'[u] = jobId[u]
                                 /\ kind'[u] = kind[u],
           backend' = backend
    PROVE  \A u \in Tasks \ {t} : /\ ReportOf(u)' = ReportOf(u)
                                 /\ Live(u)' = Live(u)
                                 /\ NeedOf(u)' = NeedOf(u)
<1> SUFFICES ASSUME NEW u \in Tasks \ {t}
             PROVE  ReportOf(u)' = ReportOf(u) /\ Live(u)' = Live(u)
                    /\ NeedOf(u)' = NeedOf(u)
  OBVIOUS
<1>1. Live(u)' = Live(u) /\ NeedOf(u)' = NeedOf(u)
  BY DEF Live, NeedOf
<1>2. CASE pc[u] = "idle"
  BY <1>1, <1>2 DEF ReportOf
<1>3. CASE pc[u] # "idle"
  <2> DEFINE j == jobId[u]
  <2>1. j \in Ids /\ jobId'[u] = j /\ pc'[u] # "idle"
    BY <1>3 DEF IInv, LiveRow
  <2>2. CASE rows'[j] = rows[j]
    BY <1>1, <1>3, <2>1, <2>2 DEF ReportOf
  <2>3. CASE rows'[j] # rows[j]
    <3>1. /\ ~(rows'[j] # NoRow /\ rows'[j].owner = u)
          /\ ~(rows[j] # NoRow /\ rows[j].owner = u)
      BY <2>1, <2>3
    <3>2. QED  BY <1>1, <1>3, <2>1, <3>1 DEF ReportOf
  <2>4. QED  BY <2>2, <2>3
<1>4. QED  BY <1>1, <1>2, <1>3

\* The state of JobLifecycle that a state of BackgroundJobs stands for.
Report == [t \in Tasks |-> ReportOf(t)]
Alive  == [t \in Tasks |-> Live(t)]
Need   == [t \in Tasks |-> NeedOf(t)]

\* What tasks report has the type of a row's fields.
LEMMA ReportTypes ==
    ASSUME NEW t \in Tasks,
           \/ Begin(t) \/ SampleComplete(t) \/ Mark(t) \/ Finish(t)
           \/ ReportFailure(t)
    PROVE  \E status \in Statuses, steps \in [StepNames -> StepStatuses],
              failed \in StepNames \cup {"none"} :
                 UpdateLog(t, status, steps, failed)
<1> USE DEF Statuses
<1>1. /\ "absent" \in StepStatuses /\ "queued" \in StepStatuses
      /\ "running" \in StepStatuses /\ "completed" \in StepStatuses
  BY DEF StepStatuses
<1>2. CASE Begin(t)
  <2> DEFINE steps == StartedSteps(kind[t])
  <2>1. steps \in [StepNames -> StepStatuses]
    BY <1>1, MetadataType DEF StartedSteps
  <2>2. UpdateLog(t, "running", steps, "none")
    BY <1>2 DEF Begin
  <2> HIDE DEF steps
  <2>3. QED  BY <2>1, <2>2
<1>3. CASE SampleComplete(t) \/ Finish(t)
  <2>1. PICK last \in StepStatuses :
          UpdateLog(t, "completed", Metadata("completed", "completed", last),
                    "none")
    BY <1>1, <1>3 DEF SampleComplete, Finish
  <2> DEFINE steps == Metadata("completed", "completed", last)
  <2>2. steps \in [StepNames -> StepStatuses]
    BY <1>1, MetadataType
  <2> HIDE DEF steps
  <2>3. QED  BY <2>1, <2>2 DEF steps
<1>4. CASE Mark(t)
  <2> DEFINE steps == ProgressSteps(t)
  <2>1. steps \in [StepNames -> StepStatuses]
    BY <1>1, MetadataType DEF ProgressSteps
  <2>2. UpdateLog(t, "running", steps, "none")
    BY <1>4 DEF Mark
  <2> HIDE DEF steps
  <2>3. QED  BY <2>1, <2>2
<1>5. CASE ReportFailure(t)
  <2> DEFINE steps == FailureSteps(t)
  <2>1. steps \in [StepNames -> StepStatuses]
    BY DEF FailureSteps, StepStatuses
  <2>2. UpdateLog(t, "failed", steps, FailedStep(t)) /\ FailedStep(t) \in StepNames
    BY <1>5 DEF ReportFailure, FailedStep, StepNames
  <2> HIDE DEF steps
  <2>3. QED  BY <2>1, <2>2
<1>6. QED  BY <1>2, <1>3, <1>4, <1>5

\* So a step of task t changes these functions at t only.
LEMMA TaskView ==
    ASSUME IInv, IInv', NEW t \in Tasks,
           \/ \E k \in Kinds : Queue(t, k)
           \/ TaskStep(t)
    PROVE  /\ Report' = [Report EXCEPT ![t] = ReportOf(t)']
           /\ Alive'  = [Alive EXCEPT ![t] = Live(t)']
           /\ Need'   = [Need EXCEPT ![t] = NeedOf(t)']
<1>1. \A u \in Tasks \ {t} : /\ pc'[u] = pc[u] /\ jobId'[u] = jobId[u]
                            /\ kind'[u] = kind[u]
  BY DEF IInv, TypeOK, Queue, TaskStep, Begin, SampleComplete, Fetched,
         TakeLock, Commit, NothingToStore, Mark, Finish, ServiceFails,
         WaitFails, ReportFailure, Escapes, Raise, Return, Goto
<1>2. backend' = backend
  BY DEF Queue, TaskStep, Begin, SampleComplete, Fetched,
         TakeLock, Commit, NothingToStore, Mark, Finish, ServiceFails,
         WaitFails, ReportFailure, Escapes, Raise
<1>3. ASSUME NEW i \in Ids, rows'[i] # rows[i]
      PROVE  /\ rows'[i] # NoRow /\ rows'[i].owner = t
             /\ rows[i] = NoRow \/ rows[i].owner = t
  <2>1. CASE \E k \in Kinds : Queue(t, k)
    <3>1. PICK k \in Kinds, j \in Ids :
            /\ NextId(j)
            /\ rows' = [rows EXCEPT ![j] =
                          [owner |-> t, kind |-> k, status |-> "queued",
                           steps |-> QueuedSteps(k), failedStep |-> "none"]]
            /\ jobId' = [jobId EXCEPT ![t] = j] /\ pc' = [pc EXCEPT ![t] = "scheduled"]
      BY <2>1 DEF Queue, Goto
    <3>2. i = j /\ rows[j] = NoRow
      BY <1>3, <3>1 DEF IInv, TypeOK, NextId, Ids
    <3>3. rows'[j] # NoRow /\ rows'[j].owner = t
      <4>1. jobId'[t] = j /\ pc'[t] = "scheduled"
        BY <3>1 DEF IInv, TypeOK
      <4>2. QED  BY <4>1 DEF IInv, LiveRow, Live
    <3>4. QED  BY <3>2, <3>3
  <2>2. CASE TaskStep(t)
    <3>1. Live(t)
      BY <2>2 DEF TaskStep, Begin, SampleComplete, Fetched, TakeLock, Commit,
                  NothingToStore, Mark, Finish, ServiceFails, WaitFails,
                  ReportFailure, Escapes, Live
    <3>2. rows[jobId[t]] # NoRow /\ rows[jobId[t]].owner = t
      BY <3>1 DEF IInv, LiveRow
    <3>3. PICK status \in Statuses, steps \in [StepNames -> StepStatuses],
               failed \in StepNames \cup {"none"} :
                  UpdateLog(t, status, steps, failed)
      BY <1>3, <2>2, ReportTypes
         DEF TaskStep, Fetched, TakeLock, Commit, NothingToStore, ServiceFails,
             WaitFails, Escapes, Raise
    <3>4. i = jobId[t]
      BY <1>3, <3>2, <3>3 DEF UpdateLog, IInv, TypeOK
    <3>5. rows[i] \in Row
      BY <3>2, <3>4 DEF IInv, TypeOK
    <3>6. rows'[i] # NoRow /\ rows'[i].owner = t
      <4>1. rows'[i] = [rows[i] EXCEPT !.status = status, !.steps = steps,
                                       !.failedStep = failed]
        BY <3>2, <3>3, <3>4 DEF UpdateLog, IInv, TypeOK
      <4>2. rows'[i].owner = t
        BY <3>2, <3>4, <3>5, <4>1 DEF Row
      <4>3. rows'[i] \in Row
        BY <3>5, <4>1 DEF Row
      <4>4. QED  BY <4>2, <4>3, NoRowAssumption
    <3>7. QED  BY <3>2, <3>4, <3>6
  <2>3. QED  BY <2>1, <2>2
<1>4. \A u \in Tasks \ {t} : /\ ReportOf(u)' = ReportOf(u)
                            /\ Live(u)' = Live(u)
                            /\ NeedOf(u)' = NeedOf(u)
  BY <1>1, <1>2, <1>3, OthersSeeNothing
<1>5. QED  BY <1>4 DEF Report, Alive, Need

LEMMA InitRefines == Init => Lifecycle!Init
BY DEF Init, Lifecycle!Init, ReportOf, Live, NeedOf

\* A task that reports to its row and ends shows what it reported.
LEMMA SettledReport ==
    ASSUME NEW t \in Tasks, rows \in [Ids -> Row \cup {NoRow}],
           jobId[t] \in Ids, rows[jobId[t]] # NoRow,
           rows[jobId[t]].owner = t,
           NEW status \in Statuses, NEW steps \in [StepNames -> StepStatuses],
           NEW failed \in StepNames \cup {"none"},
           UpdateLog(t, status, steps, failed),
           jobId' = jobId
    PROVE  /\ rows'[jobId'[t]] # NoRow
           /\ rows'[jobId'[t]].owner = t
           /\ rows'[jobId'[t]].status = status
<1> DEFINE i == jobId[t]
<1>1. rows[i] \in Row
  OBVIOUS
<1>2. rows'[i] = [rows[i] EXCEPT !.status = status, !.steps = steps,
                                 !.failedStep = failed]
  BY DEF UpdateLog
<1>3. rows'[i] \in Row /\ rows'[i].owner = t /\ rows'[i].status = status
  BY <1>1, <1>2 DEF Row
<1>4. rows'[i] # NoRow
  BY <1>3, NoRowAssumption
<1>5. QED  BY <1>3, <1>4

\* Each step of a task is a step of its job in JobLifecycle, or none.
LEMMA TaskRefines ==
    ASSUME IInv, IInv', NEW t \in Tasks,
           \/ \E k \in Kinds : Queue(t, k)
           \/ TaskStep(t)
    PROVE  [Lifecycle!Next]_(Lifecycle!vars)
<1>1. /\ Report' = [Report EXCEPT ![t] = ReportOf(t)']
      /\ Alive'  = [Alive EXCEPT ![t] = Live(t)']
      /\ Need'   = [Need EXCEPT ![t] = NeedOf(t)']
  BY TaskView
<1>2. Report[t] = ReportOf(t) /\ Alive[t] = Live(t) /\ Need[t] = NeedOf(t)
  BY DEF Report, Alive, Need
<1>3. /\ pc \in [Tasks -> PCs] /\ kind \in [Tasks -> Kinds]
      /\ done \in [Tasks -> 0 .. 3] /\ jobId \in [Tasks -> Ids \cup {0}]
      /\ rows \in [Ids -> Row \cup {NoRow}]
      /\ Progress(t) /\ LiveRow(t) /\ Progress(t)' /\ LiveRow(t)'
  BY DEF IInv, TypeOK
<1>4. ASSUME Live(t)
      PROVE  ReportOf(t) = IF pc[t] = "scheduled" THEN "queued" ELSE "running"
  BY <1>3, <1>4 DEF LiveRow, Live, ReportOf
<1>5. CASE \E k \in Kinds : Queue(t, k)
  <2>1. PICK k \in Kinds : Queue(t, k)
    BY <1>5
  <2>2. /\ pc[t] = "idle" /\ pc'[t] = "scheduled" /\ done' = done
    BY <1>3, <2>1 DEF Queue, Goto
  <2>3. ReportOf(t) = "absent" /\ ReportOf(t)' = "queued" /\ Live(t)' = TRUE
    BY <1>3, <2>2 DEF ReportOf, Live, LiveRow
  <2>4. NeedOf(t)' \in 0 .. 3
    BY DEF NeedOf, NumSteps
  <2>5. Lifecycle!Accept(t)
    BY <1>1, <1>2, <2>2, <2>3, <2>4
       DEF Lifecycle!Accept, Report, Alive, Need
  <2>6. QED  BY <2>5 DEF Lifecycle!Next
<1>6. CASE TaskStep(t)
  <2>1. Live(t) /\ ReportOf(t) = IF pc[t] = "scheduled" THEN "queued"
                                                       ELSE "running"
    BY <1>4, <1>6 DEF TaskStep, Begin, SampleComplete, Fetched, TakeLock,
         Commit, NothingToStore, Mark, Finish, ServiceFails, WaitFails,
         ReportFailure, Escapes, Live
  <2>2. NeedOf(t)' = NeedOf(t)
    <3>1. pc[t] # "idle" /\ pc'[t] # "idle" /\ UNCHANGED <<kind, backend>>
      BY <1>3, <1>6 DEF TaskStep, Begin, SampleComplete, Fetched, TakeLock,
         Commit, NothingToStore, Mark, Finish, ServiceFails, WaitFails,
         ReportFailure, Escapes, Raise, Return, Goto
    <3>2. QED  BY <3>1 DEF NeedOf
  <2>3. Need' = Need
    BY <1>1, <1>2, <2>2 DEF Need
  <2>4. CASE Begin(t)
    <3>1. pc[t] = "scheduled" /\ pc'[t] \in {"sample", "fetch"} /\ done' = done
      BY <1>3, <2>4 DEF Begin, Goto
    <3>2. Live(t)' = TRUE /\ ReportOf(t)' = "running"
      BY <1>3, <3>1 DEF Live, LiveRow, ReportOf
    <3>3. Lifecycle!Start(t)
      BY <1>1, <1>2, <2>1, <2>3, <3>1, <3>2
         DEF Lifecycle!Start, Report, Alive, Need
    <3>4. QED  BY <3>3 DEF Lifecycle!Next
  <2>5. CASE SampleComplete(t) \/ Finish(t)
    <3>1. /\ pc[t] \in {"sample", "finish"} /\ pc'[t] = "ended"
          /\ UNCHANGED <<done, jobId>>
          /\ \E last \in StepStatuses :
               UpdateLog(t, "completed",
                         Metadata("completed", "completed", last), "none")
      BY <1>3, <2>5 DEF SampleComplete, Finish, Goto, StepStatuses
    <3>2. Live(t)' = FALSE /\ ReportOf(t)' = "completed"
      <4>1. rows[jobId[t]] # NoRow /\ rows[jobId[t]].owner = t
            /\ rows[jobId[t]] \in Row /\ jobId[t] \in Ids
        BY <1>3, <2>1 DEF LiveRow, Live
      <4>2. PICK last \in StepStatuses :
               UpdateLog(t, "completed",
                         Metadata("completed", "completed", last), "none")
        BY <3>1
      <4> DEFINE steps == Metadata("completed", "completed", last)
      <4>3. steps \in [StepNames -> StepStatuses]
        BY MetadataType DEF StepStatuses
      <4>4. UpdateLog(t, "completed", steps, "none") /\ "completed" \in Statuses
        BY <4>2 DEF Statuses
      <4> HIDE DEF steps
      <4>5. rows'[jobId'[t]] # NoRow /\ rows'[jobId'[t]].owner = t
            /\ rows'[jobId'[t]].status = "completed"
        BY <1>3, <3>1, <4>1, <4>3, <4>4, SettledReport
      <4>6. QED  BY <3>1, <4>5 DEF Live, ReportOf
    <3>3. done[t] = NeedOf(t)
      BY <1>3, <3>1 DEF Progress, NeedOf
    <3>4. Lifecycle!Complete(t)
      BY <1>1, <1>2, <2>1, <2>3, <3>1, <3>2, <3>3
         DEF Lifecycle!Complete, Report, Alive, Need
    <3>5. QED  BY <3>4 DEF Lifecycle!Next
  <2>6. CASE ReportFailure(t)
    <3>1. /\ pc[t] = "report" /\ pc'[t] = "ended" /\ UNCHANGED <<done, jobId>>
          /\ UpdateLog(t, "failed", FailureSteps(t), FailedStep(t))
      BY <1>3, <2>6 DEF ReportFailure, Goto
    <3>2. Live(t)' = FALSE /\ ReportOf(t)' = "failed"
      <4>1. rows[jobId[t]] # NoRow /\ rows[jobId[t]].owner = t
            /\ rows[jobId[t]] \in Row /\ jobId[t] \in Ids
        BY <1>3, <2>1 DEF LiveRow, Live
      <4> DEFINE steps == FailureSteps(t)
                 step == FailedStep(t)
      <4>2. steps \in [StepNames -> StepStatuses] /\ step \in StepNames
        BY DEF FailureSteps, StepStatuses, FailedStep, StepNames
      <4> HIDE DEF steps, step
      <4>3. UpdateLog(t, "failed", steps, step) /\ "failed" \in Statuses
        BY <3>1 DEF steps, step, Statuses
      <4>4. rows'[jobId'[t]] # NoRow /\ rows'[jobId'[t]].owner = t
            /\ rows'[jobId'[t]].status = "failed"
        BY <1>3, <3>1, <4>1, <4>2, <4>3, SettledReport
      <4>5. QED  BY <3>1, <4>4 DEF Live, ReportOf
    <3>3. Lifecycle!Fail(t)
      BY <1>1, <1>2, <2>1, <2>3, <3>1, <3>2
         DEF Lifecycle!Fail, Report, Alive, Need
    <3>4. QED  BY <3>3 DEF Lifecycle!Next
  <2>7. CASE Commit(t) \/ NothingToStore(t)
    <3>1. /\ pc[t] \in {"fetch", "hold"} /\ pc'[t] \in {"mark", "finish"}
          /\ done' = [done EXCEPT ![t] = @ + 1]
      BY <1>3, <2>7 DEF Commit, NothingToStore, Return, Goto
    <3>2. Live(t)' = TRUE /\ ReportOf(t)' = "running"
      BY <1>3, <3>1 DEF Live, LiveRow, ReportOf
    <3>3. done[t] < NeedOf(t)
      BY <1>3, <3>1 DEF Progress, NeedOf
    <3>4. ReportOf(t) = "running"
      BY <2>1, <3>1
    <3>5. Report' = Report /\ Alive' = Alive
      BY <1>1, <1>2, <2>1, <3>2, <3>4 DEF Report, Alive
    <3>6. Lifecycle!StoreStep(t)
      BY <1>2, <2>1, <2>3, <3>1, <3>3, <3>4, <3>5
         DEF Lifecycle!StoreStep, Report, Alive, Need
    <3>7. QED  BY <3>6 DEF Lifecycle!Next
  <2>8. CASE Escapes(t)
    <3>1. pc[t] # "idle" /\ pc'[t] = "died" /\ UNCHANGED <<rows, jobId, done>>
      BY <1>3, <2>8 DEF Escapes, Goto
    <3>2. Live(t)' = FALSE /\ ReportOf(t)' = ReportOf(t)
      BY <3>1 DEF Live, ReportOf
    <3>3. Report' = Report
      BY <1>1, <1>2, <3>2 DEF Report
    <3>4. Alive' = [u \in Tasks |-> Alive[u] /\ u \notin {t}]
      <4>1. \A u \in Tasks : Alive[u] \in BOOLEAN
        BY DEF Alive, Live
      <4>2. \A u \in Tasks \ {t} : Alive'[u] = Alive[u]
        BY <1>1 DEF Alive
      <4>3. Alive'[t] = FALSE
        BY <1>1, <3>2 DEF Alive
      <4>4. Alive' = [u \in Tasks |-> Alive'[u]]
        BY DEF Alive
      <4>5. \A u \in Tasks : Alive'[u] = (Alive[u] /\ u \notin {t})
        BY <4>1, <4>2, <4>3
      <4> HIDE DEF Alive
      <4>6. QED  BY <4>4, <4>5
    <3>5. Lifecycle!Abandon({t})
      <4>1. \A u \in {t} : Alive[u]
        BY <1>2, <2>1
      <4>2. QED
        BY <2>3, <3>1, <3>3, <3>4, <4>1
           DEF Lifecycle!Abandon, Report, Alive, Need
    <3>6. QED  BY <3>5 DEF Lifecycle!Next
  <2>9. CASE Fetched(t) \/ TakeLock(t) \/ Mark(t) \/ ServiceFails(t)
             \/ WaitFails(t)
    <3>1. /\ pc[t] # "scheduled"
          /\ pc'[t] \in {"fetch", "store", "hold", "report"}
          /\ done' = done
      BY <1>3, <2>9 DEF Fetched, TakeLock, Mark, ServiceFails, WaitFails,
                        Raise, Goto
    <3>2. Live(t)' = TRUE /\ ReportOf(t)' = "running"
      BY <1>3, <3>1 DEF Live, LiveRow, ReportOf
    <3>3. Report' = Report /\ Alive' = Alive
      BY <1>1, <1>2, <2>1, <3>1, <3>2 DEF Report, Alive
    <3>4. UNCHANGED Lifecycle!vars
      BY <2>3, <3>1, <3>3 DEF Lifecycle!vars, Report, Alive, Need
    <3>5. QED  BY <3>4
  <2>10. QED  BY <1>6, <2>4, <2>5, <2>6, <2>7, <2>8, <2>9 DEF TaskStep
<1>7. QED  BY <1>5, <1>6

\* A crash abandons the jobs of all live tasks.
LEMMA CrashRefines ==
    ASSUME IInv, Crash
    PROVE  [Lifecycle!Next]_(Lifecycle!vars)
<1> DEFINE S == {t \in Tasks : Live(t)}
<1>1. /\ pc \in [Tasks -> PCs] /\ S # {} /\ S \in SUBSET Tasks
      /\ UNCHANGED <<backend, rows, kind, jobId, done>>
      /\ pc' = [t \in Tasks |-> IF Live(t) THEN "lost" ELSE pc[t]]
  BY DEF IInv, TypeOK, Crash
<1>2. \A t \in Tasks : /\ ReportOf(t)' = ReportOf(t) /\ NeedOf(t)' = NeedOf(t)
                       /\ Live(t)' = FALSE
  BY <1>1 DEF ReportOf, NeedOf, Live
<1>3. Report' = Report /\ Need' = Need
  BY <1>2 DEF Report, Need
<1>4. Alive' = [t \in Tasks |-> Alive[t] /\ t \notin S]
  BY <1>2 DEF Alive
<1>5. \A t \in S : Alive[t]
  BY DEF Alive
<1> HIDE DEF S
<1>6. Lifecycle!Abandon(S)
  BY <1>1, <1>3, <1>4, <1>5 DEF Lifecycle!Abandon, Report, Alive, Need
<1>7. QED  BY <1>1, <1>6 DEF Lifecycle!Next

\* Retention forgets reports of jobs that no worker is behind, or nothing.
LEMMA CleanupRefines ==
    ASSUME IInv, NEW cut \in 1 .. MaxId + 1, NEW only \in StatusFilters,
           Cleanup(cut, only)
    PROVE  [Lifecycle!Next]_(Lifecycle!vars)
<1> DEFINE S == {t \in Tasks : ReportOf(t)' # ReportOf(t)}
<1>1. /\ rows \in [Ids -> Row \cup {NoRow}]
      /\ UNCHANGED <<backend, pc, kind, jobId, done>>
      /\ \A i \in Ids : \/ rows'[i] = rows[i]
                        \/ rows'[i] = NoRow /\ i < cut
      /\ cut \in Nat
  BY MaxIdAssumption DEF IInv, TypeOK, Cleanup, Expired
<1>2. \A t \in Tasks : NeedOf(t)' = NeedOf(t) /\ Live(t)' = Live(t)
  BY <1>1 DEF NeedOf, Live
<1>3. Alive' = Alive /\ Need' = Need
  BY <1>2 DEF Alive, Need
<1>4. ASSUME NEW t \in S
      PROVE  /\ ~Live(t) /\ ReportOf(t) \notin {"absent", "forgotten"}
             /\ ReportOf(t)' = "forgotten"
  <2>1. pc[t] # "idle" /\ jobId[t] \in Ids
    BY <1>1, <1>4 DEF ReportOf, IInv, LiveRow
  <2>2. rows'[jobId[t]] = NoRow /\ rows[jobId[t]] # NoRow /\ jobId[t] < cut
    BY <1>1, <1>4, <2>1 DEF ReportOf
  <2>3. ~Live(t)
    BY <1>1, <2>1, <2>2 DEF Cleanup, RetentionOutlivesJobs, Ids
  <2>4. rows[jobId[t]].owner = t /\ ReportOf(t)' = "forgotten"
    BY <1>1, <1>4, <2>1, <2>2 DEF ReportOf
  <2>5. ReportOf(t) = rows[jobId[t]].status
    BY <2>1, <2>2, <2>4 DEF ReportOf
  <2>6. rows[jobId[t]].status \in Statuses
    BY <1>1, <2>1, <2>2 DEF Row
  <2>7. QED  BY <2>3, <2>4, <2>5, <2>6 DEF Statuses
<1>5. Report' = [t \in Tasks |-> IF t \in S THEN "forgotten" ELSE Report[t]]
  BY <1>4 DEF Report
<1>6. \A t \in S : ~Alive[t] /\ Report[t] \notin {"absent", "forgotten"}
  BY <1>4 DEF Alive, Report
<1>7. S \in SUBSET Tasks /\ (S = {} => Report' = Report)
  BY DEF Report
<1> HIDE DEF S
<1>8. CASE S = {}
  BY <1>1, <1>3, <1>7, <1>8 DEF Lifecycle!vars, Report, Alive, Need
<1>9. CASE S # {}
  <2>1. Lifecycle!Forget(S)
    BY <1>1, <1>3, <1>5, <1>6, <1>9 DEF Lifecycle!Forget, Report, Alive, Need
  <2>2. QED  BY <1>7, <2>1 DEF Lifecycle!Next
<1>10. QED  BY <1>8, <1>9

\* The jobs keep the promise of the job API: started, stepwise stored, settled
\* once, whatever fails, crashes or is cleaned up meanwhile.
THEOREM Refinement == Spec => ImplementsLifecycle
<1>1. IInv /\ IInv' /\ [Next]_vars => [Lifecycle!Next]_(Lifecycle!vars)
  <2> SUFFICES ASSUME IInv, IInv', [Next]_vars
               PROVE  [Lifecycle!Next]_(Lifecycle!vars)
    OBVIOUS
  <2>1. CASE \E t \in Tasks : (\E k \in Kinds : Queue(t, k)) \/ TaskStep(t)
    BY <2>1, TaskRefines
  <2>2. CASE Crash
    BY <2>2, CrashRefines
  <2>3. CASE OtherTakes \/ OtherReleases \/ UNCHANGED vars
    <3>1. UNCHANGED <<backend, rows, pc, kind, jobId, done>>
      BY <2>3 DEF OtherTakes, OtherReleases, vars
    <3>2. QED  BY <3>1 DEF Lifecycle!vars, ReportOf, Live, NeedOf
  <2>4. CASE \E cut \in 1 .. MaxId + 1, only \in StatusFilters :
               Cleanup(cut, only)
    BY <2>4, CleanupRefines
  <2>5. QED  BY <2>1, <2>2, <2>3, <2>4 DEF Next
<1>2. Spec => []IInv
  BY Invariance
<1>3. QED
  BY <1>1, <1>2, InitRefines, PTL DEF Spec, ImplementsLifecycle, Lifecycle!Spec

=============================================================================
