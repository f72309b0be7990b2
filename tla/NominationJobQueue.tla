------------------------- MODULE NominationJobQueue -------------------------
(***************************************************************************)
(* The persistent queue of nomination org-checks and the workers that      *)
(* drain it.                                                               *)
(*                                                                         *)
(*   services/nominations/job-queue.repository.ts   tables and statements  *)
(*   services/nominations/job-worker.service.ts     the worker cycle       *)
(*                                                                         *)
(* A job is a request to check some handles; it has one item per handle.   *)
(* A worker process claims a job, then repeatedly claims a batch of its    *)
(* items, checks each one, and writes each outcome back; in between and at *)
(* the end it recomputes the job's progress.  One action is one committed  *)
(* statement or transaction, so other workers run between any two of them. *)
(*                                                                         *)
(* Time appears only as the age of a lock: "held" is a locked_at younger   *)
(* than staleLockMs, "stale" an older one.                                 *)
(***************************************************************************)
EXTENDS Naturals, FiniteSets

CONSTANTS
  Worker,          \* worker processes (bot instances with the loop enabled)
  Handle,          \* normalized RSI handles
  AllScope,        \* the scope of a job over all unprocessed nominations
  MaxJobs,         \* bound: jobs created in a behaviour
  BatchSize,       \* NOMINATION_WORKER_BATCH_SIZE
  MaxAttempts,     \* NOMINATION_WORKER_MAX_ATTEMPTS
  RefreshEvery,    \* progressRefreshIntervalBatches
  MaxFaults,       \* bound: crashes, failed queries and early lock expiries
  LostReplies,     \* may a statement commit although its caller sees an error?
  StaleWhileHeld   \* may a lock outlive staleLockMs while its task still runs?

ASSUME QueueAssumption ==
  /\ IsFiniteSet(Handle)
  /\ AllScope \notin Handle
  /\ MaxJobs \in Nat \ {0}
  /\ BatchSize \in Nat \ {0}
  /\ MaxAttempts \in Nat \ {0}
  /\ RefreshEvery \in Nat \ {0}
  /\ MaxFaults \in Nat
  /\ LostReplies \in BOOLEAN
  /\ StaleWhileHeld \in BOOLEAN

VARIABLES
  jobs,      \* nomination_check_jobs; job ids follow creation order
  items,     \* nomination_check_job_items, one row per (job, handle)
  tasks,     \* iteratee calls of mapWithConcurrency that have not returned
  cycle,     \* local state of each worker's runNominationCheckWorkerCycle
  faults     \* faults used up so far

vars == <<jobs, items, tasks, cycle, faults>>

Job == 1..MaxJobs
Scope == Handle \cup {AllScope}

Active == {"queued", "running"}          \* job statuses a worker may claim
Terminal == {"completed", "failed"}      \* of a job, and of an item
Open == {"pending", "running"}           \* item statuses still to be settled

JobRow == [status : {"absent"} \cup Active \cup Terminal,
           scope : Scope,
           total : Nat, completed : Nat, failed : Nat]

ItemRow == [status : {"absent"} \cup Open \cup Terminal,
            attempt : Nat,
            lock : {"none", "held", "stale"}]

Task == [worker : Worker, job : Job, handle : Handle, attempt : Nat \ {0},
         phase : {"checking", "checked", "errored"},
         awaited : BOOLEAN]   \* does the cycle's Promise.all still wait for it?

Counts == [pending : Nat, running : Nat, completed : Nat, failed : Nat]

Cycle == [pc : {"idle", "loop", "batch", "count", "store", "decide"},
          job : Job,
          batch : Nat,          \* batchNumber
          refreshed : Nat,      \* lastProgressRefreshBatchNumber
          final : BOOLEAN,      \* is this the refresh after the loop?
          counts : Counts]      \* the counts read by the refresh under way

NoCounts == [pending |-> 0, running |-> 0, completed |-> 0, failed |-> 0]
IdleCycle == [pc |-> "idle", job |-> 1, batch |-> 0, refreshed |-> 0,
              final |-> FALSE, counts |-> NoCounts]

AbsentJob == [status |-> "absent", scope |-> AllScope,
              total |-> 0, completed |-> 0, failed |-> 0]
AbsentItem == [status |-> "absent", attempt |-> 0, lock |-> "none"]

TypeOK ==
  /\ jobs \in [Job -> JobRow]
  /\ items \in [Job -> [Handle -> ItemRow]]
  /\ tasks \subseteq Task
  /\ cycle \in [Worker -> Cycle]
  /\ faults \in 0..MaxFaults

Init ==
  /\ jobs = [j \in Job |-> AbsentJob]
  /\ items = [j \in Job |-> [h \in Handle |-> AbsentItem]]
  /\ tasks = {}
  /\ cycle = [w \in Worker |-> IdleCycle]
  /\ faults = 0

-----------------------------------------------------------------------------
(* State functions *)

WithStatus(j, S) == {h \in Handle : items[j][h].status \in S}

\* The row a claim writes: claiming and counting the attempt are one UPDATE.
RowCountedOnce(j, h) ==
  [status |-> "running", lock |-> "held",
   attempt |-> IF items[j][h].status = "running" THEN items[j][h].attempt
                                                 ELSE items[j][h].attempt + 1]
ClaimedRow(j, h) ==
  [status |-> "running", lock |-> "held", attempt |-> items[j][h].attempt + 1]

\* An item a batch may take: still open, and unlocked or with a stale lock.
ClaimableIgnoringLock(j, h) == items[j][h].status \in Open
Claimable(j, h) ==
  /\ items[j][h].status \in Open
  /\ items[j][h].lock # "held"

ClaimableItems(j) == {h \in Handle : Claimable(j, h)}

\* A job a cycle may take: queued, with claimable items, or running although
\* nothing is left to do (its progress has to be recomputed).
RunnableAtAnyStatus(j) ==
  \/ jobs[j].status = "queued"
  \/ jobs[j].status # "absent" /\ (ClaimableItems(j) # {} \/ WithStatus(j, Open) = {})
RunnableWhenClaimable(j) ==
  /\ jobs[j].status \in Active
  /\ \/ jobs[j].status = "queued"
     \/ ClaimableItems(j) # {}
Runnable(j) ==
  /\ jobs[j].status \in Active
  /\ \/ jobs[j].status = "queued"
     \/ ClaimableItems(j) # {}
     \/ WithStatus(j, Open) = {}

\* maxBatches = ceil(total / batchSize) * maxAttempts + 2
MaxBatches(j) ==
  ((jobs[j].total + BatchSize - 1) \div BatchSize) * MaxAttempts + 2

Awaited(w) == {t \in tasks : t.worker = w /\ t.awaited}

\* The task that works under the item's current lock, if it is still there.
Owned(j, h) ==
  \E t \in tasks : t.job = j /\ t.handle = h /\ t.attempt = items[j][h].attempt

\* The status refreshNominationCheckJobProgress derives from its counts.
StatusOfPendingOnly(c) ==
  IF c.pending > 0 THEN "running"
  ELSE IF c.failed > 0 THEN "failed" ELSE "completed"
StatusOf(c) ==
  IF c.pending > 0 \/ c.running > 0 THEN "running"
  ELSE IF c.failed > 0 THEN "failed" ELSE "completed"

CountsOf(j) == [pending |-> Cardinality(WithStatus(j, {"pending"})),
                running |-> Cardinality(WithStatus(j, {"running"})),
                completed |-> Cardinality(WithStatus(j, {"completed"})),
                failed |-> Cardinality(WithStatus(j, {"failed"}))]

Fault == faults < MaxFaults /\ faults' = faults + 1

-----------------------------------------------------------------------------
(* enqueueNominationCheckJob.  The advisory lock makes the look-up and the *)
(* insert one step for a scope.  When a job of the scope is still active   *)
(* the call returns it and changes nothing.                                *)

QueuedJobsOf(scope) == {j \in Job : jobs[j].status = "queued" /\ jobs[j].scope = scope}
ActiveJobsOf(scope) == {j \in Job : jobs[j].status \in Active /\ jobs[j].scope = scope}

NewItems(hs) ==
  [h \in Handle |-> IF h \in hs
                      THEN [status |-> "pending", attempt |-> 0, lock |-> "none"]
                      ELSE AbsentItem]

Enqueue(scope, hs) ==
  /\ hs # {}
  /\ ActiveJobsOf(scope) = {}
  /\ \E j \in Job :
       /\ jobs[j].status = "absent"
       /\ \A i \in Job : i < j => jobs[i].status # "absent"
       /\ jobs' = [jobs EXCEPT ![j] =
            [status |-> "queued", scope |-> scope, total |-> Cardinality(hs),
             completed |-> 0, failed |-> 0]]
       /\ items' = [items EXCEPT ![j] = NewItems(hs)]
  /\ UNCHANGED <<tasks, cycle, faults>>

\* /nominate-player, and /nomination-refresh for one handle
EnqueueSingle(h) == Enqueue(h, {h})

\* /nomination-refresh without a handle: all nominations unprocessed by then
EnqueueAll(hs) == Enqueue(AllScope, hs)

-----------------------------------------------------------------------------
(* The worker cycle.  The running flag of startNominationCheckWorkerLoop   *)
(* keeps a process at one cycle at a time: a new one starts from "idle".   *)

\* Another worker's open transaction holds the job's row, so SKIP LOCKED
\* passes it over.
RowLocked(w, j) ==
  \E v \in Worker \ {w} : \/ cycle[v].pc = "idle"
                          \/ cycle[v].pc = "store" /\ cycle[v].job = j

ClaimJob(w, j) ==
  /\ cycle[w].pc = "idle"
  /\ Runnable(j)
  /\ \A i \in Job : i < j /\ Runnable(i) => RowLocked(w, i)
  /\ jobs' = [jobs EXCEPT ![j].status = "running"]
  /\ cycle' = [cycle EXCEPT ![w] = [IdleCycle EXCEPT !.pc = "loop", !.job = j]]
  /\ UNCHANGED <<items, tasks, faults>>

\* The poll finds no runnable job and the cycle returns false.
PollFindsNothing(w) ==
  /\ cycle[w].pc = "idle"
  /\ \A j \in Job : ~Runnable(j)
  /\ UNCHANGED vars

NewTask(w, j, h) ==
  [worker |-> w, job |-> j, handle |-> h, attempt |-> ClaimedRow(j, h).attempt,
   phase |-> "checking", awaited |-> TRUE]

\* The CTE orders by updated_at; which claimable rows come first is left open.
ClaimItems(w, S) ==
  LET j == cycle[w].job
  IN  /\ cycle[w].pc = "loop"
      /\ cycle[w].batch < MaxBatches(j)
      /\ S # {} /\ S \subseteq ClaimableItems(j)
      /\ \/ Cardinality(S) = BatchSize
         \/ Cardinality(S) < BatchSize /\ S = ClaimableItems(j)
      /\ items' = [items EXCEPT ![j] = [h \in Handle |->
            IF h \in S THEN ClaimedRow(j, h) ELSE items[j][h]]]
      /\ tasks' = tasks \cup {NewTask(w, j, h) : h \in S}
      /\ cycle' = [cycle EXCEPT ![w].pc = "batch", ![w].batch = @ + 1]
      /\ UNCHANGED <<jobs, faults>>

\* The loop ends at the cap, or with a claim that returns nothing.  Progress is
\* refreshed once more unless the last refresh was for this batch number.
LeaveLoop(w) ==
  LET capped == cycle[w].batch >= MaxBatches(cycle[w].job)
      last == IF capped THEN cycle[w].batch ELSE cycle[w].batch + 1
  IN  /\ cycle[w].pc = "loop"
      /\ capped \/ ClaimableItems(cycle[w].job) = {}
      /\ cycle' = [cycle EXCEPT ![w] =
            IF last > 0 /\ cycle[w].refreshed = last
              THEN IdleCycle
              ELSE [@ EXCEPT !.pc = "count", !.batch = last, !.final = TRUE]]
      /\ UNCHANGED <<jobs, items, tasks, faults>>

\* Promise.all of the batch has resolved.
FinishBatch(w) ==
  /\ cycle[w].pc = "batch"
  /\ Awaited(w) = {}
  /\ cycle' = [cycle EXCEPT ![w].pc =
        IF cycle[w].batch % RefreshEvery = 0 THEN "count" ELSE "loop"]
  /\ UNCHANGED <<jobs, items, tasks, faults>>

\* refreshNominationCheckJobProgress: the SELECT of the counts ...
CountProgress(w) ==
  /\ cycle[w].pc = "count"
  /\ cycle' = [cycle EXCEPT ![w].pc = "store", ![w].counts = CountsOf(cycle[w].job)]
  /\ UNCHANGED <<jobs, items, tasks, faults>>

\* ... and the UPDATE of the job with what was counted then.
StoreProgress(w) ==
  LET c == cycle[w].counts
  IN  /\ cycle[w].pc = "store"
      /\ jobs' = [jobs EXCEPT ![cycle[w].job] =
            [@ EXCEPT !.status = StatusOf(c), !.completed = c.completed,
                      !.failed = c.failed]]
      /\ cycle' = [cycle EXCEPT ![w] =
            IF cycle[w].final
              THEN IdleCycle
              ELSE [@ EXCEPT !.pc = "decide", !.refreshed = cycle[w].batch]]
      /\ UNCHANGED <<items, tasks, faults>>

\* The job is read back; a terminal status ends the loop.
DecideAfterRefresh(w) ==
  /\ cycle[w].pc = "decide"
  /\ cycle' = [cycle EXCEPT ![w] =
        IF jobs[cycle[w].job].status \in Terminal
          THEN IdleCycle ELSE [@ EXCEPT !.pc = "loop"]]
  /\ UNCHANGED <<jobs, items, tasks, faults>>

-----------------------------------------------------------------------------
(* One item of a batch: check, write the result, settle the row.  The      *)
(* statements of complete, requeue and fail name the row by its id alone.  *)

Settle(t, status) ==
  items' = [items EXCEPT ![t.job][t.handle] =
              [@ EXCEPT !.status = status, !.lock = "none"]]

Move(t, phase) == tasks' = (tasks \ {t}) \cup {[t EXCEPT !.phase = phase]}

\* The org check returns a result and updateOrgCheckResult commits.
CheckReturns(t) ==
  /\ t.phase = "checking"
  /\ Move(t, "checked")
  /\ UNCHANGED <<jobs, items, cycle, faults>>

\* The check, or the write of its result, throws.
CheckThrows(t) ==
  /\ t.phase = "checking"
  /\ Move(t, "errored")
  /\ UNCHANGED <<jobs, items, cycle, faults>>

Complete(t) ==
  /\ t.phase = "checked"
  /\ Settle(t, "completed")
  /\ tasks' = tasks \ {t}
  /\ UNCHANGED <<jobs, cycle, faults>>

\* complete throws inside the try: the same catch gives the item back.
CompleteThrows(t) ==
  /\ t.phase = "checked"
  /\ Fault
  /\ Move(t, "errored")
  /\ \/ UNCHANGED items
     \/ LostReplies /\ Settle(t, "completed")
  /\ UNCHANGED <<jobs, cycle>>

\* requeue, or fail once the attempts are exhausted
RefusedOneEarly(t) == IF t.attempt + 1 >= MaxAttempts THEN "failed" ELSE "pending"
RefusedStatus(t) == IF t.attempt >= MaxAttempts THEN "failed" ELSE "pending"

GiveBack(t) ==
  /\ t.phase = "errored"
  /\ Settle(t, RefusedStatus(t))
  /\ tasks' = tasks \ {t}
  /\ UNCHANGED <<jobs, cycle, faults>>

Orphaned(w, u) == IF u.worker = w THEN [u EXCEPT !.awaited = FALSE] ELSE u

\* requeue or fail throws: Promise.all rejects and the cycle ends, but the
\* other calls of the batch keep running with nobody waiting for them.
GiveBackThrows(t) ==
  /\ t.phase = "errored"
  /\ Fault
  /\ \/ UNCHANGED items
     \/ LostReplies /\ Settle(t, RefusedStatus(t))
  /\ IF t.awaited
       THEN /\ tasks' = {Orphaned(t.worker, u) : u \in tasks \ {t}}
            /\ cycle' = [cycle EXCEPT ![t.worker] = IdleCycle]
       ELSE /\ tasks' = tasks \ {t}
            /\ UNCHANGED cycle
  /\ UNCHANGED jobs

-----------------------------------------------------------------------------
(* Failures and time *)

\* A query of the cycle itself throws: runCycleSafely logs and ends the cycle.
QueryThrows(w) ==
  /\ cycle[w].pc \in {"loop", "count", "store", "decide"}
  /\ Fault
  /\ cycle' = [cycle EXCEPT ![w] = IdleCycle]
  /\ UNCHANGED <<jobs, items, tasks>>

\* The process dies with all its calls and comes back idle.
Crash(w) ==
  /\ cycle[w].pc # "idle" \/ \E t \in tasks : t.worker = w
  /\ Fault
  /\ tasks' = {t \in tasks : t.worker # w}
  /\ cycle' = [cycle EXCEPT ![w] = IdleCycle]
  /\ UNCHANGED <<jobs, items>>

Expire(j, h) ==
  /\ items[j][h].lock = "held"
  /\ items' = [items EXCEPT ![j][h].lock = "stale"]
  /\ UNCHANGED <<jobs, tasks, cycle>>

\* staleLockMs pass over a lock whose task is gone ...
AbandonedLockExpires(j, h) ==
  /\ ~Owned(j, h)
  /\ Expire(j, h)
  /\ UNCHANGED faults

\* ... or over one whose task is slower than that.
HeldLockExpires(j, h) ==
  /\ StaleWhileHeld
  /\ Owned(j, h)
  /\ Expire(j, h)
  /\ Fault

-----------------------------------------------------------------------------
(* Specification *)

CycleStep(w) ==
  \/ \E j \in Job : ClaimJob(w, j)
  \/ \E S \in SUBSET Handle : ClaimItems(w, S)
  \/ LeaveLoop(w)
  \/ FinishBatch(w)
  \/ CountProgress(w)
  \/ StoreProgress(w)
  \/ DecideAfterRefresh(w)

TaskStep(t) == CheckReturns(t) \/ CheckThrows(t) \/ Complete(t) \/ GiveBack(t)

TaskFault(t) == CompleteThrows(t) \/ GiveBackThrows(t)

Next ==
  \/ \E h \in Handle : EnqueueSingle(h)
  \/ \E hs \in SUBSET Handle : EnqueueAll(hs)
  \/ \E w \in Worker : CycleStep(w)
  \/ \E w \in Worker : PollFindsNothing(w)
  \/ \E t \in tasks : TaskStep(t)
  \/ \E t \in tasks : TaskFault(t)
  \/ \E w \in Worker : QueryThrows(w)
  \/ \E w \in Worker : Crash(w)
  \/ \E j \in Job, h \in Handle : AbandonedLockExpires(j, h)
  \/ \E j \in Job, h \in Handle : HeldLockExpires(j, h)

Spec == Init /\ [][Next]_vars

(***************************************************************************)
(* setInterval polls for ever, every await of a cycle or of a task settles *)
(* (HTTP and statement time-outs), and the clock runs.  No request and no  *)
(* fault is ever owed.                                                     *)
(***************************************************************************)
Fairness ==
  /\ \A w \in Worker : WF_vars(CycleStep(w))
  /\ \A w \in Worker : WF_vars(\E t \in tasks : t.worker = w /\ TaskStep(t))
  /\ \A j \in Job, h \in Handle : WF_vars(AbandonedLockExpires(j, h))

FairSpec == Spec /\ Fairness

-----------------------------------------------------------------------------
(* Properties *)

\* An item is checked by at most one task at a time, over all workers and over
\* the calls an aborted cycle left behind: the row lock written by
\* claimNominationCheckJobItems is a mutual exclusion as long as no lock goes
\* stale under a live task.
ExclusiveClaims ==
  \A t, u \in tasks : t.job = u.job /\ t.handle = u.handle => t = u

\* Whatever is lost or late, two tasks on one item work under different attempt
\* numbers, and the newest lock belongs to the highest one: claiming and counting
\* the attempt are one statement.
AttemptsTellTasksApart ==
  \A t \in tasks :
    /\ t.attempt <= items[t.job][t.handle].attempt
    /\ \A u \in tasks :
         t.job = u.job /\ t.handle = u.handle /\ t.attempt = u.attempt => t = u

\* Nobody gives up early: whatever crashes, zombies or lost replies there are,
\* an item is marked failed only when its row has used up the attempts.
NoEarlyFailure ==
  \A j \in Job, h \in Handle :
    items[j][h].status = "failed" => items[j][h].attempt >= MaxAttempts

\* The progress a finished job shows is the truth about its items: none is left
\* open (nothing would ever claim it), both counts are exact, and the job
\* failed exactly when an item did: as long as no lock goes stale under a live
\* task and no reply is lost, although a refresh counts in one statement and
\* stores in another, with calls of an aborted cycle settling items in between.
FinishedJobIsSettled ==
  \A j \in Job : jobs[j].status \in Terminal =>
    /\ WithStatus(j, Open) = {}
    /\ jobs[j].completed = Cardinality(WithStatus(j, {"completed"}))
    /\ jobs[j].failed = Cardinality(WithStatus(j, {"failed"}))
    /\ jobs[j].completed + jobs[j].failed = jobs[j].total
    /\ jobs[j].status = "failed" <=> WithStatus(j, {"failed"}) # {}

\* The existence check of enqueue holds for the life of the job: a scope never
\* has two active jobs, so no handle set is queued twice.
OneActiveJobPerScope ==
  \A i, j \in Job : /\ {jobs[i].status, jobs[j].status} \subseteq Active
                    /\ jobs[i].scope = jobs[j].scope
                    => i = j

\* An outcome once written stays, although complete, requeue and fail address the
\* row by id alone and calls of an aborted cycle may come late: as long as no lock
\* goes stale under a live task and no reply is lost.  Otherwise an item can have
\* two tasks, or be requeued by the task that completed it, and a late call does
\* rewrite its outcome.
SettledItemsAreFinal ==
  [][\A j \in Job, h \in Handle :
       items[j][h].status \in Terminal => items'[j][h] = items[j][h]]_vars

\* A job reported completed or failed is never reopened or recounted.  Only with
\* a single worker: the UPDATE of a refresh does not look at the status it
\* overwrites.
FinishedJobsAreFinal ==
  [][\A j \in Job : jobs[j].status \in Terminal => jobs'[j] = jobs[j]]_vars

\* Every job that was accepted is eventually reported completed or failed, in
\* spite of crashes, failed queries and aborted cycles.
JobsFinish ==
  \A j \in Job : jobs[j].status \in Active ~> jobs[j].status \in Terminal
=============================================================================
