---------------------- MODULE NominationJobQueueProofs ----------------------
(***************************************************************************)
(* What holds of the nomination job queue for any number of workers,       *)
(* handles, jobs, attempts and faults:                                     *)
(*   - a task and its row belong together (IInv), hence attempts, failures *)
(*     and settled rows are as they should be;                             *)
(*   - a finished job is settled and shows the truth (JobsInv);            *)
(* and for one worker: a scope has one active job, and a finished job      *)
(* stays finished (CyclesRun).                                             *)
(***************************************************************************)
EXTENDS NominationJobQueue, FiniteSetTheorems, TLAPS

-----------------------------------------------------------------------------
(* Type correctness *)

\* A part of the handles is no larger than all of them.
LEMMA SubsetCardinality ==
  ASSUME NEW S \in SUBSET Handle
  PROVE  Cardinality(S) \in Nat
BY QueueAssumption, FS_Subset, FS_CardinalityType

\* What a refresh counts fits in the job row.
LEMMA CountsType ==
  ASSUME NEW j \in Job
  PROVE  CountsOf(j) \in Counts
<1>1. \A S : Cardinality(WithStatus(j, S)) \in Nat
  <2> TAKE S
  <2>1. WithStatus(j, S) \in SUBSET Handle
    BY DEF WithStatus
  <2> QED BY <2>1, SubsetCardinality
<1> QED BY <1>1 DEF CountsOf, Counts

\* requeue and fail leave a proper status.
LEMMA RefusedType ==
  ASSUME NEW t
  PROVE  RefusedStatus(t) \in {"pending", "failed"}
BY DEF RefusedStatus

\* Settling a row, and moving a task on, keep the types.
LEMMA SettleType ==
  ASSUME TypeOK, NEW t \in Task, NEW s \in Open \cup Terminal, Settle(t, s)
  PROVE  items' \in [Job -> [Handle -> ItemRow]]
<1> DEFINE row == [items[t.job][t.handle] EXCEPT !.status = s, !.lock = "none"]
<1>1. t.job \in Job /\ t.handle \in Handle
  BY DEF Task
<1>2. items[t.job][t.handle] \in ItemRow
  BY <1>1 DEF TypeOK
<1>3. row \in ItemRow
  BY <1>2 DEF ItemRow, Open, Terminal
<1>4. items' = [items EXCEPT ![t.job][t.handle] = row]
  BY DEF Settle
<1> QED BY <1>1, <1>3, <1>4 DEF TypeOK

\* A cycle that moves on keeps its type.
LEMMA MoveType ==
  ASSUME TypeOK, NEW t \in tasks, NEW p \in {"checking", "checked", "errored"},
         Move(t, p)
  PROVE  tasks' \subseteq Task
BY DEF TypeOK, Move, Task

\* A cycle that has ended is a cycle.
LEMMA IdleType == IdleCycle \in Cycle
<1>1. 1 \in Job
  BY QueueAssumption DEF Job
<1> QED BY <1>1 DEF IdleCycle, Cycle, NoCounts, Counts

\* TypeOK holds of the empty tables.
LEMMA InitType == Init => TypeOK
<1> SUFFICES ASSUME Init PROVE TypeOK
  OBVIOUS
<1>1. AbsentJob \in JobRow
  BY DEF AbsentJob, JobRow, Scope
<1>2. AbsentItem \in ItemRow
  BY DEF AbsentItem, ItemRow
<1>3. faults \in 0..MaxFaults
  BY QueueAssumption DEF Init
<1> QED BY <1>1, <1>2, <1>3, IdleType DEF Init, TypeOK

\* A fault stays within the bound.
LEMMA FaultType ==
  ASSUME TypeOK, Fault
  PROVE  faults' \in 0..MaxFaults
BY QueueAssumption DEF TypeOK, Fault

\* Every step keeps TypeOK.
LEMMA NextType == TypeOK /\ [Next]_vars => TypeOK'
<1> SUFFICES ASSUME TypeOK, [Next]_vars PROVE TypeOK'
  OBVIOUS
<1>1. ASSUME NEW sc \in Scope, NEW hs \in SUBSET Handle, Enqueue(sc, hs) PROVE TypeOK'
  <2>1. PICK j \in Job :
          /\ jobs' = [jobs EXCEPT ![j] =
               [status |-> "queued", scope |-> sc, total |-> Cardinality(hs),
                completed |-> 0, failed |-> 0]]
          /\ items' = [items EXCEPT ![j] = NewItems(hs)]
    BY <1>1 DEF Enqueue
  <2>2. jobs' \in [Job -> JobRow]
    BY <2>1, SubsetCardinality DEF TypeOK, JobRow, Active
  <2>3. NewItems(hs) \in [Handle -> ItemRow]
    BY DEF NewItems, AbsentItem, ItemRow, Open
  <2> QED BY <1>1, <2>1, <2>2, <2>3 DEF TypeOK, Enqueue
<1>2. ASSUME NEW w \in Worker, NEW j \in Job, ClaimJob(w, j) PROVE TypeOK'
  <2>1. [IdleCycle EXCEPT !.pc = "loop", !.job = j] \in Cycle
    BY IdleType DEF IdleCycle, Cycle
  <2>2. jobs' \in [Job -> JobRow]
    BY <1>2 DEF ClaimJob, TypeOK, JobRow, Active
  <2> QED BY <1>2, <2>1, <2>2 DEF ClaimJob, TypeOK
<1>3. ASSUME NEW w \in Worker, NEW S \in SUBSET Handle, ClaimItems(w, S) PROVE TypeOK'
  <2> DEFINE j == cycle[w].job
  <2>1. j \in Job
    BY DEF TypeOK, Cycle
  <2>2. \A h \in Handle : ClaimedRow(j, h) \in ItemRow /\ NewTask(w, j, h) \in Task
    BY <2>1 DEF TypeOK, ClaimedRow, NewTask, ItemRow, Task, Open
  <2>3. cycle' \in [Worker -> Cycle]
    BY SMTT(60), <1>3 DEF ClaimItems, TypeOK, Cycle
  <2>4. items' \in [Job -> [Handle -> ItemRow]]
    BY <1>3, <2>1, <2>2 DEF ClaimItems, TypeOK
  <2>5. tasks' \subseteq Task
    BY <1>3, <2>2 DEF ClaimItems, TypeOK
  <2> QED BY <1>3, <2>3, <2>4, <2>5 DEF ClaimItems, TypeOK
<1>4. ASSUME NEW w \in Worker, LeaveLoop(w) PROVE TypeOK'
  <2> DEFINE last == IF cycle[w].batch >= MaxBatches(cycle[w].job)
                      THEN cycle[w].batch ELSE cycle[w].batch + 1
             left == [cycle[w] EXCEPT !.pc = "count", !.batch = last, !.final = TRUE]
  <2>1. last \in Nat
    BY DEF TypeOK, Cycle
  <2>2. left \in Cycle
    <3> HIDE DEF last
    <3> QED BY <2>1 DEF TypeOK, Cycle
  <2>3. cycle' \in [Worker -> Cycle]
    <3>1. cycle' = [cycle EXCEPT ![w] = IdleCycle] \/ cycle' = [cycle EXCEPT ![w] = left]
      BY <1>4 DEF LeaveLoop
    <3> QED BY <2>2, <3>1, IdleType DEF TypeOK
  <2> QED BY <1>4, <2>3 DEF LeaveLoop, TypeOK
<1>5. ASSUME NEW w \in Worker, FinishBatch(w) PROVE TypeOK'
  BY <1>5 DEF FinishBatch, TypeOK, Cycle
<1>6. ASSUME NEW w \in Worker, CountProgress(w) PROVE TypeOK'
  <2>1. CountsOf(cycle[w].job) \in Counts
    BY CountsType DEF TypeOK, Cycle
  <2> QED BY ZenonT(60), <1>6, <2>1 DEF CountProgress, TypeOK, Cycle
<1>7. ASSUME NEW w \in Worker, StoreProgress(w) PROVE TypeOK'
  <2>1. cycle[w].counts \in Counts /\ cycle[w].job \in Job /\ cycle[w].batch \in Nat
    BY DEF TypeOK, Cycle
  <2>2. StatusOf(cycle[w].counts) \in Active \cup Terminal
    BY DEF StatusOf, Active, Terminal
  <2>3. jobs' \in [Job -> JobRow]
    BY <1>7, <2>1, <2>2 DEF StoreProgress, TypeOK, JobRow, Counts
  <2>4. cycle' \in [Worker -> Cycle]
    BY <1>7, <2>1, IdleType DEF StoreProgress, TypeOK, Cycle
  <2> QED BY <1>7, <2>3, <2>4 DEF StoreProgress, TypeOK
<1>8. ASSUME NEW w \in Worker, DecideAfterRefresh(w) PROVE TypeOK'
  BY <1>8, IdleType DEF DecideAfterRefresh, TypeOK, Cycle
<1>9. ASSUME NEW t \in tasks, CheckReturns(t) \/ CheckThrows(t) PROVE TypeOK'
  BY <1>9, MoveType DEF CheckReturns, CheckThrows, TypeOK
<1>10. ASSUME NEW t \in tasks, Complete(t) PROVE TypeOK'
  <2>1. t \in Task
    BY DEF TypeOK
  <2> QED BY <1>10, <2>1, SettleType DEF Complete, TypeOK, Terminal
<1>11. ASSUME NEW t \in tasks, GiveBack(t) PROVE TypeOK'
  <2>1. t \in Task
    BY DEF TypeOK
  <2>2. RefusedStatus(t) \in Open \cup Terminal
    BY RefusedType DEF Open, Terminal
  <2> QED BY <1>11, <2>1, <2>2, SettleType DEF GiveBack, TypeOK
<1>12. ASSUME NEW t \in tasks, CompleteThrows(t) PROVE TypeOK'
  <2>1. t \in Task
    BY DEF TypeOK
  <2>2. items' \in [Job -> [Handle -> ItemRow]]
    BY <1>12, <2>1, SettleType DEF CompleteThrows, TypeOK, Terminal
  <2>3. tasks' \subseteq Task
    BY <1>12, MoveType DEF CompleteThrows
  <2> QED BY <1>12, <2>2, <2>3, FaultType DEF CompleteThrows, TypeOK
<1>13. ASSUME NEW t \in tasks, GiveBackThrows(t) PROVE TypeOK'
  <2>1. t \in Task
    BY DEF TypeOK
  <2>2. RefusedStatus(t) \in Open \cup Terminal
    BY RefusedType DEF Open, Terminal
  <2>3. items' \in [Job -> [Handle -> ItemRow]]
    BY <1>13, <2>1, <2>2, SettleType DEF GiveBackThrows, TypeOK
  <2>4. tasks' \subseteq Task
    <3>1. \A u \in tasks : u \in Task /\ Orphaned(t.worker, u) \in Task
      BY DEF TypeOK, Task, Orphaned
    <3> QED BY <1>13, <3>1 DEF GiveBackThrows
  <2>5. cycle' \in [Worker -> Cycle]
    BY <1>13, IdleType DEF GiveBackThrows, TypeOK
  <2> QED BY <1>13, <2>3, <2>4, <2>5, FaultType DEF GiveBackThrows, TypeOK
<1>14. ASSUME NEW w \in Worker, QueryThrows(w) PROVE TypeOK'
  BY <1>14, IdleType, FaultType DEF QueryThrows, TypeOK
<1>15. ASSUME NEW w \in Worker, Crash(w) PROVE TypeOK'
  <2>1. faults' \in 0..MaxFaults
    BY <1>15, FaultType DEF Crash
  <2>2. tasks' \subseteq Task /\ cycle' \in [Worker -> Cycle]
    BY <1>15, IdleType DEF Crash, TypeOK
  <2> QED BY <1>15, <2>1, <2>2 DEF Crash, TypeOK
<1>16. ASSUME NEW j \in Job, NEW h \in Handle, Expire(j, h) PROVE items' \in [Job -> [Handle -> ItemRow]]
  <2>1. items[j][h] \in ItemRow
    BY DEF TypeOK
  <2>2. [items[j][h] EXCEPT !.lock = "stale"] \in ItemRow
    BY <2>1 DEF ItemRow
  <2>3. items' = [items EXCEPT ![j][h] = [items[j][h] EXCEPT !.lock = "stale"]]
    BY <1>16 DEF Expire
  <2> QED BY <2>2, <2>3 DEF TypeOK
<1>17. ASSUME NEW j \in Job, NEW h \in Handle, AbandonedLockExpires(j, h) PROVE TypeOK'
  BY <1>16, <1>17 DEF AbandonedLockExpires, Expire, TypeOK
<1>18. ASSUME NEW j \in Job, NEW h \in Handle, HeldLockExpires(j, h) PROVE TypeOK'
  BY <1>16, <1>18, FaultType DEF HeldLockExpires, Expire, TypeOK
<1>19. CASE UNCHANGED vars
  BY <1>19 DEF TypeOK, vars
<1>20. ASSUME NEW h \in Handle, EnqueueSingle(h) PROVE TypeOK'
  BY <1>1, <1>20 DEF EnqueueSingle, Scope
<1>21. ASSUME NEW hs \in SUBSET Handle, EnqueueAll(hs) PROVE TypeOK'
  BY <1>1, <1>21 DEF EnqueueAll, Scope
<1> QED
  BY <1>2, <1>3, <1>4, <1>5, <1>6, <1>7, <1>8, <1>9, <1>10, <1>11, <1>12, <1>13,
     <1>14, <1>15, <1>17, <1>18, <1>19, <1>20, <1>21
  DEF Next, CycleStep, TaskStep, TaskFault, PollFindsNothing

-----------------------------------------------------------------------------
(***************************************************************************)
(* The inductive invariant.  A claim is one UPDATE that counts the attempt *)
(* and takes the lock, so (job, handle, attempt) names a task among all    *)
(* that ever worked on the row; and as long as no lock goes stale under a  *)
(* live task, the row of a live task is locked, hence not claimable.       *)
(***************************************************************************)

\* Only running rows are locked: settling a row also unlocks it.
LockedRowsRun ==
  \A j \in Job, h \in Handle : items[j][h].lock # "none" => items[j][h].status = "running"

\* Rows are inserted with their job.
AbsentJobsHaveNoRows ==
  \A j \in Job : jobs[j].status = "absent" => \A h \in Handle : items[j][h] = AbsentItem

\* A live task still holds its row, or has completed it without knowing.
TasksHoldTheirRows ==
  ~StaleWhileHeld =>
    \A t \in tasks :
      /\ items[t.job][t.handle].attempt = t.attempt
      /\ \/ items[t.job][t.handle].lock = "held"
         \/ LostReplies /\ items[t.job][t.handle].status = "completed"

IInv ==
  /\ TypeOK
  /\ AttemptsTellTasksApart
  /\ NoEarlyFailure
  /\ LockedRowsRun
  /\ AbsentJobsHaveNoRows
  /\ TasksHoldTheirRows

\* The conjuncts that speak of rows and tasks.
RowInv ==
  AttemptsTellTasksApart /\ NoEarlyFailure /\ LockedRowsRun /\ TasksHoldTheirRows

SameClaim(t, u) == t.job = u.job /\ t.handle = u.handle /\ t.attempt = u.attempt

\* Each task of the next state works under the claim of a task of this one, and
\* no two under the same.
NoNewClaims ==
  /\ \A u \in tasks' : \E t \in tasks : SameClaim(t, u)
  /\ \A u, v \in tasks' : SameClaim(u, v) => u = v

\* The inductive invariant holds of the empty tables.
LEMMA InitIInv == Init => IInv
<1> SUFFICES ASSUME Init PROVE IInv
  OBVIOUS
<1> USE DEF Init
<1>1. AttemptsTellTasksApart /\ TasksHoldTheirRows
  BY DEF AttemptsTellTasksApart, TasksHoldTheirRows
<1>2. NoEarlyFailure /\ LockedRowsRun /\ AbsentJobsHaveNoRows
  BY DEF NoEarlyFailure, LockedRowsRun, AbsentJobsHaveNoRows, AbsentItem, AbsentJob
<1> QED BY <1>1, <1>2, InitType DEF IInv

\* Tasks that move on, or end, without touching a row.
LEMMA TasksMoveOn ==
  ASSUME IInv, UNCHANGED items, NoNewClaims
  PROVE  RowInv'
<1> USE DEF IInv
<1>1. AttemptsTellTasksApart'
  BY DEF AttemptsTellTasksApart, NoNewClaims, SameClaim
<1>2. NoEarlyFailure' /\ LockedRowsRun'
  BY DEF NoEarlyFailure, LockedRowsRun
<1>3. TasksHoldTheirRows'
  BY DEF TasksHoldTheirRows, NoNewClaims, SameClaim
<1> QED BY <1>1, <1>2, <1>3 DEF RowInv

\* A task settles its row and ends, or does not learn that it completed it.
LEMMA RowSettled ==
  ASSUME IInv, NoNewClaims,
         NEW t \in tasks, NEW s \in {"pending", "completed", "failed"}, Settle(t, s),
         s = "failed" => t.attempt >= MaxAttempts,
         \/ \A u \in tasks' : ~SameClaim(t, u)
         \/ LostReplies /\ s = "completed"
  PROVE  RowInv'
<1> USE DEF IInv
<1> DEFINE j == t.job
           h == t.handle
<1>1. j \in Job /\ h \in Handle /\ t.attempt \in Nat \ {0}
  BY DEF TypeOK, Task
<1>2. items[j][h] \in ItemRow
  BY <1>1 DEF TypeOK
<1>3. /\ items'[j][h].status = s
      /\ items'[j][h].lock = "none"
      /\ items'[j][h].attempt = items[j][h].attempt
  BY <1>1, <1>2 DEF Settle, TypeOK, ItemRow
<1>4. \A i \in Job, k \in Handle :
        items'[i][k] = items[i][k] \/ (i = j /\ k = h)
  BY <1>1 DEF Settle, TypeOK
<1>5. \A i \in Job, k \in Handle : items'[i][k].attempt = items[i][k].attempt
  BY <1>3, <1>4
<1>6. \A u \in tasks' : u.job \in Job /\ u.handle \in Handle
  BY DEF NoNewClaims, SameClaim, TypeOK, Task
<1>7. AttemptsTellTasksApart'
  BY <1>5, <1>6 DEF AttemptsTellTasksApart, NoNewClaims, SameClaim
<1>8. t.attempt <= items[j][h].attempt
  BY DEF AttemptsTellTasksApart
<1>9. NoEarlyFailure'
  <2>1. s = "failed" => items'[j][h].attempt >= MaxAttempts
    BY <1>1, <1>2, <1>3, <1>8, QueueAssumption DEF ItemRow
  <2> QED BY <1>3, <1>4, <2>1 DEF NoEarlyFailure
<1>10. LockedRowsRun'
  BY <1>3, <1>4 DEF LockedRowsRun
<1>11. TasksHoldTheirRows'
  <2> SUFFICES ASSUME ~StaleWhileHeld, NEW u \in tasks'
               PROVE  /\ items'[u.job][u.handle].attempt = u.attempt
                      /\ \/ items'[u.job][u.handle].lock = "held"
                         \/ LostReplies /\ items'[u.job][u.handle].status = "completed"
    BY DEF TasksHoldTheirRows
  <2>1. PICK v \in tasks : SameClaim(v, u)
    BY DEF NoNewClaims
  <2>2. /\ items[v.job][v.handle].attempt = v.attempt
        /\ \/ items[v.job][v.handle].lock = "held"
           \/ LostReplies /\ items[v.job][v.handle].status = "completed"
    BY DEF TasksHoldTheirRows
  <2>3. items'[u.job][u.handle].attempt = u.attempt
    BY <1>5, <1>6, <2>1, <2>2 DEF SameClaim
  <2>4. CASE u.job = j /\ u.handle = h
    <3>1. items[j][h].attempt = t.attempt
      BY DEF TasksHoldTheirRows
    <3>2. SameClaim(t, u)
      BY <2>1, <2>2, <2>4, <3>1 DEF SameClaim
    <3> QED BY <1>3, <2>3, <2>4, <3>2
  <2>5. CASE ~(u.job = j /\ u.handle = h)
    BY <1>4, <1>6, <2>1, <2>2, <2>3, <2>5 DEF SameClaim
  <2> QED BY <2>4, <2>5
<1> QED BY <1>7, <1>9, <1>10, <1>11 DEF RowInv

\* How the steps of tasks and of failures change the set of tasks.
LEMMA NoNewClaimsWhen ==
  ASSUME IInv
  PROVE  /\ \A t \in tasks, p \in {"checking", "checked", "errored"} :
              Move(t, p) => NoNewClaims
         /\ tasks' \subseteq tasks => NoNewClaims
         /\ \A t \in tasks : tasks' = {Orphaned(t.worker, u) : u \in tasks \ {t}} => NoNewClaims
<1>1. \A u, v \in tasks : SameClaim(u, v) => u = v
  BY DEF IInv, AttemptsTellTasksApart, SameClaim
<1>2. ASSUME NEW t \in tasks, NEW p \in {"checking", "checked", "errored"}, Move(t, p)
      PROVE  NoNewClaims
  <2> DEFINE m == [t EXCEPT !.phase = p]
  <2>1. SameClaim(t, m)
    BY DEF SameClaim, IInv, TypeOK, Task
  <2>2. tasks' = (tasks \ {t}) \cup {m}
    BY <1>2 DEF Move
  <2> HIDE DEF m
  <2>3. \A u \in tasks' : \E v \in tasks : SameClaim(v, u) /\ (u = m <=> v = t)
    <3> TAKE u \in tasks'
    <3>1. CASE u = m
      BY <2>1, <3>1
    <3>2. CASE u # m
      BY <2>2, <3>2 DEF SameClaim
    <3> QED BY <3>1, <3>2
  <2>4. \A u, v \in tasks' : SameClaim(u, v) => u = v
    BY <1>1, <2>2, <2>1 DEF SameClaim
  <2> QED BY <2>3, <2>4 DEF NoNewClaims
<1>3. ASSUME tasks' \subseteq tasks PROVE NoNewClaims
  BY <1>1, <1>3 DEF NoNewClaims, SameClaim
<1>4. ASSUME NEW t \in tasks, tasks' = {Orphaned(t.worker, u) : u \in tasks \ {t}}
      PROVE  NoNewClaims
  <2>1. \A u \in tasks : SameClaim(u, Orphaned(t.worker, u))
    BY DEF SameClaim, Orphaned, IInv, TypeOK, Task
  <2>2. \A u \in tasks' : \E v \in tasks : SameClaim(v, u) /\ u = Orphaned(t.worker, v)
    BY <1>4, <2>1
  <2>3. \A u, v \in tasks' : SameClaim(u, v) => u = v
    BY <1>1, <2>2 DEF SameClaim
  <2> QED BY <2>2, <2>3 DEF NoNewClaims
<1> QED BY <1>2, <1>3, <1>4

\* enqueueNominationCheckJob adds rows of its own job only.
LEMMA EnqueueKeepsRows ==
  ASSUME IInv, NEW sc \in Scope, NEW hs \in SUBSET Handle, Enqueue(sc, hs)
  PROVE  RowInv' /\ AbsentJobsHaveNoRows'
<1> USE DEF IInv
<1>1. PICK j \in Job :
        /\ jobs[j].status = "absent"
        /\ jobs' = [jobs EXCEPT ![j] =
             [status |-> "queued", scope |-> sc, total |-> Cardinality(hs),
              completed |-> 0, failed |-> 0]]
        /\ items' = [items EXCEPT ![j] = NewItems(hs)]
  BY DEF Enqueue
<1>2. tasks' = tasks
  BY DEF Enqueue
<1>3. \A h \in Handle : items[j][h].attempt = 0
  BY <1>1 DEF AbsentJobsHaveNoRows, AbsentItem
<1>4. \A t \in tasks : t.job # j
  BY <1>3 DEF AttemptsTellTasksApart, TypeOK, Task
<1>5. \A t \in tasks : t.job \in Job /\ t.handle \in Handle
  BY DEF TypeOK, Task
<1>6. \A i \in Job : i # j => items'[i] = items[i] /\ jobs'[i] = jobs[i]
  BY <1>1 DEF TypeOK
<1>7. \A h \in Handle : /\ items'[j][h].status \in {"pending", "absent"}
                        /\ items'[j][h].lock = "none"
  BY <1>1 DEF NewItems, AbsentItem, TypeOK
<1>8. AttemptsTellTasksApart' /\ TasksHoldTheirRows'
  BY <1>2, <1>4, <1>5, <1>6 DEF AttemptsTellTasksApart, TasksHoldTheirRows
<1>9. NoEarlyFailure' /\ LockedRowsRun'
  BY <1>6, <1>7 DEF NoEarlyFailure, LockedRowsRun
<1>10. AbsentJobsHaveNoRows'
  <2>1. jobs'[j].status = "queued"
    BY <1>1 DEF TypeOK
  <2> QED BY <1>6, <2>1 DEF AbsentJobsHaveNoRows
<1> QED BY <1>8, <1>9, <1>10 DEF RowInv

\* claimNominationCheckJobItems: the new tasks own the rows it locks.
LEMMA ClaimKeepsRows ==
  ASSUME IInv, NEW w \in Worker, NEW S \in SUBSET Handle, ClaimItems(w, S)
  PROVE  RowInv' /\ AbsentJobsHaveNoRows'
<1> USE DEF IInv
<1> DEFINE j == cycle[w].job
<1>1. j \in Job
  BY DEF TypeOK, Cycle
<1>2. \A h \in S : Claimable(j, h)
  BY DEF ClaimItems, ClaimableItems
<1>3. \A i \in Job, k \in Handle :
        items'[i][k] = IF i = j /\ k \in S THEN ClaimedRow(j, k) ELSE items[i][k]
  BY <1>1 DEF ClaimItems, TypeOK
<1>4. tasks' = tasks \cup {NewTask(w, j, h) : h \in S}
  BY DEF ClaimItems
<1>5. \A h \in S : /\ NewTask(w, j, h).job = j
                   /\ NewTask(w, j, h).handle = h
                   /\ NewTask(w, j, h).attempt = items[j][h].attempt + 1
  BY DEF NewTask, ClaimedRow
<1>6. \A i \in Job, k \in Handle : items[i][k].attempt \in Nat
  BY DEF TypeOK, ItemRow
<1>7. \A t \in tasks : t.job \in Job /\ t.handle \in Handle /\ t.attempt \in Nat
  BY DEF TypeOK, Task
<1>8. \A k \in S : /\ items'[j][k].attempt = items[j][k].attempt + 1
                   /\ items'[j][k].status = "running"
                   /\ items'[j][k].lock = "held"
  <2>1. \A k \in S : items'[j][k] = ClaimedRow(j, k)
    BY <1>1, <1>3
  <2>2. \A k \in S : /\ ClaimedRow(j, k).attempt = items[j][k].attempt + 1
                     /\ ClaimedRow(j, k).status = "running"
                     /\ ClaimedRow(j, k).lock = "held"
    BY DEF ClaimedRow
  <2> HIDE DEF j
  <2> QED BY <2>1, <2>2
<1>9. \A i \in Job, k \in Handle : ~(i = j /\ k \in S) => items'[i][k] = items[i][k]
  BY <1>3
<1>10. \A i \in Job, k \in Handle : items'[i][k].attempt >= items[i][k].attempt
  BY <1>6, <1>8, <1>9
<1>11. AttemptsTellTasksApart'
  <2>1. \A t \in tasks : t.attempt <= items[t.job][t.handle].attempt
    BY DEF AttemptsTellTasksApart
  <2>2. \A t \in tasks' : t.attempt <= items'[t.job][t.handle].attempt
    <3>1. \A t \in tasks : t.attempt <= items'[t.job][t.handle].attempt
      <4> TAKE t \in tasks
      <4>1. items'[t.job][t.handle].attempt \in Nat
        BY <1>6, <1>7, <1>8, <1>9
      <4> QED BY <1>6, <1>7, <1>10, <2>1, <4>1
    <3>2. \A h \in S : NewTask(w, j, h).attempt <= items'[j][h].attempt
      BY <1>1, <1>5, <1>6, <1>8
    <3> QED BY <1>4, <1>5, <3>1, <3>2
  <2>3. \A t \in tasks, h \in S : ~SameClaim(t, NewTask(w, j, h))
    <3> SUFFICES ASSUME NEW t \in tasks, NEW h \in S, t.job = j, t.handle = h
                 PROVE  t.attempt # items[j][h].attempt + 1
      BY <1>5 DEF SameClaim
    <3>1. t.attempt <= items[j][h].attempt
      BY <2>1
    <3> QED BY <1>1, <1>6, <1>7, <3>1
  <2>4. \A t, u \in tasks' : SameClaim(t, u) => t = u
    BY <1>4, <1>5, <2>3 DEF AttemptsTellTasksApart, SameClaim
  <2> QED BY <2>2, <2>4 DEF AttemptsTellTasksApart, SameClaim
<1>12. NoEarlyFailure' /\ LockedRowsRun'
  BY <1>8, <1>9 DEF NoEarlyFailure, LockedRowsRun
<1>13. TasksHoldTheirRows'
  <2> SUFFICES ASSUME ~StaleWhileHeld, NEW t \in tasks'
               PROVE  /\ items'[t.job][t.handle].attempt = t.attempt
                      /\ \/ items'[t.job][t.handle].lock = "held"
                         \/ LostReplies /\ items'[t.job][t.handle].status = "completed"
    BY DEF TasksHoldTheirRows
  <2>1. CASE t \in tasks
    <3>1. /\ items[t.job][t.handle].attempt = t.attempt
          /\ \/ items[t.job][t.handle].lock = "held"
             \/ LostReplies /\ items[t.job][t.handle].status = "completed"
      BY <2>1 DEF TasksHoldTheirRows
    <3>2. ~(t.job = j /\ t.handle \in S)
      BY <1>2, <3>1 DEF Claimable, Open
    <3> QED BY <1>7, <1>9, <2>1, <3>1, <3>2
  <2>2. CASE t \notin tasks
    BY <1>4, <1>5, <1>8, <2>2
  <2> QED BY <2>1, <2>2
<1>14. AbsentJobsHaveNoRows'
  <2>1. \A h \in S : jobs[j].status # "absent"
    BY <1>1, <1>2 DEF AbsentJobsHaveNoRows, AbsentItem, Claimable, Open
  <2> QED BY <1>9, <2>1 DEF AbsentJobsHaveNoRows, ClaimItems
<1> QED BY <1>11, <1>12, <1>13, <1>14 DEF RowInv

\* An expiring lock changes nothing but its age.
LEMMA ExpiryKeepsRows ==
  ASSUME IInv, NEW j \in Job, NEW h \in Handle, Expire(j, h),
         StaleWhileHeld \/ ~Owned(j, h)
  PROVE  RowInv' /\ AbsentJobsHaveNoRows'
<1> USE DEF IInv
<1>1. items[j][h] \in ItemRow /\ items[j][h].lock = "held"
  BY DEF TypeOK, Expire
<1>2. /\ items'[j][h].status = items[j][h].status
      /\ items'[j][h].attempt = items[j][h].attempt
  BY <1>1 DEF Expire, TypeOK, ItemRow
<1>3. \A i \in Job, k \in Handle : (i = j /\ k = h) \/ items'[i][k] = items[i][k]
  BY DEF Expire, TypeOK
<1>4. tasks' = tasks /\ jobs' = jobs
  BY DEF Expire
<1>5. \A t \in tasks : t.job \in Job /\ t.handle \in Handle
  BY DEF TypeOK, Task
<1>6. AttemptsTellTasksApart'
  <2>1. \A t \in tasks : items'[t.job][t.handle].attempt = items[t.job][t.handle].attempt
    BY <1>2, <1>3, <1>5
  <2> QED BY <1>4, <2>1 DEF AttemptsTellTasksApart
<1>7. NoEarlyFailure'
  BY <1>2, <1>3 DEF NoEarlyFailure
<1>8. LockedRowsRun'
  BY <1>1, <1>2, <1>3 DEF LockedRowsRun
<1>9. TasksHoldTheirRows'
  BY <1>3, <1>4, <1>5 DEF TasksHoldTheirRows, Owned
<1>10. AbsentJobsHaveNoRows'
  BY <1>1, <1>3, <1>4 DEF AbsentJobsHaveNoRows, AbsentItem
<1> QED BY <1>6, <1>7, <1>8, <1>9, <1>10 DEF RowInv

\* A job once created stays so, and no step but its own creation gives it rows.
LEMMA SettleKeepsAbsence ==
  ASSUME IInv, NEW t \in tasks, NEW s, Settle(t, s), UNCHANGED jobs
  PROVE  AbsentJobsHaveNoRows'
<1> USE DEF IInv
<1>1. t.job \in Job /\ t.handle \in Handle /\ t.attempt \in Nat \ {0}
  BY DEF TypeOK, Task
<1>2. items[t.job][t.handle].attempt # 0
  BY <1>1 DEF AttemptsTellTasksApart, TypeOK, ItemRow
<1>3. jobs[t.job].status # "absent"
  BY <1>1, <1>2 DEF AbsentJobsHaveNoRows, AbsentItem
<1>4. \A i \in Job : i # t.job => items'[i] = items[i]
  BY <1>1 DEF Settle, TypeOK
<1> QED BY <1>3, <1>4 DEF AbsentJobsHaveNoRows

\* Every step of the specification keeps the inductive invariant.
LEMMA NextIInv == IInv /\ [Next]_vars => IInv'
<1> SUFFICES ASSUME IInv, [Next]_vars PROVE IInv'
  OBVIOUS
<1>0. TypeOK'
  BY NextType DEF IInv
<1> SUFFICES RowInv' /\ AbsentJobsHaveNoRows'
  BY <1>0 DEF IInv, RowInv
<1>1. ASSUME UNCHANGED <<items, tasks>>,
             \A j \in Job : jobs'[j].status = "absent" => jobs[j].status = "absent"
      PROVE  RowInv' /\ AbsentJobsHaveNoRows'
  <2>1. RowInv'
    BY <1>1, TasksMoveOn, NoNewClaimsWhen
  <2>2. AbsentJobsHaveNoRows'
    BY <1>1 DEF AbsentJobsHaveNoRows, IInv
  <2> QED BY <2>1, <2>2
<1>2. ASSUME NEW h \in Handle, EnqueueSingle(h) PROVE RowInv' /\ AbsentJobsHaveNoRows'
  BY <1>2, EnqueueKeepsRows DEF EnqueueSingle, Scope
<1>3. ASSUME NEW hs \in SUBSET Handle, EnqueueAll(hs) PROVE RowInv' /\ AbsentJobsHaveNoRows'
  BY <1>3, EnqueueKeepsRows DEF EnqueueAll, Scope
<1>4. ASSUME NEW w \in Worker, CycleStep(w) PROVE RowInv' /\ AbsentJobsHaveNoRows'
  <2>1. ASSUME NEW j \in Job, ClaimJob(w, j) PROVE RowInv' /\ AbsentJobsHaveNoRows'
    <3>1. \A i \in Job : jobs'[i].status = "absent" => jobs[i].status = "absent"
      BY <2>1 DEF ClaimJob, IInv, TypeOK
    <3> QED BY <1>1, <2>1, <3>1 DEF ClaimJob
  <2>2. ASSUME NEW S \in SUBSET Handle, ClaimItems(w, S)
        PROVE  RowInv' /\ AbsentJobsHaveNoRows'
    BY <2>2, ClaimKeepsRows
  <2>3. CASE StoreProgress(w)
    <3>1. StatusOf(cycle[w].counts) # "absent"
      BY DEF StatusOf
    <3>2. cycle[w].job \in Job /\ jobs[cycle[w].job] \in JobRow
      BY DEF IInv, TypeOK, Cycle
    <3>3. \A i \in Job : jobs'[i].status = "absent" => jobs[i].status = "absent"
      BY <2>3, <3>1, <3>2 DEF StoreProgress, IInv, TypeOK, JobRow
    <3> QED BY <1>1, <2>3, <3>3 DEF StoreProgress
  <2>4. CASE LeaveLoop(w) \/ FinishBatch(w) \/ CountProgress(w) \/ DecideAfterRefresh(w)
    BY <1>1, <2>4 DEF LeaveLoop, FinishBatch, CountProgress, DecideAfterRefresh
  <2> QED BY <1>4, <2>1, <2>2, <2>3, <2>4 DEF CycleStep
<1>5. ASSUME NEW t \in tasks, TaskStep(t) PROVE RowInv' /\ AbsentJobsHaveNoRows'
  <2>1. CASE CheckReturns(t) \/ CheckThrows(t)
    <3>1. NoNewClaims
      BY <2>1, NoNewClaimsWhen DEF CheckReturns, CheckThrows
    <3> QED BY <2>1, <3>1, TasksMoveOn
            DEF CheckReturns, CheckThrows, AbsentJobsHaveNoRows, IInv
  <2>2. ASSUME NEW s \in {"pending", "completed", "failed"}, Settle(t, s),
               s = "failed" => t.attempt >= MaxAttempts,
               tasks' = tasks \ {t}, UNCHANGED jobs
        PROVE  RowInv' /\ AbsentJobsHaveNoRows'
    <3>1. NoNewClaims
      BY <2>2, NoNewClaimsWhen
    <3>2. \A u \in tasks' : ~SameClaim(t, u)
      BY <2>2 DEF SameClaim, IInv, AttemptsTellTasksApart
    <3> QED BY <2>2, <3>1, <3>2, RowSettled, SettleKeepsAbsence
  <2>3. CASE Complete(t)
    BY <2>2, <2>3 DEF Complete
  <2>4. CASE GiveBack(t)
    <3>1. RefusedStatus(t) = "failed" => t.attempt >= MaxAttempts
      BY DEF RefusedStatus
    <3> QED BY <2>2, <2>4, <3>1, RefusedType DEF GiveBack
  <2> QED BY <1>5, <2>1, <2>3, <2>4 DEF TaskStep
<1>6. ASSUME NEW t \in tasks, CompleteThrows(t) PROVE RowInv' /\ AbsentJobsHaveNoRows'
  <2>1. NoNewClaims
    BY <1>6, NoNewClaimsWhen DEF CompleteThrows
  <2>2. CASE UNCHANGED items
    BY <1>6, <2>1, <2>2, TasksMoveOn DEF CompleteThrows, AbsentJobsHaveNoRows, IInv
  <2>3. CASE LostReplies /\ Settle(t, "completed")
    BY <1>6, <2>1, <2>3, RowSettled, SettleKeepsAbsence DEF CompleteThrows
  <2> QED BY <1>6, <2>2, <2>3 DEF CompleteThrows
<1>7. ASSUME NEW t \in tasks, GiveBackThrows(t) PROVE RowInv' /\ AbsentJobsHaveNoRows'
  <2>1. NoNewClaims
    BY <1>7, NoNewClaimsWhen DEF GiveBackThrows
  <2>2. \A u \in tasks' : ~SameClaim(t, u)
    <3>1. \A u \in tasks : SameClaim(u, Orphaned(t.worker, u))
      BY DEF SameClaim, Orphaned, IInv, TypeOK, Task
    <3>2. \A u \in tasks \ {t} : ~SameClaim(t, u)
      BY DEF SameClaim, IInv, AttemptsTellTasksApart
    <3> QED BY <1>7, <3>1, <3>2 DEF GiveBackThrows, SameClaim
  <2>3. CASE UNCHANGED items
    BY <1>7, <2>1, <2>3, TasksMoveOn DEF GiveBackThrows, AbsentJobsHaveNoRows, IInv
  <2>4. CASE Settle(t, RefusedStatus(t))
    <3>1. RefusedStatus(t) = "failed" => t.attempt >= MaxAttempts
      BY DEF RefusedStatus
    <3> QED BY <1>7, <2>1, <2>2, <2>4, <3>1, RefusedType, RowSettled, SettleKeepsAbsence
            DEF GiveBackThrows
  <2> QED BY <1>7, <2>3, <2>4 DEF GiveBackThrows
<1>8. ASSUME NEW w \in Worker, QueryThrows(w) \/ PollFindsNothing(w)
      PROVE  RowInv' /\ AbsentJobsHaveNoRows'
  BY <1>1, <1>8 DEF QueryThrows, PollFindsNothing, vars
<1>9. ASSUME NEW w \in Worker, Crash(w) PROVE RowInv' /\ AbsentJobsHaveNoRows'
  <2>1. NoNewClaims
    BY <1>9, NoNewClaimsWhen DEF Crash
  <2> QED BY <1>9, <2>1, TasksMoveOn DEF Crash, AbsentJobsHaveNoRows, IInv
<1>10. ASSUME NEW j \in Job, NEW h \in Handle,
              AbandonedLockExpires(j, h) \/ HeldLockExpires(j, h)
       PROVE  RowInv' /\ AbsentJobsHaveNoRows'
  BY <1>10, ExpiryKeepsRows DEF AbandonedLockExpires, HeldLockExpires
<1>11. CASE UNCHANGED vars
  BY <1>1, <1>11 DEF vars
<1> QED
  BY <1>2, <1>3, <1>4, <1>5, <1>6, <1>7, <1>8, <1>9, <1>10, <1>11 DEF Next, TaskFault

\* The inductive invariant holds in every behaviour.
LEMMA InvariantHolds == Spec => []IInv
BY InitIInv, NextIInv, PTL DEF Spec

-----------------------------------------------------------------------------
(***************************************************************************)
(* Rows and jobs.  As long as no lock goes stale under a live task and no  *)
(* reply is lost, a row that is not open has no task, so nothing rewrites  *)
(* it: counts that show nothing open stay exact until they are stored,     *)
(* however late that is and whatever other workers do meanwhile.           *)
(***************************************************************************)

\* A row of an existing job that is settled, or was never inserted, is final.
LEMMA ClosedRowStays ==
  ASSUME ~StaleWhileHeld, ~LostReplies, IInv, [Next]_vars, NEW j \in Job, NEW h \in Handle,
         jobs[j].status # "absent", items[j][h].status \notin Open
  PROVE  items'[j][h] = items[j][h]
<1> USE DEF IInv
<1>1. ASSUME NEW t \in tasks PROVE ~(t.job = j /\ t.handle = h)
  BY DEF TasksHoldTheirRows, LockedRowsRun, Open
<1>2. ASSUME NEW t \in tasks, NEW s, Settle(t, s) PROVE items'[j][h] = items[j][h]
  <2>1. t.job \in Job /\ t.handle \in Handle
    BY DEF TypeOK, Task
  <2> QED BY <1>1, <1>2, <2>1 DEF Settle, TypeOK
<1>3. ASSUME NEW sc, NEW hs, Enqueue(sc, hs) PROVE items'[j][h] = items[j][h]
  BY <1>3 DEF Enqueue, TypeOK
<1>4. ASSUME NEW w \in Worker, NEW S \in SUBSET Handle, ClaimItems(w, S)
      PROVE  items'[j][h] = items[j][h]
  <2>1. cycle[w].job \in Job
    BY DEF TypeOK, Cycle
  <2>2. ~(j = cycle[w].job /\ h \in S)
    BY <1>4 DEF ClaimItems, ClaimableItems, Claimable
  <2> QED BY <1>4, <2>1, <2>2 DEF ClaimItems, TypeOK
<1>5. ASSUME NEW i \in Job, NEW k \in Handle, Expire(i, k) PROVE items'[j][h] = items[j][h]
  <2>1. ~(i = j /\ k = h)
    BY <1>5 DEF Expire, LockedRowsRun, Open
  <2> QED BY <1>5, <2>1 DEF Expire, TypeOK
<1>6. ASSUME NEW w \in Worker, CycleStep(w) PROVE items'[j][h] = items[j][h]
  BY <1>4, <1>6 DEF CycleStep, ClaimJob, LeaveLoop, FinishBatch, CountProgress,
                    StoreProgress, DecideAfterRefresh
<1>7. ASSUME NEW t \in tasks, TaskStep(t) \/ TaskFault(t) PROVE items'[j][h] = items[j][h]
  BY <1>2, <1>7 DEF TaskStep, TaskFault, CheckReturns, CheckThrows, Complete, GiveBack,
                    CompleteThrows, GiveBackThrows
<1>8. ASSUME NEW w \in Worker, QueryThrows(w) \/ Crash(w) \/ PollFindsNothing(w)
      PROVE  items'[j][h] = items[j][h]
  BY <1>8 DEF QueryThrows, Crash, PollFindsNothing, vars
<1>9. CASE UNCHANGED vars
  BY <1>9 DEF vars
<1> QED BY <1>3, <1>5, <1>6, <1>7, <1>8, <1>9
        DEF Next, EnqueueSingle, EnqueueAll, AbandonedLockExpires, HeldLockExpires

\* A row once inserted is never deleted.
LEMMA RowStaysPresent ==
  ASSUME IInv, [Next]_vars, NEW j \in Job, NEW h \in Handle,
         jobs[j].status # "absent", items[j][h].status # "absent"
  PROVE  items'[j][h].status # "absent"
<1> USE DEF IInv
<1>0. items[j][h] \in ItemRow
  BY DEF TypeOK
<1>2. ASSUME NEW t \in tasks, NEW s \in {"pending", "completed", "failed"}, Settle(t, s)
      PROVE  items'[j][h].status # "absent"
  <2>1. t.job \in Job /\ t.handle \in Handle
    BY DEF TypeOK, Task
  <2>2. items[t.job][t.handle] \in ItemRow
    BY <2>1 DEF TypeOK
  <2>3. items'[t.job][t.handle].status = s
    BY <1>2, <2>1, <2>2 DEF Settle, TypeOK, ItemRow
  <2> QED BY <1>2, <2>1, <2>3 DEF Settle, TypeOK
<1>3. ASSUME NEW sc, NEW hs, Enqueue(sc, hs) PROVE items'[j][h].status # "absent"
  BY <1>3 DEF Enqueue, TypeOK
<1>4. ASSUME NEW w \in Worker, NEW S \in SUBSET Handle, ClaimItems(w, S)
      PROVE  items'[j][h].status # "absent"
  <2> DEFINE i == cycle[w].job
  <2>1. i \in Job
    BY DEF TypeOK, Cycle
  <2>2. items'[j][h] = IF j = i /\ h \in S THEN ClaimedRow(i, h) ELSE items[j][h]
    BY <1>4, <2>1 DEF ClaimItems, TypeOK
  <2>3. ClaimedRow(i, h).status = "running"
    BY DEF ClaimedRow
  <2> HIDE DEF i
  <2> QED BY <2>2, <2>3
<1>5. ASSUME NEW i \in Job, NEW k \in Handle, Expire(i, k) PROVE items'[j][h].status # "absent"
  BY <1>0, <1>5 DEF Expire, TypeOK, ItemRow
<1>6. ASSUME NEW w \in Worker, CycleStep(w) PROVE items'[j][h].status # "absent"
  BY <1>4, <1>6 DEF CycleStep, ClaimJob, LeaveLoop, FinishBatch, CountProgress,
                    StoreProgress, DecideAfterRefresh
<1>7. ASSUME NEW t \in tasks, TaskStep(t) \/ TaskFault(t)
      PROVE  items'[j][h].status # "absent"
  BY <1>2, <1>7, RefusedType
     DEF TaskStep, TaskFault, CheckReturns, CheckThrows, Complete, GiveBack,
         CompleteThrows, GiveBackThrows
<1>8. ASSUME NEW w \in Worker, QueryThrows(w) \/ Crash(w) \/ PollFindsNothing(w)
      PROVE  items'[j][h].status # "absent"
  BY <1>8 DEF QueryThrows, Crash, PollFindsNothing, vars
<1>9. CASE UNCHANGED vars
  BY <1>9 DEF vars
<1> QED BY <1>3, <1>5, <1>6, <1>7, <1>8, <1>9
        DEF Next, EnqueueSingle, EnqueueAll, AbandonedLockExpires, HeldLockExpires

\* What a step does to the row of one job: nothing, its creation, a claim, or a
\* refresh that stores what its worker counted.
LEMMA JobChanges ==
  ASSUME IInv, [Next]_vars, NEW j \in Job
  PROVE  \/ jobs'[j] = jobs[j]
         \/ /\ jobs[j].status = "absent"
            /\ UNCHANGED cycle
            /\ \E sc \in Scope, hs \in SUBSET Handle :
                 /\ ActiveJobsOf(sc) = {}
                 /\ jobs' = [jobs EXCEPT ![j] =
                      [status |-> "queued", scope |-> sc, total |-> Cardinality(hs),
                       completed |-> 0, failed |-> 0]]
                 /\ items'[j] = NewItems(hs)
         \/ /\ jobs[j].status \in Active
            /\ jobs'[j] = [jobs[j] EXCEPT !.status = "running"]
         \/ \E w \in Worker : StoreProgress(w) /\ cycle[w].job = j
<1> USE DEF IInv
<1>1. ASSUME NEW sc \in Scope, NEW hs \in SUBSET Handle, Enqueue(sc, hs)
      PROVE  \/ jobs'[j] = jobs[j]
             \/ /\ jobs[j].status = "absent"
                /\ UNCHANGED cycle
                /\ ActiveJobsOf(sc) = {}
                /\ jobs' = [jobs EXCEPT ![j] =
                     [status |-> "queued", scope |-> sc, total |-> Cardinality(hs),
                      completed |-> 0, failed |-> 0]]
                /\ items'[j] = NewItems(hs)
  <2>1. PICK i \in Job :
          /\ jobs[i].status = "absent"
          /\ jobs' = [jobs EXCEPT ![i] =
               [status |-> "queued", scope |-> sc, total |-> Cardinality(hs),
                completed |-> 0, failed |-> 0]]
          /\ items' = [items EXCEPT ![i] = NewItems(hs)]
    BY <1>1 DEF Enqueue
  <2>2. CASE i = j
    BY <1>1, <2>1, <2>2 DEF Enqueue, TypeOK
  <2>3. CASE i # j
    BY <2>1, <2>3 DEF TypeOK
  <2> QED BY <2>2, <2>3
<1>2. ASSUME NEW w \in Worker, NEW i \in Job, ClaimJob(w, i)
      PROVE  \/ jobs'[j] = jobs[j]
             \/ /\ jobs[j].status \in Active
                /\ jobs'[j] = [jobs[j] EXCEPT !.status = "running"]
  BY <1>2 DEF ClaimJob, Runnable, TypeOK
<1>3. ASSUME NEW w \in Worker, StoreProgress(w)
      PROVE  jobs'[j] = jobs[j] \/ cycle[w].job = j
  BY <1>3 DEF StoreProgress, TypeOK
<1>4. ASSUME NEW h \in Handle, EnqueueSingle(h)
      PROVE  \E sc \in Scope, hs \in SUBSET Handle : Enqueue(sc, hs)
  BY <1>4 DEF EnqueueSingle, Scope
<1>5. ASSUME NEW hs \in SUBSET Handle, EnqueueAll(hs)
      PROVE  \E sc \in Scope, ks \in SUBSET Handle : Enqueue(sc, ks)
  BY <1>5 DEF EnqueueAll, Scope
<1>6. \/ \E sc \in Scope, hs \in SUBSET Handle : Enqueue(sc, hs)
      \/ \E w \in Worker, i \in Job : ClaimJob(w, i)
      \/ \E w \in Worker : StoreProgress(w)
      \/ UNCHANGED jobs
  BY <1>4, <1>5
     DEF Next, CycleStep, ClaimItems, LeaveLoop, FinishBatch, CountProgress,
         DecideAfterRefresh, TaskStep, TaskFault, CheckReturns, CheckThrows, Complete,
         GiveBack, CompleteThrows, GiveBackThrows, QueryThrows, Crash, PollFindsNothing,
         AbandonedLockExpires, HeldLockExpires, Expire, vars
<1> QED BY <1>1, <1>2, <1>3, <1>6

\* What a step does to the cycle of one worker.
LEMMA CycleChanges ==
  ASSUME IInv, [Next]_vars, NEW w \in Worker
  PROVE  \/ cycle'[w] = cycle[w]
         \/ cycle'[w].pc = "idle"
         \/ /\ cycle'[w].pc = "loop"
            /\ cycle'[w].job \in Job
            /\ jobs'[cycle'[w].job].status = "running"
         \/ /\ cycle[w].pc \in {"loop", "batch"}
            /\ cycle'[w].pc \in {"loop", "batch", "count"}
            /\ cycle'[w].job = cycle[w].job
         \/ CountProgress(w)
         \/ /\ StoreProgress(w)
            /\ cycle'[w].pc = "decide"
            /\ cycle'[w].job = cycle[w].job
         \/ /\ cycle[w].pc = "decide"
            /\ jobs[cycle[w].job].status \notin Terminal
            /\ cycle'[w].pc = "loop"
            /\ cycle'[w].job = cycle[w].job
<1> USE DEF IInv
<1> DEFINE Goal == \/ cycle'[w] = cycle[w]
                   \/ cycle'[w].pc = "idle"
                   \/ /\ cycle'[w].pc = "loop"
                      /\ cycle'[w].job \in Job
                      /\ jobs'[cycle'[w].job].status = "running"
                   \/ /\ cycle[w].pc \in {"loop", "batch"}
                      /\ cycle'[w].pc \in {"loop", "batch", "count"}
                      /\ cycle'[w].job = cycle[w].job
                   \/ CountProgress(w)
                   \/ /\ StoreProgress(w)
                      /\ cycle'[w].pc = "decide"
                      /\ cycle'[w].job = cycle[w].job
                   \/ /\ cycle[w].pc = "decide"
                      /\ jobs[cycle[w].job].status \notin Terminal
                      /\ cycle'[w].pc = "loop"
                      /\ cycle'[w].job = cycle[w].job
<1>0. cycle[w] \in Cycle /\ IdleCycle.pc = "idle"
  BY DEF TypeOK, IdleCycle
<1>1. ASSUME NEW v \in Worker, NEW c, cycle' = [cycle EXCEPT ![v] = c], c.pc = "idle"
      PROVE  cycle'[w] = cycle[w] \/ cycle'[w].pc = "idle"
  BY <1>1 DEF TypeOK
<1>2. ASSUME NEW v \in Worker, NEW j \in Job, ClaimJob(v, j) PROVE Goal
  <2> DEFINE c == [IdleCycle EXCEPT !.pc = "loop", !.job = j]
  <2>1. c.pc = "loop" /\ c.job = j
    BY DEF IdleCycle
  <2>2. cycle' = [cycle EXCEPT ![v] = c]
    BY <1>2 DEF ClaimJob
  <2> HIDE DEF c
  <2>3. cycle'[w] = cycle[w] \/ cycle'[w] = c
    BY <2>2 DEF TypeOK
  <2>4. jobs'[j].status = "running"
    BY <1>2 DEF ClaimJob, TypeOK, JobRow
  <2> QED BY <2>1, <2>3, <2>4
<1>3. ASSUME NEW v \in Worker, NEW S \in SUBSET Handle, ClaimItems(v, S) PROVE Goal
  BY <1>0, <1>3 DEF ClaimItems, TypeOK, Cycle
<1>4. ASSUME NEW v \in Worker, LeaveLoop(v) PROVE Goal
  <2> DEFINE last == IF cycle[v].batch >= MaxBatches(cycle[v].job)
                       THEN cycle[v].batch ELSE cycle[v].batch + 1
         left == [cycle[v] EXCEPT !.pc = "count", !.batch = last, !.final = TRUE]
  <2>1. cycle' = [cycle EXCEPT ![v] = IdleCycle] \/ cycle' = [cycle EXCEPT ![v] = left]
    BY <1>4 DEF LeaveLoop
  <2>2. cycle[v].pc = "loop"
    BY <1>4 DEF LeaveLoop
  <2>3. left.pc = "count" /\ left.job = cycle[v].job
    <3>1. cycle[v] \in Cycle
      BY DEF TypeOK
    <3> HIDE DEF last
    <3> QED BY <3>1 DEF Cycle
  <2> HIDE DEF left
  <2>4. CASE cycle' = [cycle EXCEPT ![v] = IdleCycle]
    BY <1>0, <1>1, <2>4
  <2>5. CASE cycle' = [cycle EXCEPT ![v] = left]
    BY <2>2, <2>3, <2>5 DEF TypeOK
  <2> QED BY <2>1, <2>4, <2>5
<1>5. ASSUME NEW v \in Worker, FinishBatch(v) PROVE Goal
  BY <1>0, <1>5 DEF FinishBatch, TypeOK, Cycle
<1>6. ASSUME NEW v \in Worker, CountProgress(v) PROVE Goal
  <2>1. CASE v = w
    BY <1>6, <2>1
  <2>2. CASE v # w
    BY <1>6, <2>2 DEF CountProgress, TypeOK
  <2> QED BY <2>1, <2>2
<1>7. ASSUME NEW v \in Worker, StoreProgress(v) PROVE Goal
  <2>1. CASE v = w
    BY <1>0, <1>7, <2>1 DEF StoreProgress, TypeOK, Cycle
  <2>2. CASE v # w
    BY <1>7, <2>2 DEF StoreProgress, TypeOK
  <2> QED BY <2>1, <2>2
<1>8. ASSUME NEW v \in Worker, DecideAfterRefresh(v) PROVE Goal
  BY <1>0, <1>8 DEF DecideAfterRefresh, TypeOK, Cycle
<1>9. ASSUME NEW t \in tasks, GiveBackThrows(t) PROVE Goal
  <2>1. t.worker \in Worker
    BY DEF TypeOK, Task
  <2>2. cycle' = [cycle EXCEPT ![t.worker] = IdleCycle] \/ UNCHANGED cycle
    BY <1>9 DEF GiveBackThrows
  <2> QED BY <1>0, <1>1, <2>1, <2>2
<1>10. ASSUME NEW v \in Worker, QueryThrows(v) \/ Crash(v) PROVE Goal
  BY <1>0, <1>1, <1>10 DEF QueryThrows, Crash
<1>11. ASSUME UNCHANGED cycle PROVE Goal
  BY <1>11
<1> HIDE DEF Goal
<1>12. Goal
  BY <1>2, <1>3, <1>4, <1>5, <1>6, <1>7, <1>8, <1>9, <1>10, <1>11
     DEF Next, CycleStep, TaskStep, TaskFault, CheckReturns, CheckThrows, Complete,
         GiveBack, CompleteThrows, PollFindsNothing, EnqueueSingle, EnqueueAll, Enqueue,
         AbandonedLockExpires, HeldLockExpires, Expire, vars
<1> QED BY <1>12 DEF Goal

-----------------------------------------------------------------------------
(* Jobs and their counts, for any number of workers *)

\* A cycle works on a job that exists.
CyclesHaveJobs ==
  \A w \in Worker : cycle[w].pc # "idle" => jobs[cycle[w].job].status # "absent"

\* A job's total counts the rows inserted with it.
TotalsAreRows ==
  \A j \in Job : jobs[j].status # "absent" =>
    jobs[j].total = Cardinality(WithStatus(j, Open \cup Terminal))

\* No row of the job is open, and these are the numbers of its outcomes.
SettledWith(j, completed, failed) ==
  /\ WithStatus(j, Open) = {}
  /\ completed = Cardinality(WithStatus(j, {"completed"}))
  /\ failed = Cardinality(WithStatus(j, {"failed"}))

\* Counts that show nothing open are still true when they are stored.
CountsAreFinal ==
  \A w \in Worker :
    cycle[w].pc = "store" /\ StatusOf(cycle[w].counts) \in Terminal =>
      SettledWith(cycle[w].job, cycle[w].counts.completed, cycle[w].counts.failed)

\* A terminal job shows the outcomes of its rows, and failed when one did.
TerminalIsSettled(j) ==
  jobs[j].status \in Terminal =>
    /\ SettledWith(j, jobs[j].completed, jobs[j].failed)
    /\ jobs[j].status = "failed" <=> jobs[j].failed > 0

JobsInv ==
  /\ CyclesHaveJobs
  /\ TotalsAreRows
  /\ CountsAreFinal
  /\ \A j \in Job : TerminalIsSettled(j)

\* A job with no open row keeps its outcomes.
LEMMA SettledStays ==
  ASSUME ~StaleWhileHeld, ~LostReplies, IInv, [Next]_vars, NEW j \in Job,
         jobs[j].status # "absent", NEW c, NEW f, SettledWith(j, c, f)
  PROVE  SettledWith(j, c, f)'
<1>1. \A h \in Handle : items[j][h].status \notin Open
  BY DEF SettledWith, WithStatus
<1>2. \A h \in Handle : items'[j][h] = items[j][h]
  BY <1>1, ClosedRowStays
<1>3. /\ WithStatus(j, Open)' = WithStatus(j, Open)
      /\ WithStatus(j, {"completed"})' = WithStatus(j, {"completed"})
      /\ WithStatus(j, {"failed"})' = WithStatus(j, {"failed"})
  BY <1>2 DEF WithStatus
<1> QED BY <1>3 DEF SettledWith

\* A job once created is never deleted.
LEMMA JobStaysPresent ==
  ASSUME IInv, [Next]_vars, NEW j \in Job, jobs[j].status # "absent"
  PROVE  jobs'[j].status # "absent" /\ jobs'[j].total = jobs[j].total
                                    /\ jobs'[j].scope = jobs[j].scope
<1>1. jobs[j] \in JobRow
  BY DEF IInv, TypeOK
<1>2. ASSUME NEW w \in Worker, StoreProgress(w), cycle[w].job = j
      PROVE  /\ jobs'[j].status = StatusOf(cycle[w].counts)
             /\ jobs'[j].total = jobs[j].total
             /\ jobs'[j].scope = jobs[j].scope
  BY <1>1, <1>2 DEF StoreProgress, IInv, TypeOK, JobRow
<1>3. \A c : StatusOf(c) # "absent"
  BY DEF StatusOf
<1>4. CASE jobs'[j] = [jobs[j] EXCEPT !.status = "running"]
  BY <1>1, <1>4 DEF JobRow
<1> QED BY <1>2, <1>3, <1>4, JobChanges

\* The counts of a job with no open row are exact, and those that show nothing
\* open were taken of such a job.
LEMMA CountsTell ==
  ASSUME NEW j \in Job, StatusOf(CountsOf(j)) \in Terminal
  PROVE  SettledWith(j, CountsOf(j).completed, CountsOf(j).failed)
<1> DEFINE pending == WithStatus(j, {"pending"})
           running == WithStatus(j, {"running"})
<1>1. pending \in SUBSET Handle /\ running \in SUBSET Handle
  BY DEF WithStatus
<1>2. IsFiniteSet(pending) /\ IsFiniteSet(running)
  BY <1>1, QueueAssumption, FS_Subset
<1>3. Cardinality(pending) \in Nat /\ Cardinality(running) \in Nat
  BY <1>1, SubsetCardinality
<1>4. Cardinality(pending) = 0 /\ Cardinality(running) = 0
  <2>1. ~(CountsOf(j).pending > 0 \/ CountsOf(j).running > 0)
    BY DEF StatusOf, Terminal
  <2>2. CountsOf(j).pending = Cardinality(pending) /\ CountsOf(j).running = Cardinality(running)
    BY DEF CountsOf
  <2> HIDE DEF pending, running
  <2> QED BY <1>3, <2>1, <2>2
<1>5. pending = {} /\ running = {}
  <2> HIDE DEF pending, running
  <2> QED BY <1>2, <1>4, FS_EmptySet
<1>6. WithStatus(j, Open) = {}
  BY <1>5 DEF WithStatus, Open
<1> QED BY <1>6 DEF SettledWith, CountsOf

\* Every step keeps TotalsAreRows.
LEMMA TotalsInductive ==
  ASSUME ~StaleWhileHeld, ~LostReplies, IInv, CyclesHaveJobs, TotalsAreRows, [Next]_vars
  PROVE  TotalsAreRows'
<1> SUFFICES ASSUME NEW j \in Job, jobs'[j].status # "absent"
             PROVE  jobs'[j].total = Cardinality(WithStatus(j, Open \cup Terminal))'
  BY DEF TotalsAreRows
<1>1. CASE jobs[j].status # "absent"
  <2>1. \A h \in Handle : items[j][h] \in ItemRow /\ items'[j][h] \in ItemRow
    BY NextType DEF IInv, TypeOK
  <2>2. \A h \in Handle : items'[j][h].status # "absent" <=> items[j][h].status # "absent"
    <3> TAKE h \in Handle
    <3>1. items[j][h].status = "absent" => items'[j][h] = items[j][h]
      BY <1>1, ClosedRowStays DEF Open
    <3> QED BY <1>1, <3>1, RowStaysPresent
  <2>3. WithStatus(j, Open \cup Terminal)' = WithStatus(j, Open \cup Terminal)
    BY <2>1, <2>2 DEF WithStatus, ItemRow
  <2> QED BY <1>1, <2>3, JobStaysPresent DEF TotalsAreRows
<1>2. CASE jobs[j].status = "absent"
  <2>0. \A w \in Worker : StoreProgress(w) => jobs[cycle[w].job].status # "absent"
    BY DEF StoreProgress, CyclesHaveJobs
  <2>1. PICK sc \in Scope, hs \in SUBSET Handle :
          /\ jobs' = [jobs EXCEPT ![j] =
               [status |-> "queued", scope |-> sc, total |-> Cardinality(hs),
                completed |-> 0, failed |-> 0]]
          /\ items'[j] = NewItems(hs)
    BY <1>2, <2>0, JobChanges DEF Active
  <2>2. jobs'[j].total = Cardinality(hs)
    BY <2>1 DEF IInv, TypeOK
  <2>3. WithStatus(j, Open \cup Terminal)' = hs
    BY <2>1 DEF WithStatus, NewItems, AbsentItem, Open, Terminal
  <2> QED BY <2>2, <2>3
<1> QED BY <1>1, <1>2

\* Every step keeps CyclesHaveJobs.
LEMMA CyclesHaveJobsInductive ==
  ASSUME IInv, CyclesHaveJobs, [Next]_vars
  PROVE  CyclesHaveJobs'
<1> SUFFICES ASSUME NEW w \in Worker, cycle'[w].pc # "idle"
             PROVE  jobs'[cycle'[w].job].status # "absent"
  BY DEF CyclesHaveJobs
<1>1. cycle[w] \in Cycle
  BY DEF IInv, TypeOK
<1>2. CASE cycle'[w].job = cycle[w].job /\ cycle[w].pc # "idle"
  <2>1. cycle[w].job \in Job
    BY <1>1 DEF Cycle
  <2>2. jobs[cycle[w].job].status # "absent"
    BY <1>2 DEF CyclesHaveJobs
  <2>3. PICK j \in Job : j = cycle[w].job
    BY <2>1
  <2> QED BY <1>2, <2>2, <2>3, JobStaysPresent
<1>3. CASE jobs'[cycle'[w].job].status = "running"
  BY <1>3
<1>4. CASE CountProgress(w)
  <2>1. cycle[w].pc = "count" /\ cycle'[w].job = cycle[w].job
    BY <1>1, <1>4 DEF CountProgress, IInv, TypeOK, Cycle
  <2> QED BY <1>2, <2>1
<1>5. CASE StoreProgress(w) /\ cycle'[w].job = cycle[w].job
  BY <1>2, <1>5 DEF StoreProgress
<1>6. CASE cycle'[w] = cycle[w]
  BY <1>2, <1>6
<1> QED BY <1>2, <1>3, <1>4, <1>5, <1>6, CycleChanges

\* Every step keeps CountsAreFinal.
LEMMA CountsInductive ==
  ASSUME ~StaleWhileHeld, ~LostReplies, IInv, CyclesHaveJobs, CountsAreFinal, [Next]_vars
  PROVE  CountsAreFinal'
<1> SUFFICES ASSUME NEW w \in Worker, NEW j \in Job, NEW c \in Counts,
                    cycle'[w].pc = "store", j = cycle'[w].job, c = cycle'[w].counts,
                    StatusOf(c) \in Terminal
             PROVE  SettledWith(j, c.completed, c.failed)'
  <2>1. \A w \in Worker : cycle'[w].job \in Job /\ cycle'[w].counts \in Counts
    BY NextType DEF IInv, TypeOK, Cycle
  <2>2. \A w \in Worker : StatusOf(cycle[w].counts)' = StatusOf(cycle'[w].counts)
    BY DEF StatusOf
  <2> SUFFICES ASSUME NEW w \in Worker, cycle'[w].pc = "store",
                      StatusOf(cycle'[w].counts) \in Terminal
               PROVE  SettledWith(cycle[w].job, cycle[w].counts.completed,
                                  cycle[w].counts.failed)'
    BY <2>2 DEF CountsAreFinal
  <2>3. PICK j \in Job, c \in Counts : j = cycle'[w].job /\ c = cycle'[w].counts
    BY <2>1
  <2>4. SettledWith(j, c.completed, c.failed)'
    BY <2>3
  <2> QED BY <2>3, <2>4 DEF SettledWith, WithStatus
<1>1. cycle[w] \in Cycle
  BY DEF IInv, TypeOK
<1>2. CASE cycle'[w] = cycle[w]
  <2>1. SettledWith(j, c.completed, c.failed)
    BY <1>2 DEF CountsAreFinal
  <2>2. jobs[j].status # "absent"
    BY <1>2 DEF CyclesHaveJobs
  <2> QED BY <2>1, <2>2, SettledStays
<1>3. CASE CountProgress(w)
  <2>1. cycle[w].pc = "count" /\ cycle[w].job = j /\ c = CountsOf(j)
    BY <1>1, <1>3 DEF CountProgress, IInv, TypeOK, Cycle
  <2>2. jobs[j].status # "absent"
    BY <2>1 DEF CyclesHaveJobs
  <2>3. SettledWith(j, c.completed, c.failed)
    BY <2>1, CountsTell
  <2> QED BY <2>2, <2>3, SettledStays
<1> QED BY <1>2, <1>3, CycleChanges

\* Every step keeps TerminalIsSettled.
LEMMA TerminalInductive ==
  ASSUME ~StaleWhileHeld, ~LostReplies, IInv, CyclesHaveJobs, CountsAreFinal,
         [Next]_vars, NEW j \in Job, TerminalIsSettled(j)
  PROVE  TerminalIsSettled(j)'
<1> SUFFICES ASSUME jobs'[j].status \in Terminal
             PROVE  /\ SettledWith(j, jobs[j].completed, jobs[j].failed)'
                    /\ jobs'[j].status = "failed" <=> jobs'[j].failed > 0
  BY DEF TerminalIsSettled
<1>1. jobs[j] \in JobRow
  BY DEF IInv, TypeOK
<1>2. CASE jobs'[j] = jobs[j]
  <2>1. PICK c, f : c = jobs[j].completed /\ f = jobs[j].failed
    OBVIOUS
  <2>2. SettledWith(j, c, f)
    BY <1>2, <2>1 DEF TerminalIsSettled
  <2>3. SettledWith(j, c, f)'
    BY <1>2, <2>2, SettledStays DEF Terminal
  <2>4. SettledWith(j, jobs[j].completed, jobs[j].failed)'
    BY <1>2, <2>1, <2>3 DEF SettledWith
  <2> QED BY <1>2, <2>4 DEF TerminalIsSettled
<1>3. ASSUME NEW w \in Worker, StoreProgress(w), cycle[w].job = j
      PROVE  /\ SettledWith(j, jobs[j].completed, jobs[j].failed)'
             /\ jobs'[j].status = "failed" <=> jobs'[j].failed > 0
  <2>1. PICK c \in Counts : c = cycle[w].counts
    BY DEF IInv, TypeOK, Cycle
  <2>2. /\ jobs'[j].status = StatusOf(c)
        /\ jobs'[j].completed = c.completed
        /\ jobs'[j].failed = c.failed
    BY <1>1, <1>3, <2>1 DEF StoreProgress, IInv, TypeOK, JobRow
  <2>3. SettledWith(j, c.completed, c.failed)
    BY <1>3, <2>1, <2>2 DEF StoreProgress, CountsAreFinal
  <2>4. jobs[j].status # "absent"
    BY <1>3 DEF CyclesHaveJobs, StoreProgress
  <2>5. SettledWith(j, c.completed, c.failed)'
    BY <2>3, <2>4, SettledStays
  <2>6. SettledWith(j, jobs[j].completed, jobs[j].failed)'
    BY <2>2, <2>5 DEF SettledWith
  <2>7. jobs'[j].status = "failed" <=> jobs'[j].failed > 0
    BY <2>2 DEF StatusOf, Terminal, Counts
  <2> QED BY <2>6, <2>7
<1>4. jobs'[j].status \notin Active
  BY DEF Active, Terminal
<1>5. jobs'[j] # [jobs[j] EXCEPT !.status = "running"]
  BY <1>1, <1>4 DEF JobRow, Active
<1>6. ASSUME NEW n, jobs' = [jobs EXCEPT ![j] = n], n.status = "queued" PROVE FALSE
  BY <1>4, <1>6 DEF Active, IInv, TypeOK
<1>7. jobs'[j] = jobs[j] \/ \E w \in Worker : StoreProgress(w) /\ cycle[w].job = j
  BY <1>5, <1>6, JobChanges
<1> QED BY <1>2, <1>3, <1>7

\* JobsInv holds of the empty tables.
LEMMA InitJobsInv == Init => JobsInv
BY DEF Init, JobsInv, CyclesHaveJobs, TotalsAreRows, CountsAreFinal, TerminalIsSettled,
       IdleCycle, AbsentJob, Terminal

\* Every step keeps JobsInv, if no lock goes stale under its task and no reply
\* is lost.
LEMMA NextJobsInv ==
  ASSUME ~StaleWhileHeld, ~LostReplies
  PROVE  IInv /\ JobsInv /\ [Next]_vars => JobsInv'
<1> SUFFICES ASSUME IInv, JobsInv, [Next]_vars PROVE JobsInv'
  OBVIOUS
<1>1. CyclesHaveJobs'
  BY CyclesHaveJobsInductive DEF JobsInv
<1>2. TotalsAreRows'
  BY TotalsInductive DEF JobsInv
<1>3. CountsAreFinal'
  BY CountsInductive DEF JobsInv
<1>4. \A j \in Job : TerminalIsSettled(j)'
  BY TerminalInductive DEF JobsInv
<1> QED BY <1>1, <1>2, <1>3, <1>4 DEF JobsInv

\* What JobsInv says of finished jobs.
LEMMA JobsInvSettles ==
  ASSUME IInv, JobsInv
  PROVE  FinishedJobIsSettled
<1> SUFFICES ASSUME NEW j \in Job, jobs[j].status \in Terminal
             PROVE  /\ WithStatus(j, Open) = {}
                    /\ jobs[j].completed = Cardinality(WithStatus(j, {"completed"}))
                    /\ jobs[j].failed = Cardinality(WithStatus(j, {"failed"}))
                    /\ jobs[j].completed + jobs[j].failed = jobs[j].total
                    /\ jobs[j].status = "failed" <=> WithStatus(j, {"failed"}) # {}
  BY DEF FinishedJobIsSettled
<1> DEFINE done == WithStatus(j, {"completed"})
           lost == WithStatus(j, {"failed"})
<1>1. /\ WithStatus(j, Open) = {}
      /\ jobs[j].completed = Cardinality(done)
      /\ jobs[j].failed = Cardinality(lost)
      /\ jobs[j].status = "failed" <=> jobs[j].failed > 0
  BY DEF JobsInv, TerminalIsSettled, SettledWith
<1>2. done \in SUBSET Handle /\ lost \in SUBSET Handle
  BY DEF WithStatus
<1>3. IsFiniteSet(done) /\ IsFiniteSet(lost)
  BY <1>2, QueueAssumption, FS_Subset
<1>4. WithStatus(j, Open \cup Terminal) = done \cup lost /\ done \cap lost = {}
  BY <1>1 DEF WithStatus, Open, Terminal
<1>5. jobs[j].total = Cardinality(done \cup lost)
  BY <1>4 DEF JobsInv, TotalsAreRows, Terminal
<1> HIDE DEF done, lost
<1>6. Cardinality(done) \in Nat /\ Cardinality(lost) \in Nat
  BY <1>2, SubsetCardinality
<1>7. Cardinality(done \cap lost) = 0
  BY <1>4, FS_EmptySet
<1>8. Cardinality(done \cup lost) =
        Cardinality(done) + Cardinality(lost) - Cardinality(done \cap lost)
  BY <1>3, FS_Union
<1>9. jobs[j].completed + jobs[j].failed = jobs[j].total
  BY <1>1, <1>5, <1>6, <1>7, <1>8
<1>10. Cardinality(lost) = 0 <=> lost = {}
  BY <1>3, FS_EmptySet
<1>11. jobs[j].status = "failed" <=> lost # {}
  BY <1>1, <1>6, <1>10
<1> QED BY <1>1, <1>9, <1>11 DEF done, lost

-----------------------------------------------------------------------------
(***************************************************************************)
(* A single worker.  The UPDATE of a refresh does not look at the status   *)
(* it overwrites; it cannot reopen a finished job only because the one     *)
(* cycle there is stores progress of a job that is still active.           *)
(***************************************************************************)

OneWorker == \A v, w \in Worker : v = w

\* Until it stores the last counts, a cycle works on an active job.
CyclesRun ==
  \A w \in Worker : cycle[w].pc \in {"loop", "batch", "count", "store"} =>
                      jobs[cycle[w].job].status \in Active

\* A refresh ends the cycle or lets it decide.
LEMMA StoreEnds ==
  ASSUME IInv, NEW w \in Worker, StoreProgress(w)
  PROVE  cycle'[w].pc \in {"idle", "decide"}
BY DEF StoreProgress, IInv, TypeOK, Cycle, IdleCycle

\* An active job stays active until its progress is stored.
LEMMA ActiveStays ==
  ASSUME IInv, [Next]_vars, NEW j \in Job, jobs[j].status \in Active,
         \A w \in Worker : ~(StoreProgress(w) /\ cycle[w].job = j)
  PROVE  jobs'[j].status \in Active
<1>1. jobs[j] \in JobRow
  BY DEF IInv, TypeOK
<1>2. CASE jobs'[j] = [jobs[j] EXCEPT !.status = "running"]
  BY <1>1, <1>2 DEF JobRow, Active
<1> QED BY <1>2, JobChanges DEF Active

\* Every step of a single worker keeps CyclesRun.
LEMMA CyclesRunInductive ==
  ASSUME OneWorker, IInv, CyclesHaveJobs, CyclesRun, [Next]_vars
  PROVE  CyclesRun'
<1> SUFFICES ASSUME NEW w \in Worker, cycle'[w].pc \in {"loop", "batch", "count", "store"}
             PROVE  jobs'[cycle'[w].job].status \in Active
  BY DEF CyclesRun
<1>1. cycle[w] \in Cycle
  BY DEF IInv, TypeOK
<1>2. \A v \in Worker : ~StoreProgress(v)
  BY StoreEnds DEF OneWorker
<1>3. ASSUME cycle'[w].job = cycle[w].job, jobs[cycle[w].job].status \in Active
      PROVE  jobs'[cycle'[w].job].status \in Active
  <2>1. PICK j \in Job : j = cycle[w].job
    BY <1>1 DEF Cycle
  <2> QED BY <1>2, <1>3, <2>1, ActiveStays
<1>4. CASE cycle'[w] = cycle[w] \/ (cycle[w].pc \in {"loop", "batch"} /\ cycle'[w].job = cycle[w].job)
  BY <1>3, <1>4 DEF CyclesRun
<1>5. CASE jobs'[cycle'[w].job].status = "running"
  BY <1>5 DEF Active
<1>6. CASE CountProgress(w)
  <2>1. cycle[w].pc = "count" /\ cycle'[w].job = cycle[w].job
    BY <1>1, <1>6 DEF CountProgress, IInv, TypeOK, Cycle
  <2> QED BY <1>3, <2>1 DEF CyclesRun
<1>7. CASE /\ cycle[w].pc = "decide"
           /\ jobs[cycle[w].job].status \notin Terminal
           /\ cycle'[w].job = cycle[w].job
  <2>1. jobs[cycle[w].job].status # "absent"
    BY <1>7 DEF CyclesHaveJobs
  <2>2. jobs[cycle[w].job] \in JobRow
    BY <1>1 DEF Cycle, IInv, TypeOK
  <2>3. jobs[cycle[w].job].status \in Active
    BY <1>7, <2>1, <2>2 DEF JobRow
  <2> QED BY <1>3, <1>7, <2>3
<1> QED BY <1>2, <1>4, <1>5, <1>6, <1>7, CycleChanges

\* With a single worker, a job that is active was so before, or is created now
\* in a scope without an active job.
LEMMA WhoIsActive ==
  ASSUME IInv, CyclesRun, [Next]_vars, NEW j \in Job, jobs'[j].status \in Active
  PROVE  \/ jobs[j].status \in Active /\ jobs'[j].scope = jobs[j].scope
         \/ \E sc \in Scope : /\ ActiveJobsOf(sc) = {}
                              /\ jobs'[j].scope = sc
                              /\ \A i \in Job \ {j} : jobs'[i] = jobs[i]
<1>1. jobs[j] \in JobRow
  BY DEF IInv, TypeOK
<1>2. ASSUME NEW w \in Worker, StoreProgress(w), cycle[w].job = j
      PROVE  jobs[j].status \in Active
  BY <1>2 DEF CyclesRun, StoreProgress
<1>3. ASSUME NEW sc \in Scope, NEW hs \in SUBSET Handle,
             ActiveJobsOf(sc) = {},
             jobs' = [jobs EXCEPT ![j] =
               [status |-> "queued", scope |-> sc, total |-> Cardinality(hs),
                completed |-> 0, failed |-> 0]]
      PROVE  jobs'[j].scope = sc /\ \A i \in Job \ {j} : jobs'[i] = jobs[i]
  BY <1>3 DEF IInv, TypeOK
<1>4. jobs[j].status \in Active => jobs'[j].scope = jobs[j].scope
  BY JobStaysPresent DEF Active
<1>5. CASE jobs[j].status \in Active
  BY <1>4, <1>5
<1>6. CASE jobs[j].status \notin Active
  <2>1. PICK sc \in Scope, hs \in SUBSET Handle :
          /\ ActiveJobsOf(sc) = {}
          /\ jobs' = [jobs EXCEPT ![j] =
               [status |-> "queued", scope |-> sc, total |-> Cardinality(hs),
                completed |-> 0, failed |-> 0]]
    BY <1>2, <1>6, JobChanges
  <2> QED BY <1>3, <2>1
<1> QED BY <1>5, <1>6

\* Every step of a single worker keeps one active job per scope.
LEMMA OneActiveInductive ==
  ASSUME IInv, CyclesRun, OneActiveJobPerScope, [Next]_vars
  PROVE  OneActiveJobPerScope'
<1> SUFFICES ASSUME NEW i \in Job, NEW j \in Job,
                    jobs'[i].status \in Active, jobs'[j].status \in Active,
                    jobs'[i].scope = jobs'[j].scope, i # j
             PROVE  FALSE
  BY DEF OneActiveJobPerScope
<1>1. ASSUME NEW k \in Job, NEW l \in Job, k # l,
             jobs'[l].status \in Active, jobs'[k].scope = jobs'[l].scope,
             NEW sc \in Scope, ActiveJobsOf(sc) = {}, jobs'[k].scope = sc,
             \A m \in Job \ {k} : jobs'[m] = jobs[m]
      PROVE  FALSE
  <2>1. jobs[l].status \in Active /\ jobs[l].scope = sc
    BY <1>1
  <2> QED BY <1>1, <2>1 DEF ActiveJobsOf
<1>2. ~(jobs[i].status \in Active /\ jobs'[i].scope = jobs[i].scope
        /\ jobs[j].status \in Active /\ jobs'[j].scope = jobs[j].scope)
  BY DEF OneActiveJobPerScope
<1> QED BY <1>1, <1>2, WhoIsActive

\* A single worker never touches a finished job.
LEMMA FinishedStays ==
  ASSUME IInv, CyclesRun, [Next]_vars, NEW j \in Job, jobs[j].status \in Terminal
  PROVE  jobs'[j] = jobs[j]
<1>1. \A w \in Worker : ~(StoreProgress(w) /\ cycle[w].job = j)
  BY DEF CyclesRun, StoreProgress, Active, Terminal
<1> QED BY <1>1, JobChanges DEF Active, Terminal

-----------------------------------------------------------------------------
(* Theorems *)

\* Every variable keeps its type, whatever the number of workers, handles, jobs
\* and faults.
THEOREM TypeCorrect == Spec => []TypeOK
BY InvariantHolds, PTL DEF IInv

\* With any crash, lost reply or late call, tasks on one item differ in their
\* attempt numbers and none is ahead of the row.
THEOREM AttemptsTellApart == Spec => []AttemptsTellTasksApart
BY InvariantHolds, PTL DEF IInv

\* With any crash, lost reply or late call, a failed row has used its attempts.
THEOREM NoFailureIsEarly == Spec => []NoEarlyFailure
BY InvariantHolds, PTL DEF IInv

\* If no lock goes stale under a live task, the locked_at column is a mutual
\* exclusion: any number of instances, crashing at any time and losing any
\* reply, never check one item twice at once.
THEOREM ClaimsAreExclusive == ~StaleWhileHeld => (Spec => []ExclusiveClaims)
<1>1. ASSUME ~StaleWhileHeld PROVE IInv => ExclusiveClaims
  BY <1>1 DEF IInv, TasksHoldTheirRows, AttemptsTellTasksApart, ExclusiveClaims
<1>2. ASSUME ~StaleWhileHeld PROVE Spec => []ExclusiveClaims
  BY <1>1, <1>2, InvariantHolds, PTL
<1> QED BY <1>2

\* If moreover no reply is lost, a settled item is final: no call of any other
\* task or cycle rewrites it, although the statements name it by its id alone.
THEOREM SettledItemsStay ==
  ~StaleWhileHeld /\ ~LostReplies => (Spec => SettledItemsAreFinal)
<1> DEFINE Final == \A j \in Job, h \in Handle :
                      items[j][h].status \in Terminal => items'[j][h] = items[j][h]
<1>1. ASSUME ~StaleWhileHeld, ~LostReplies
      PROVE  IInv /\ [Next]_vars => Final
  <2> SUFFICES ASSUME IInv, [Next]_vars, NEW j \in Job, NEW h \in Handle,
                      items[j][h].status \in Terminal
               PROVE  items'[j][h] = items[j][h]
    OBVIOUS
  <2>1. jobs[j].status # "absent"
    BY DEF IInv, AbsentJobsHaveNoRows, AbsentItem, Terminal
  <2> QED BY <1>1, <2>1, ClosedRowStays DEF Open, Terminal
<1>2. ASSUME ~StaleWhileHeld, ~LostReplies PROVE IInv /\ [Next]_vars => [Final]_vars
  BY <1>1, <1>2
<1> HIDE DEF Final
<1>3. ASSUME ~StaleWhileHeld, ~LostReplies PROVE Spec => [][Final]_vars
  BY <1>2, <1>3, InvariantHolds, PTL DEF Spec
<1> QED BY <1>3 DEF Final, SettledItemsAreFinal

\* Under the same two conditions what a finished job shows is the truth about its
\* items, for any number of workers and any crash: a refresh may store counts read
\* long before, but counts that show nothing open stay exact.
THEOREM FinishedJobsAreTrue ==
  ~StaleWhileHeld /\ ~LostReplies => (Spec => []FinishedJobIsSettled)
<1>1. ASSUME ~StaleWhileHeld, ~LostReplies PROVE Spec => []FinishedJobIsSettled
  <2>1. IInv /\ JobsInv /\ [Next]_vars => JobsInv'
    BY <1>1, NextJobsInv
  <2>2. IInv /\ JobsInv => FinishedJobIsSettled
    BY JobsInvSettles
  <2> QED BY <2>1, <2>2, InvariantHolds, InitJobsInv, PTL DEF Spec
<1> QED BY <1>1

\* What a single worker adds to the invariant.
LEMMA SingleHolds ==
  ASSUME OneWorker
  PROVE  Spec => [](CyclesRun /\ OneActiveJobPerScope)
<1>1. Init => CyclesHaveJobs /\ CyclesRun /\ OneActiveJobPerScope
  BY DEF Init, CyclesHaveJobs, CyclesRun, OneActiveJobPerScope, IdleCycle, AbsentJob, Active
<1>2. IInv /\ CyclesHaveJobs /\ CyclesRun /\ OneActiveJobPerScope /\ [Next]_vars
        => CyclesHaveJobs' /\ CyclesRun' /\ OneActiveJobPerScope'
  BY CyclesHaveJobsInductive, CyclesRunInductive, OneActiveInductive
<1> QED BY <1>1, <1>2, InvariantHolds, PTL DEF Spec

\* With one bot instance a scope never has two active jobs, whatever crashes, is
\* lost or goes stale.  With two, a late refresh can reopen a finished job beside
\* a new one.
THEOREM ScopesHaveOneJob == OneWorker => (Spec => []OneActiveJobPerScope)
<1>1. ASSUME OneWorker PROVE Spec => []OneActiveJobPerScope
  BY <1>1, SingleHolds, PTL
<1> QED BY <1>1

\* With one bot instance a job reported completed or failed is never reopened or
\* recounted.
THEOREM FinishedJobsStay == OneWorker => (Spec => FinishedJobsAreFinal)
<1> DEFINE Final == \A j \in Job : jobs[j].status \in Terminal => jobs'[j] = jobs[j]
<1>1. IInv /\ CyclesRun /\ [Next]_vars => [Final]_vars
  BY FinishedStays
<1> HIDE DEF Final
<1>2. ASSUME OneWorker PROVE Spec => [][Final]_vars
  BY <1>1, <1>2, SingleHolds, InvariantHolds, PTL DEF Spec
<1> QED BY <1>2 DEF Final, FinishedJobsAreFinal
=============================================================================
