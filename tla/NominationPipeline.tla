------------------------- MODULE NominationPipeline -------------------------
(***************************************************************************)
(* Nominations and NominationJobQueue together: a recorded nomination asks *)
(* for an org check of its handle, the worker's result moves the           *)
(* nomination, and /nomination-refresh asks again.                         *)
(*                                                                         *)
(*   commands/nominate-player.command.ts:202-216   the automatic enqueue   *)
(*   commands/nomination-refresh.command.ts        the reviewer's          *)
(*   services/nominations/job-worker.service.ts:108-113   check and write  *)
(*                                                                         *)
(* The worker's own failures are the subject of NominationJobQueue, and    *)
(* the telling of nominators, which nothing here reads, is one of          *)
(* Nominations; every check gives a result, so what is left is the reuse   *)
(* of jobs and the counting of a row that all sides write.  Each user has  *)
(* one slot for a /nominate-player: the next one starts when the enqueue   *)
(* call of the last has returned.                                          *)
(***************************************************************************)
EXTENDS Naturals, FiniteSets

CONSTANTS
  Handle, User, Admin, Null, TargetMax, UserMax, Cooldown, MaxEvents,
  Worker, AllScope, MaxJobs, BatchSize, MaxAttempts, RefreshEvery, MaxFaults,
  LostReplies, StaleWhileHeld,
  Refreshes,   \* does a reviewer refresh whenever something is new?
  CallsFail    \* may a command fail half-way, or its enqueue call throw?

VARIABLES
  row, events, expired, cooling, cmd, review, telling, notices,
  jobs, items, tasks, cycle, faults,
  refresh      \* targets a /nomination-refresh has read and not yet enqueued

N == INSTANCE Nominations WITH Request <- User
Q == INSTANCE NominationJobQueue

nvars == <<row, events, expired, cooling, cmd, review, telling, notices>>
qvars == <<jobs, items, tasks, cycle, faults>>
vars == <<nvars, qvars, refresh>>

Init == N!Init /\ Q!Init /\ refresh = {}

-----------------------------------------------------------------------------
(* Steps of one side only *)

Nominating(u) ==
  /\ \/ \E h \in Handle : N!Submit(u, u, h)
     \/ N!CommandStep(u)
     \/ CallsFail /\ N!CommandFails(u)
  /\ UNCHANGED <<qvars, refresh>>

Reviewing ==
  /\ \E a \in Admin : N!ReviewStep(a)
  /\ UNCHANGED <<qvars, refresh>>

Working(w) ==
  /\ \/ Q!CycleStep(w)
     \/ \E t \in tasks : t.worker = w /\ Q!Complete(t)
  /\ UNCHANGED <<nvars, refresh>>

-----------------------------------------------------------------------------
(* Steps of both *)

\* enqueueNominationCheckJob: a new job, or the active one of the same scope
Requested(scope, hs) ==
  \/ Q!Enqueue(scope, hs)
  \/ Q!ActiveJobsOf(scope) # {} /\ UNCHANGED qvars

AutoEnqueue(u) ==
  /\ N!EnqueueCall(u)
  /\ \/ Requested(cmd[u].handle, {cmd[u].handle})
     \/ CallsFail /\ UNCHANGED qvars
  /\ UNCHANGED refresh

\* The result is written unless the nomination is gone or processed.
CheckReturns(t) ==
  /\ Q!CheckReturns(t)
  /\ \/ \E code \in N!Code : N!StoreCheck(t.handle, code)
     \/ ~N!TakesCheck(t.handle) /\ UNCHANGED nvars
  /\ UNCHANGED refresh

\* /nomination-refresh without a handle: the targets are read ...
AlreadyChecked == {h \in Handle : row[h].state \in N!Checked}
Targets == N!UnprocessedHandles

RefreshReads ==
  /\ refresh = {}
  /\ Refreshes /\ \E h \in Handle : row[h].state = "new"
  /\ refresh' = Targets
  /\ UNCHANGED <<nvars, qvars>>

\* ... and then enqueued; an active job over all nominations is reused as it is.
RefreshEnqueues ==
  /\ refresh # {}
  /\ Requested(AllScope, refresh)
  /\ refresh' = {}
  /\ UNCHANGED nvars

-----------------------------------------------------------------------------

Next ==
  \/ \E u \in User : Nominating(u)
  \/ \E u \in User : AutoEnqueue(u)
  \/ Reviewing
  \/ \E w \in Worker : Working(w)
  \/ \E t \in tasks : CheckReturns(t)
  \/ RefreshReads
  \/ RefreshEnqueues

Spec == Init /\ [][Next]_vars

\* What a command does of itself
Command(u) ==
  (N!CommandStep(u) /\ UNCHANGED <<qvars, refresh>>) \/ AutoEnqueue(u)

(***************************************************************************)
(* The commands under way, the worker and its checks run on, and a         *)
(* reviewer who refreshes does so while something is new.  Nobody is       *)
(* obliged to nominate or to review.  The write of a check result waits    *)
(* for row locks in PostgreSQL's queue, first come first served, so other  *)
(* transactions on the row cannot pass it for ever: strong fairness.       *)
(***************************************************************************)
FairSpec ==
  /\ Spec
  /\ \A u \in User : WF_vars(Command(u))
  /\ \A w \in Worker : WF_vars(Working(w))
  /\ SF_vars(\E t \in tasks : CheckReturns(t))
  /\ WF_vars(RefreshReads \/ RefreshEnqueues)

-----------------------------------------------------------------------------
(* Properties *)

\* The number reviewers sort by, nomination_count, is the number of recorded
\* events.  Without the daily cap nothing keeps the recordings of one handle
\* apart but the row: the first two may both find none, and the later ones wait
\* for each other, while checks and reviewers change the row.  No count is lost.
CountMatchesEvents == N!CountMatchesEvents

\* Every nomination that was recorded is eventually checked or processed.
NominationsAreChecked ==
  \A h \in Handle : row[h].state = "new" ~> row[h].state # "new"
=============================================================================
