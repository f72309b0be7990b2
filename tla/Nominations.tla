---------------------------- MODULE Nominations ----------------------------
(***************************************************************************)
(* The nominations of RSI handles: the /nominate-player command with its   *)
(* anti-abuse checks and its recording transaction, the results the org    *)
(* check writes back, and the reviewers' /nomination-process command.      *)
(*                                                                         *)
(*   commands/nominate-player.command.ts       Submit .. EnqueueCall       *)
(*   services/nominations/anti-abuse.service.ts                            *)
(*   services/nominations/nominations.repository.ts                        *)
(*   commands/nomination-process.command.ts    ReviewOne .. MarkAll        *)
(*                                                                         *)
(* The tables live in PostgreSQL at READ COMMITTED.  A transaction is cut  *)
(* where it waits for a lock or where another session can change what it   *)
(* has read; from its last lock to COMMIT it is one step.                  *)
(***************************************************************************)
EXTENDS Naturals, Sequences, FiniteSets

CONSTANTS
  Handle,      \* normalized RSI handles
  User,        \* members who nominate
  Request,     \* slots for /nominate-player interactions under way
  Admin,       \* reviewers, each with one /nomination-process at a time
  Null,        \* no user, no handle
  TargetMax,   \* policy.targetMaxPerDay, 0: off
  UserMax,     \* policy.userMaxPerDay, 0: off
  Cooldown,    \* is policy.userCooldownSeconds positive?
  MaxEvents    \* bound: nominations recorded in a behaviour

ASSUME NominationsAssumption ==
  /\ IsFiniteSet(Handle)
  /\ IsFiniteSet(Request)
  /\ Null \notin Admin \cup User \cup Handle
  /\ TargetMax \in Nat /\ UserMax \in Nat /\ MaxEvents \in Nat
  /\ Cooldown \in BOOLEAN

VARIABLES
  row,       \* nominations
  events,    \* nomination_events, in the order they were inserted
  expired,   \* how many of the oldest events have left the 24-hour window
  cooling,   \* users whose latest nomination is younger than the cool-down
  cmd,       \* the /nominate-player interactions
  review,    \* the /nomination-process interactions
  telling,   \* calls of notifyNominatorsForHandle(s) under way for a handle
  notices    \* how often the nominators of a handle were told of its review

vars == <<row, events, expired, cooling, cmd, review, telling, notices>>

Checked == {"checked", "qualified", "disqualified_in_org"}
Unprocessed == {"new"} \cup Checked
State == {"absent", "processed"} \cup Unprocessed

Row == [state : State, count : Nat, by : Admin \cup {Null}]
Event == [handle : Handle, user : User]
Command == [pc : {"idle", "abuse", "citizen", "begin", "select", "write",
                  "reply", "enqueue"},
            user : User \cup {Null}, handle : Handle \cup {Null},
            seen : State]      \* lifecycle_state the transaction has read
Review == [pc : {"idle", "prompt", "mark", "force", "promptAll", "markAll", "marked"},
           targets : SUBSET Handle]

TypeOK ==
  /\ row \in [Handle -> Row]
  /\ events \in Seq(Event)
  /\ expired \in 0..Len(events)
  /\ cooling \subseteq User
  /\ cmd \in [Request -> Command]
  /\ review \in [Admin -> Review]
  /\ telling \in [Handle -> Nat]
  /\ notices \in [Handle -> Nat]

AbsentRow == [state |-> "absent", count |-> 0, by |-> Null]
IdleCommand == [pc |-> "idle", user |-> Null, handle |-> Null, seen |-> "absent"]
IdleReview == [pc |-> "idle", targets |-> {}]

Init ==
  /\ row = [h \in Handle |-> AbsentRow]
  /\ events = <<>>
  /\ expired = 0
  /\ cooling = {}
  /\ cmd = [r \in Request |-> IdleCommand]
  /\ review = [a \in Admin |-> IdleReview]
  /\ telling = [h \in Handle |-> 0]
  /\ notices = [h \in Handle |-> 0]

-----------------------------------------------------------------------------
(* Events and locks *)

EventsOf(h) == {i \in DOMAIN events : events[i].handle = h}
Recent == (expired + 1)..Len(events)
RecentOf(h) == EventsOf(h) \cap Recent
RecentBy(u) == {i \in Recent : events[i].user = u}

Underway == {r \in Request : cmd[r].pc # "idle"}

\* nominationsInProgress: taken before the first check, released after the reply
InProgress(u) ==
  \E r \in Request : cmd[r].user = u /\ cmd[r].pc \notin {"idle", "enqueue"}

\* pg_advisory_xact_lock('nomination_target:' || handle), when the cap is on
TargetLocked(h) ==
  \E r \in Request : cmd[r].handle = h /\ cmd[r].pc \in {"select", "write"}

\* SELECT ... FOR UPDATE locks the row it finds, and nothing when it finds none.
RowLocked(h) ==
  \E r \in Request : /\ cmd[r].handle = h
                     /\ cmd[r].pc = "write"
                     /\ cmd[r].seen # "absent"

UnprocessedHandles == {h \in Handle : row[h].state \in Unprocessed}

At(r, pc) == cmd' = [cmd EXCEPT ![r].pc = pc]
Ends(r) == cmd' = [cmd EXCEPT ![r] = IdleCommand]

-----------------------------------------------------------------------------
(* /nominate-player *)

Submit(r, u, h) ==
  /\ cmd[r].pc = "idle"
  /\ ~InProgress(u)
  /\ Len(events) + Cardinality(Underway) < MaxEvents
  /\ cmd' = [cmd EXCEPT ![r] =
               [pc |-> "abuse", user |-> u, handle |-> h, seen |-> "absent"]]
  /\ UNCHANGED <<row, events, expired, cooling, review, telling, notices>>

\* checkNominationAntiAbuse
ViolatesDailyCap(u, h) ==
  \/ TargetMax > 0 /\ Cardinality(RecentOf(h)) >= TargetMax
  \/ UserMax > 0 /\ Cardinality(RecentBy(u)) >= UserMax
Violates(u, h) ==
  \/ Cooldown /\ u \in cooling
  \/ TargetMax > 0 /\ Cardinality(RecentOf(h)) >= TargetMax
  \/ UserMax > 0 /\ Cardinality(RecentBy(u)) >= UserMax

AntiAbuse(r) ==
  /\ cmd[r].pc = "abuse"
  /\ IF Violates(cmd[r].user, cmd[r].handle) THEN Ends(r) ELSE At(r, "citizen")
  /\ UNCHANGED <<row, events, expired, cooling, review, telling, notices>>

\* checkCitizenExists: found and unavailable go on, not_found ends the command
CitizenCheck(r) ==
  /\ cmd[r].pc = "citizen"
  /\ At(r, "begin") \/ Ends(r)
  /\ UNCHANGED <<row, events, expired, cooling, review, telling, notices>>

\* recordNomination: BEGIN, and with the cap on the advisory lock and the count;
\* at the cap NominationTargetCapExceededError rolls the transaction back.
TargetFreeToLock(h) == TRUE
MayLockTarget(h) == ~TargetLocked(h)
BeginRecord(r) ==
  /\ cmd[r].pc = "begin"
  /\ TargetMax > 0 => MayLockTarget(cmd[r].handle)
  /\ IF TargetMax > 0 /\ Cardinality(RecentOf(cmd[r].handle)) >= TargetMax
       THEN Ends(r) ELSE At(r, "select")
  /\ UNCHANGED <<row, events, expired, cooling, review, telling, notices>>

SelectRow(r) ==
  /\ cmd[r].pc = "select"
  /\ ~RowLocked(cmd[r].handle)
  /\ cmd' = [cmd EXCEPT ![r].pc = "write", ![r].seen = row[cmd[r].handle].state]
  /\ UNCHANGED <<row, events, expired, cooling, review, telling, notices>>

\* A processed row only counts; INSERT .. ON CONFLICT DO UPDATE makes any other
\* row new, whatever the row is by the time the conflict is resolved, and adds
\* one to the count it has then.
CountedAsRead(h, seen) ==
  IF seen = "processed" THEN [row[h] EXCEPT !.count = @ + 1]
  ELSE [state |-> "new", count |-> IF seen = "absent" THEN 1 ELSE row[h].count + 1,
        by |-> Null]
ReopenedWhenNominated(h, seen) ==
  [state |-> "new", count |-> row[h].count + 1, by |-> Null]
Nominated(h, seen) ==
  IF seen = "processed" THEN [row[h] EXCEPT !.count = @ + 1]
  ELSE [state |-> "new", count |-> row[h].count + 1, by |-> Null]

\* The row, the event and COMMIT.  The conflict waits for a locked row.
Record(r) ==
  LET h == cmd[r].handle
      u == cmd[r].user
  IN  /\ cmd[r].pc = "write"
      /\ cmd[r].seen = "absent" => ~RowLocked(h)
      /\ row' = [row EXCEPT ![h] = Nominated(h, cmd[r].seen)]
      /\ events' = Append(events, [handle |-> h, user |-> u])
      /\ cooling' = IF Cooldown THEN cooling \cup {u} ELSE cooling
      /\ At(r, "reply")
      /\ UNCHANGED <<expired, review, telling, notices>>

\* Any statement throws (ROLLBACK), or the reply does: the command ends early.
CommandFails(r) ==
  /\ cmd[r].pc \in {"abuse", "begin", "select", "write", "reply"}
  /\ Ends(r)
  /\ UNCHANGED <<row, events, expired, cooling, review, telling, notices>>

Reply(r) ==
  /\ cmd[r].pc = "reply"
  /\ At(r, "enqueue")
  /\ UNCHANGED <<row, events, expired, cooling, review, telling, notices>>

\* The fire-and-forget enqueueNominationCheckJob returns, one way or the other.
EnqueueCall(r) ==
  /\ cmd[r].pc = "enqueue"
  /\ Ends(r)
  /\ UNCHANGED <<row, events, expired, cooling, review, telling, notices>>

-----------------------------------------------------------------------------
(* updateOrgCheckResult, called by the worker for any handle at any time *)

Code == {"in_org", "not_in_org", "inconclusive"}   \* OrgCheckResultCode

\* deriveLifecycleStateFromOrgCheck
StateOf(code) ==
  IF code = "in_org" THEN "disqualified_in_org"
  ELSE IF code = "not_in_org" THEN "qualified" ELSE "checked"

AnyRow(h) == row[h].state # "absent"
TakesCheck(h) == row[h].state \notin {"absent", "processed"}

StoreCheck(h, code) ==
  /\ ~RowLocked(h)
  /\ TakesCheck(h)
  /\ row' = [row EXCEPT ![h].state = StateOf(code)]
  /\ UNCHANGED <<events, expired, cooling, cmd, review, telling, notices>>

-----------------------------------------------------------------------------
(* /nomination-process *)

Reviewing(a, pc, S) == review' = [review EXCEPT ![a] = [pc |-> pc, targets |-> S]]

ReviewOne(a, h) ==
  /\ review[a].pc = "idle"
  /\ h \in UnprocessedHandles
  /\ Reviewing(a, IF row[h].state = "qualified" THEN "mark" ELSE "prompt", {h})
  /\ UNCHANGED <<row, events, expired, cooling, cmd, telling, notices>>

ProcessAnyway(a) ==
  /\ review[a].pc = "prompt"
  /\ Reviewing(a, "force", review[a].targets)
  /\ UNCHANGED <<row, events, expired, cooling, cmd, telling, notices>>

ReviewAll(a) ==
  /\ review[a].pc = "idle"
  /\ UnprocessedHandles # {}
  /\ Reviewing(a, "promptAll", {})
  /\ UNCHANGED <<row, events, expired, cooling, cmd, telling, notices>>

\* The bulk UPDATE takes its snapshot of the rows to process ...
ConfirmAll(a) ==
  /\ review[a].pc = "promptAll"
  /\ Reviewing(a, "markAll", UnprocessedHandles)
  /\ UNCHANGED <<row, events, expired, cooling, cmd, telling, notices>>

\* ... and an UPDATE waits for each locked row, then looks at it once more.
AlreadyAimedAt(h) == row[h].state # "absent"
StillUnprocessed(h) == row[h].state \in Unprocessed

Mark(a) ==
  LET marked == {h \in review[a].targets : StillUnprocessed(h)}
  IN  /\ review[a].pc \in {"mark", "force", "markAll"}
      /\ \A h \in review[a].targets : ~RowLocked(h)
      /\ row' = [h \in Handle |-> IF h \in marked
                    THEN [row[h] EXCEPT !.state = "processed", !.by = a] ELSE row[h]]
      /\ Reviewing(a, "marked", marked)
      /\ UNCHANGED <<events, expired, cooling, cmd, telling, notices>>

\* The answer of the UPDATE says what it has marked: the nominators of that are
\* told by a call nobody waits for.
Answered(a) ==
  /\ review[a].pc = "marked"
  /\ telling' = [h \in Handle |->
                   IF h \in review[a].targets THEN telling[h] + 1 ELSE telling[h]]
  /\ review' = [review EXCEPT ![a] = IdleReview]
  /\ UNCHANGED <<row, events, expired, cooling, cmd, notices>>

\* That call tells them, or fails: its errors are logged and nothing is repeated.
Tell(h) ==
  /\ telling[h] > 0
  /\ telling' = [telling EXCEPT ![h] = @ - 1]
  /\ notices' = [notices EXCEPT ![h] = @ + 1] \/ UNCHANGED notices
  /\ UNCHANGED <<row, events, expired, cooling, cmd, review>>

\* Cancelled, timed out, or the UPDATE threw, be it that only its answer was lost.
ReviewEnds(a) ==
  /\ review[a].pc # "idle"
  /\ review' = [review EXCEPT ![a] = IdleReview]
  /\ UNCHANGED <<row, events, expired, cooling, cmd, telling, notices>>

-----------------------------------------------------------------------------
(* Time and restarts *)

OldestEventExpires ==
  /\ expired < Len(events)
  /\ expired' = expired + 1
  /\ UNCHANGED <<row, events, cooling, cmd, review, telling, notices>>

CooldownEnds(u) ==
  /\ u \in cooling
  /\ cooling' = cooling \ {u}
  /\ UNCHANGED <<row, events, expired, cmd, review, telling, notices>>

\* The bot restarts: open transactions roll back, prompts are orphaned, and
\* nobody is told of what was processed just before.
Restart ==
  /\ cmd' = [r \in Request |-> IdleCommand]
  /\ review' = [a \in Admin |-> IdleReview]
  /\ telling' = [h \in Handle |-> 0]
  /\ UNCHANGED <<row, events, expired, cooling, notices>>

-----------------------------------------------------------------------------

CommandStep(r) ==
  \/ AntiAbuse(r)
  \/ CitizenCheck(r)
  \/ BeginRecord(r)
  \/ SelectRow(r)
  \/ Record(r)
  \/ Reply(r)

ReviewStep(a) ==
  \/ \E h \in Handle : ReviewOne(a, h)
  \/ ProcessAnyway(a)
  \/ ReviewAll(a)
  \/ ConfirmAll(a)
  \/ Mark(a)
  \/ Answered(a)
  \/ ReviewEnds(a)

Next ==
  \/ \E r \in Request, u \in User, h \in Handle : Submit(r, u, h)
  \/ \E r \in Request : CommandStep(r)
  \/ \E r \in Request : EnqueueCall(r)
  \/ \E r \in Request : CommandFails(r)
  \/ \E h \in Handle, code \in Code : StoreCheck(h, code)
  \/ \E a \in Admin : ReviewStep(a)
  \/ \E h \in Handle : Tell(h)
  \/ OldestEventExpires
  \/ \E u \in User : CooldownEnds(u)
  \/ Restart

Spec == Init /\ [][Next]_vars

-----------------------------------------------------------------------------
(* Properties *)

\* The number reviewers sort by, nomination_count, is the number of recorded
\* events: concurrent recordings of one handle never lose or repeat a count.
CountMatchesEvents ==
  \A h \in Handle : row[h].count = Cardinality(EventsOf(h))

\* NOMINATION_TARGET_MAX_PER_DAY holds over all users, since the count and the
\* event are written under one advisory lock.
TargetCapHolds ==
  TargetMax > 0 => \A h \in Handle : Cardinality(RecentOf(h)) <= TargetMax

\* NOMINATION_USER_MAX_PER_DAY holds although it is only checked before the
\* transaction: the in-process set of users keeps a user to one command.
UserCapHolds ==
  UserMax > 0 => \A u \in User : Cardinality(RecentBy(u)) <= UserMax

\* Both daily caps hold through any overlap of commands.
CapsHold == TargetCapHolds /\ UserCapHolds

\* A user's next nomination is recorded only after the cool-down.
CooldownHolds ==
  [][Cooldown /\ Len(events') > Len(events)
       => events'[Len(events')].user \notin cooling]_vars

\* The nominators of a handle are told of its review at most once, and not before
\* it has been processed: however many reviewers, prompts and late nominations
\* meet.  At most: a restart, a lost answer of the UPDATE or a failed message
\* after it leaves a processed nomination whose nominators are never told.
ToldAtMostOnce ==
  \A h \in Handle : notices[h] <= IF row[h].state = "processed" THEN 1 ELSE 0

\* A processed nomination stays processed, by the same reviewer.
ProcessedIsFinal ==
  [][\A h \in Handle : row[h].state = "processed" =>
       row'[h].state = "processed" /\ row'[h].by = row[h].by]_vars

\* The interleaved transactions together behave like the lifecycle.
Lifecycle == INSTANCE NominationLifecycle WITH state <- [h \in Handle |-> row[h].state]
ImplementsLifecycle == Lifecycle!Spec
=============================================================================
