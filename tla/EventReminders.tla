--------------------------- MODULE EventReminders ---------------------------
(***************************************************************************)
(* Reminders of one Discord scheduled event: the cron ticks that look for  *)
(* due reminders and for a changed start time, the ledger of claims that   *)
(* keeps two ticks from posting the same thing, and its cleaning.          *)
(*                                                                         *)
(*   jobs/discord/event-reminder.job.ts                     the tick       *)
(*   services/event-reminders/event-reminders.repository.ts statements     *)
(*   jobs/discord/event-reminders-cleanup.job.ts            the cleaning   *)
(*                                                                         *)
(* A tick handles the events it has fetched one after the other and they   *)
(* share no row, so one event is enough.  node-cron does not wait for the  *)
(* previous tick: several run at a time, each with the start time Discord  *)
(* has answered and the clock it has read after that.                      *)
(***************************************************************************)
EXTENDS Integers, Sequences, FiniteSets

CONSTANTS
  Tick,          \* ticks under way at a time
  Starts,        \* start times the organiser may choose
  Horizon,       \* bound: the last moment
  Interval,      \* the cron schedule: the time from one tick to the next
  Delay,         \* the longest that configuration and events take to arrive
  Day, Hours,    \* how long before the start the 24h and the 6h reminders are due
  Tolerance,     \* TOLERANCE_MS
  NoticeWindow,  \* RESCHEDULE_NOTICE_WINDOW_MS
  Retention,     \* EVENT_REMINDERS_RETENTION_DAYS
  MaxMoves,      \* bound: changes of the start time
  MaxFaults,     \* bound: things that go wrong
  Never          \* not a moment

ASSUME EventAssumption ==
  /\ Starts \subseteq Nat /\ IsFiniteSet(Starts) /\ Never \notin Nat /\ Horizon \in Nat
  /\ Tolerance \in Nat /\ Delay \in Nat
  /\ Interval \in Nat /\ Interval > 0 /\ Interval + Delay <= 2 * Tolerance
  /\ Day \in Nat /\ Day > Tolerance /\ Hours \in Nat /\ Hours > Tolerance
  /\ NoticeWindow \in Nat
  /\ Retention \in Nat /\ Retention > 2 * Tolerance
  /\ MaxMoves \in Nat /\ MaxFaults \in Nat

Moment == 0..Horizon
Window == {"24h", "6h"}
OffsetOf(w) == IF w = "24h" THEN Day ELSE Hours

\* Keys of the ledger.  The key of a window does not depend on the start time.
WindowKey(w) == <<w, 0>>
NoticeKey(s) == <<"reschedule", s>>
Key == {WindowKey(w) : w \in Window} \cup {NoticeKey(s) : s \in Starts}

VARIABLES
  now,        \* the clock
  due,        \* when the schedule fires next
  start,      \* the start time Discord knows
  since,      \* when it was set
  moves,      \* how often it was changed
  claims,     \* event_reminders: when each key was claimed
  known,      \* event_state.last_known_start_time
  tick,       \* the ticks under way
  posts,      \* how often the message of each key has been posted
  lost,       \* keys that stay claimed though nobody will post them
  forgotten,  \* how many claims the cleaning has deleted
  faults      \* what has gone wrong so far

db == <<claims, known>>
event == <<start, since, moves>>
seen == <<posts, lost, forgotten>>
vars == <<now, due, event, db, tick, seen, faults>>

Run ==
  [pc : {"idle", "fetch", "clock", "state", "upsert", "claim", "send", "release"},
   start : Starts,                 \* what Discord has answered
   now : Moment,                   \* when it fired, and then the clock it has read
   todo : Seq(Key)]                \* the reminders it is still to handle
IdleRun == [pc |-> "idle", start |-> CHOOSE s \in Starts : TRUE, now |-> 0, todo |-> <<>>]

TypeOK ==
  /\ now \in Moment /\ due \in Nat /\ since \in Moment
  /\ start \in Starts /\ moves \in 0..MaxMoves /\ faults \in 0..MaxFaults
  /\ claims \in [Key -> Moment \cup {Never}]
  /\ known \in Starts \cup {Never}
  /\ tick \in [Tick -> Run]
  /\ \A t \in Tick : tick[t].pc \in {"claim", "send", "release"} => tick[t].todo # <<>>
  /\ posts \in [Key -> Nat] /\ lost \subseteq Key /\ forgotten \in Nat

Init ==
  /\ now = 0 /\ due \in 0..(Interval - 1) /\ since = 0 /\ moves = 0 /\ faults = 0
  /\ start \in Starts
  /\ claims = [k \in Key |-> Never]
  /\ known = Never
  /\ tick = [t \in Tick |-> IdleRun]
  /\ posts = [k \in Key |-> 0] /\ lost = {} /\ forgotten = 0

\* Something goes wrong.
Fault == faults < MaxFaults /\ faults' = faults + 1

-----------------------------------------------------------------------------
(* The tick *)

Drift(w, s, t) == IF s - t >= OffsetOf(w) THEN s - t - OffsetOf(w) ELSE OffsetOf(w) - (s - t)
StrictlyNear(w, s, t) == Drift(w, s, t) < Tolerance
Near(w, s, t) == Drift(w, s, t) <= Tolerance

IfNear(w, s, t) == IF Near(w, s, t) THEN <<WindowKey(w)>> ELSE <<>>
WindowKeys(s, t) == IfNear("24h", s, t) \o IfNear("6h", s, t)

Turn(t, pc) == tick' = [tick EXCEPT ![t].pc = pc]

\* The run with these reminders left to handle
Left(k, todo) == IF todo = <<>> THEN IdleRun ELSE [k EXCEPT !.pc = "claim", !.todo = todo]
Proceed(t) == tick' = [tick EXCEPT ![t] = Left(tick[t], Tail(tick[t].todo))]

\* The schedule fires; the configuration and the events are asked for, ...
StartTick(t) ==
  /\ tick[t].pc = "idle"
  /\ due = now /\ due' = now + Interval
  /\ tick' = [tick EXCEPT ![t] = [IdleRun EXCEPT !.pc = "fetch", !.now = now]]
  /\ UNCHANGED <<now, event, db, seen, faults>>

\* ... Discord answers with the event, ...
FetchEvent(t) ==
  /\ tick[t].pc = "fetch"
  /\ tick' = [tick EXCEPT ![t].pc = "clock", ![t].start = start]
  /\ UNCHANGED <<now, due, event, db, seen, faults>>

\* ... and once that is here the clock is read.  A started event is not handled.
ReadClock(t) ==
  LET s == tick[t].start
  IN  /\ tick[t].pc = "clock"
      /\ tick' = [tick EXCEPT ![t] =
            IF s > now
              THEN [pc |-> "state", start |-> s, now |-> now, todo |-> WindowKeys(s, now)]
              ELSE IdleRun]
      /\ UNCHANGED <<now, due, event, db, seen, faults>>

\* There is no configuration, or Discord does not answer.
FetchFails(t) ==
  /\ tick[t].pc \in {"fetch", "clock"}
  /\ Fault
  /\ tick' = [tick EXCEPT ![t] = IdleRun]
  /\ UNCHANGED <<now, due, event, db, seen>>

\* The bot is down when the schedule would fire.
SkipTick ==
  /\ Fault
  /\ due = now /\ due' = now + Interval
  /\ UNCHANGED <<now, event, db, tick, seen>>

\* handleRescheduleNotice: getEventState.  When it throws there is no notice.
ReadState(t) ==
  LET k == tick[t]
  IN  /\ k.pc = "state"
      /\ \/ /\ tick' = [tick EXCEPT ![t] =
                 IF known = k.start THEN Left(k, k.todo)
                 ELSE IF known = Never \/ k.start - k.now > NoticeWindow
                   THEN [k EXCEPT !.pc = "upsert"]
                 ELSE [k EXCEPT !.pc = "upsert", !.todo = <<NoticeKey(k.start)>> \o @]]
            /\ UNCHANGED faults
         \/ /\ Fault
            /\ tick' = [tick EXCEPT ![t] = Left(k, k.todo)]
      /\ UNCHANGED <<now, due, event, db, seen>>

\* The notice comes first, if there is one.
WithoutNotice(todo) ==
  IF todo # <<>> /\ Head(todo) \notin {WindowKey(w) : w \in Window} THEN Tail(todo) ELSE todo

\* upsertEventState comes before the notice, and is not undone if that fails.
Upsert(t) ==
  LET k == tick[t]
  IN  /\ k.pc = "upsert"
      /\ \/ /\ known' = k.start
            /\ tick' = [tick EXCEPT ![t] = Left(k, k.todo)]
            /\ UNCHANGED faults
         \/ /\ Fault
            /\ known' \in {known, k.start}
            /\ tick' = [tick EXCEPT ![t] = Left(k, WithoutNotice(k.todo))]
      /\ UNCHANGED <<now, due, event, claims, seen>>

\* tryClaimReminder: INSERT .. ON CONFLICT DO NOTHING
AlwaysFree(key) == TRUE
Unclaimed(key) == claims[key] = Never

Claim(t) ==
  LET key == Head(tick[t].todo)
  IN  /\ tick[t].pc = "claim"
      /\ IF Unclaimed(key)
           THEN /\ claims' = [claims EXCEPT ![key] = now]
                /\ Turn(t, "send")
           ELSE /\ Proceed(t)
                /\ UNCHANGED claims
      /\ UNCHANGED <<now, due, event, known, seen, faults>>

\* There is no channel to post to, or the statement throws, committed or not.
ClaimFails(t) ==
  LET key == Head(tick[t].todo)
  IN  /\ tick[t].pc = "claim"
      /\ Fault /\ Proceed(t)
      /\ \/ UNCHANGED <<claims, lost>>
         \/ /\ Unclaimed(key)
            /\ claims' = [claims EXCEPT ![key] = now]
            /\ lost' = lost \cup {key}
      /\ UNCHANGED <<now, due, event, known, posts, forgotten>>

Post(key) == posts' = [posts EXCEPT ![key] = @ + 1]

Send(t) ==
  /\ tick[t].pc = "send"
  /\ Post(Head(tick[t].todo)) /\ Proceed(t)
  /\ UNCHANGED <<now, due, event, db, lost, forgotten, faults>>

\* channel.send throws, and the message may be there all the same.
KeepsClaim(t) == Proceed(t)
AfterFailure(t) == Turn(t, "release")

SendFails(t) ==
  /\ tick[t].pc = "send"
  /\ Fault /\ AfterFailure(t)
  /\ Post(Head(tick[t].todo)) \/ UNCHANGED posts
  /\ UNCHANGED <<now, due, event, db, lost, forgotten>>

\* releaseReminderClaim, which may throw
Release(t) ==
  LET key == Head(tick[t].todo)
  IN  /\ tick[t].pc = "release"
      /\ Proceed(t)
      /\ \/ /\ claims' = [claims EXCEPT ![key] = Never]
            /\ UNCHANGED <<lost, faults>>
         \/ /\ Fault
            /\ lost' = lost \cup {key}
            /\ UNCHANGED claims
      /\ UNCHANGED <<now, due, event, known, posts, forgotten>>

-----------------------------------------------------------------------------
(* Around the tick *)

\* Keys a tick has claimed and not yet dealt with
Held == {Head(tick[t].todo) : t \in {u \in Tick : tick[u].pc \in {"send", "release"}}}

\* The bot restarts.
Crash ==
  /\ Fault
  /\ tick' = [t \in Tick |-> IdleRun]
  /\ lost' = lost \cup Held
  /\ UNCHANGED <<now, due, event, db, posts, forgotten>>

\* The organiser changes the start time.
Move(s) ==
  /\ moves < MaxMoves /\ start > now
  /\ s # start /\ s > now
  /\ start' = s /\ since' = now /\ moves' = moves + 1
  /\ UNCHANGED <<now, due, db, tick, seen, faults>>

\* The schedule fires in time, and no tick runs for as long as the retention.  An
\* answer that takes longer than Delay is a fault.
Waiting(t) == tick[t].pc \in {"fetch", "clock"}
Overdue(t) == Waiting(t) /\ now >= tick[t].now + Delay

Advance ==
  /\ now < Horizon
  /\ now < due
  /\ \A t \in Tick : tick[t].pc # "idle" => now + 1 < tick[t].now + Retention
  /\ now' = now + 1
  /\ IF \E t \in Tick : Overdue(t) THEN Fault ELSE UNCHANGED faults
  /\ UNCHANGED <<due, event, db, tick, seen>>

\* deleteOldReminderClaims and deleteOldEventState
Expired == {k \in Key : claims[k] # Never /\ claims[k] + Retention <= now}

Cleanup ==
  /\ Expired # {}
  /\ claims' = [k \in Key |-> IF k \in Expired THEN Never ELSE claims[k]]
  /\ known' = IF known # Never /\ known + Retention <= now THEN Never ELSE known
  /\ lost' = lost \ Expired
  /\ forgotten' = forgotten + Cardinality(Expired)
  /\ UNCHANGED <<now, due, event, tick, posts, faults>>

TickStep(t) ==
  \/ StartTick(t)
  \/ FetchEvent(t)
  \/ ReadClock(t)
  \/ FetchFails(t)
  \/ ReadState(t)
  \/ Upsert(t)
  \/ Claim(t)
  \/ ClaimFails(t)
  \/ Send(t)
  \/ SendFails(t)
  \/ Release(t)

Next ==
  \/ \E t \in Tick : TickStep(t)
  \/ SkipTick
  \/ Crash
  \/ \E s \in Starts : Move(s)
  \/ Advance
  \/ Cleanup

Spec == Init /\ [][Next]_vars

-----------------------------------------------------------------------------
(* Properties *)

\* Whatever ticks overlap and however often the event is moved and moved back,
\* a message is repeated only after a failure, or after its claim was cleaned.
PostedOncePerClaim == \A k \in Key : posts[k] <= 1 + faults + forgotten

\* A claim keeps others from posting, so it stands only for a message that was
\* posted, that a tick is about to post or to release, or whose tick was cut off.
ClaimsAreKept ==
  \A k \in Key : claims[k] # Never => posts[k] > 0 \/ k \in Held \cup lost

\* If nothing fails, a schedule misses no window as long as its interval and the
\* time an answer takes are together at most two tolerances: once the window of a
\* start time that stood before it opened is over, the reminder has been posted,
\* or a tick that began in time is at work on it.
RemindersComeInTime ==
  faults = 0 =>
    \A w \in Window :
      LET best == start - OffsetOf(w)
      IN  since <= best - Tolerance /\ now > best + Tolerance =>
            \/ posts[WindowKey(w)] > 0
            \/ \E t \in Tick : \E i \in DOMAIN tick[t].todo : tick[t].todo[i] = WindowKey(w)
=============================================================================
