# station-bot in TLA+

station-bot is a Discord bot of a Star Citizen organisation, one Node.js process
on top of PostgreSQL (the statements of its check queue, with `FOR UPDATE SKIP
LOCKED`, are written for several).  This directory holds a verification project
for it: TLA+ modules that model its stateful parts, TLC configurations that
model-check them, and TLAPS proofs of the properties that matter most.
Paths are those of the repository; one that starts with `commands/`, `domain/`, `jobs/`
or `services/` is relative to the program's own `src/`.

Run in this directory:

    tlc -workers 2 -config QueueOneWorker.cfg MCNominationJobQueue   # any run
    tlapm NominationJobQueueProofs.tla                               # any proof

`PROJECT.json` lists the components, the runs with their properties, for each
definition the lines of source it stands for, a mutation of the code that
violates each property, the hazards the properties are for, and the theorems.

## 1. The system

A member talks to the bot with slash commands, buttons and modals.  discord.js
delivers each as an event; its handler is an async function, so handlers
interleave at every `await`.  What outlives a handler is in PostgreSQL (used at
READ COMMITTED), in module-level maps and sets of the process, or in messages
the bot has posted on Discord.  Cron tasks (node-cron, which does not wait for
the previous tick) and one `setInterval` loop work next to the handlers.

    /nominate-player ──record──> nominations ──enqueue──> check jobs <──claim── worker loop
                                     ^  ^                                          │
    /nomination-process ──process────┘  └───────────── result of the check ────────┤
                                                                       org check ──┴─> rate limiter ─> RSI site
                                                                           └─> worker thread (parses the pages)
    /verify ──session──> button ──code on the page?──> role, nickname
    /configure ──session──> row of the guild ──> cron jobs of the guild
    /exec-hangar, start-up ──> stored change of the hangar ──> derived status
    /order ──session──> orders ──> two forum posts <──buttons── member, staff
    /station-timer ──> timers <──claim── cron tick ──> announcement
    scheduled events <──fetch── cron tick ──claim──> reminder ledger ──> message

### Inventory

| component | state it keeps | operations | talks to |
|---|---|---|---|
| check queue and worker (`services/nominations/job-queue.repository.ts`, `job-worker.service.ts`) | tables of jobs and items with status, attempt and `locked_at`; the cycle and the calls of each process | enqueue, claim job, claim items, check, complete / requeue / fail, refresh progress, poll | rate limiter and RSI site; nominations (write-back) |
| nominations (`commands/nominate-player.command.ts`, `nominations.repository.ts`, `anti-abuse.service.ts`, `lifecycle.service.ts`) | rows with lifecycle state and count, events, the in-process set of members who are nominating | submit, anti-abuse checks, citizen check, recording transaction, write-back of a check | queue (automatic enqueue) |
| review (`commands/nomination-process.command.ts`) | prompts under way | process one or all, with a prompt when checks are missing; tell the nominators | nominations |
| refresh (`commands/nomination-refresh.command.ts`) | – | read targets, enqueue them | queue |
| RSI checks and their rate limiter (`services/nominations/org-check.service.ts`) | wait queue, counter, time of the last start, one timer; the loop of each check | check membership, check existence: fetch with retries, parse | RSI site, worker thread |
| HTML parse worker pool (`workers/`) | the current thread, the requests in flight by id | send, answer, error, exit | RSI checks |
| manufacturing orders (`domain/manufacturing/`, `commands/order-actions.command.ts`) | orders with status and thread ids; the two posts | advance, cancel by member or staff, edit both posts | Discord forums |
| order submission (`commands/order-submit.command.ts`) | sessions and rate-limit time stamps, in memory | open, add item, submit, create the threads, expire | manufacturing orders |
| station timers (`domain/station-timer/`, `services/station-timer/`) | timers with slot and status | start, stop, claim due, announce, complete, reset | Discord |
| event reminders (`jobs/discord/event-reminder.job.ts`, `services/event-reminders/`) | ledger of claims, last start time seen | tick, claim, post, release, clean | Discord events |
| member verification (`commands/verify.command.ts`, `interactions/verifyButton.ts`, `services/rsi.services.ts`) | one session with a code per member and rate-limit time stamps, in memory; roles and nicknames on Discord | `/verify`, press the button, expire, purge | RSI site |
| executive hangar timer (`services/exec-hangar/`, `domain/exec-hangar/`) | one row: a change of the hangar and the durations | resync from the site, manual change, new durations, start-up resync, derive the status | a site that knows the schedule |
| guild configuration (`domain/guild-config/`, `commands/configure.command.ts`) | one row per guild; sessions of the wizard in memory | seed, upsert, the wizard's forms, menus, Skip and Save | cron jobs |
| scheduled jobs and start-up (`index.ts`, `jobs/discord/purge-member.job.ts`, `nomination-digest.job.ts`, `manufacturing-keepalive.job.ts`) | cron tasks per guild | schedule all, reschedule one, tick | Discord |
| read-only commands, access control, routing, database pool, support code | – or single statements | – | – |

### What is hard, and what correctness means there

*Check queue.*  Several instances, and the calls an aborted cycle leaves running,
claim from one table; a lock is only a time stamp; complete, requeue and fail
name their row by its id alone; the progress of a job is counted and stored by
two statements.  Correct means: an item has one task at a time, attempts are
counted exactly, what is settled stays settled, a finished job tells the truth
and stays finished, and every accepted job finishes in spite of crashes.

*Nominations.*  Checks are made long before the transaction that depends on
them, a row that does not exist yet cannot be locked, check results and
reviewers meet new nominations.  Correct means: the daily caps and the cool-down
hold, the count is exact, a processed nomination stays processed, nominators are
told at most once and of a processed one only, and together it all behaves like the lifecycle of
`lifecycle.service.ts`.

*Queue and nominations together.*  An enqueue may be answered by a job that is
as good as over.  Correct means: a recorded nomination is checked in the end.

*RSI checks.*  A request, a timer or a waiting call may each be the one that drains
the queue of the limiter, one start at a time; a retry sleeps and queues again.  The
worker thread dies with an error event, an exit event or both, while a new one is
spawned and messages to the dead one vanish.  Correct means: both limits hold, no
parse is forgotten or answered to the wrong check, every check returns.

*Station timers.*  Ticks overlap, a claimed timer frees its slot, completion can
fail after the announcement.  Correct means: slots are unambiguous, caps hold,
nothing is claimed twice or announced twice, every timer ends.

*Orders.*  Limits are checked early without a lock and again in the insert; the
session is deleted before the awaits; several buttons are pressed at a time from
posts that have fallen behind; two forum threads are created one after the other
while the first has live buttons already.  Correct means: limits hold, one
session makes one order, an order moves along its lifecycle, posts end up true.

*Event reminders.*  Ticks overlap, events are moved, a claim precedes the post.
Correct means: nothing is posted twice, a failed post gives its claim back, and
the window of a reminder is not missed between two ticks.

*Verification.*  A press of the button awaits Discord, the database, the RSI site
and Discord again; at each await the member may ask for another handle, press again
or let the session expire.  Correct means: role and nickname follow a proof.

*Guild configuration.*  Two seeds and any number of wizards write one row; a save
awaits twice and its cron job is set up after the answer, while start-up sets up all
jobs from rows it read earlier; Skip and Save of one session overlap.  Correct means:
the jobs are those the row asks for, a save stores what was chosen for its feature
and touches no other.

*Executive hangar.*  The status is arithmetic from a change that may be many cycles
old, with a drift that is shared out by rounding.  Correct means: the bot says what
the site says, and the change it announces is ahead and comes as announced.

`PROJECT.json` lists these hazards at their lines, and for those that no
property covers the reason.

## 2. The modules

| module | models | composes |
|---|---|---|
| `NominationJobQueue` | the check queue and its workers | |
| `NominationLifecycle` | abstract: what a nomination promises its reviewers | |
| `Nominations` | `/nominate-player`, the write-back, `/nomination-process` | instantiates `NominationLifecycle` |
| `NominationPipeline` | automatic enqueue and `/nomination-refresh` | instantiates `Nominations` and `NominationJobQueue` |
| `RsiRateLimiter` | `withRateLimit` | |
| `HtmlParsePool` | the worker thread, its death and its successors | |
| `OrgCheck` | both checks: fetch loops and parses | extends `RsiRateLimiter` and `HtmlParsePool` |
| `StationTimers` | `/station-timer` and its cron tick | |
| `ManufacturingOrders` | orders, their posts, the buttons | |
| `OrderSubmission` | `/order`, sessions, the threads | extends `ManufacturingOrders` |
| `EventReminders` | the reminder tick, its ledger, the cleaning | |
| `MemberVerification` | `/verify` and its button | |
| `GuildConfiguration` | the row of a guild, both seeds, start-up and the cron jobs | |
| `ConfigureWizard` | `/configure` | extends `GuildConfiguration` |
| `ExecHangar` | the stored change, its writers, the derived status | |
| `MC*` | symmetry sets and small values for TLC | |
| `*Proofs` | theorems and their proofs | |

Every action is one stretch of code that nothing of the same data can interrupt:
one committed SQL statement or transaction, or the code between two awaits where
the state is in memory.  A transaction at READ COMMITTED is cut where it waits for
a lock and where another session can change what it has read; from its last lock
to COMMIT it is one step.  A bulk UPDATE is one step, at its last lock.

**NominationJobQueue.**  `jobs` and `items` are the two tables (an item belongs to
a job and a handle), `cycle` the local variables of `runNominationCheckWorkerCycle`
per process, `tasks` the calls of `mapWithConcurrency` that have not returned.  A
task belongs to its cycle only as long as the cycle awaits it: `GiveBackThrows` is
the rejected `Promise.all` that leaves its siblings running (`awaited = FALSE`).
Items claimed but not yet started by the five-wide loop are tasks in "checking";
when a cycle is aborted they may simply stay there until the process dies.  Time is
the age of a lock: `held`, then `stale`.  `StaleWhileHeld` lets a lock expire under
a live task, `LostReplies` lets a statement commit although the caller sees an
error.  What the RSI site answers is abstracted away: a check returns or throws.

**Nominations.**  `row` and `events` are the tables; `expired` of the events have
left the 24-hour window; `cmd` holds the commands under way, of which
`nominationsInProgress` (`InProgress`), the advisory lock of a target
(`TargetLocked`) and the row lock (`RowLocked`) are read off; `review` holds the
prompts of the reviewers.  A check's outcome is one of in the organisation, not in
it, inconclusive.  The UPDATE (`Mark`), its answer (`Answered`) and the notice (`Tell`)
are three steps: `telling` are the calls of `notifyNominators...` that nobody awaits and
whose errors are swallowed, `notices` counts how often the nominators of a handle were
told.  A lost answer (`ReviewEnds`), a restart or a failed message leaves a processed
nomination whose nominators are never told; that is the code, and the property says
"at most once".

**NominationPipeline** shares the variables of both modules.  The worker's own
failures are left to `NominationJobQueue`; here every check gives a result, and
what is examined is the reuse of active jobs by `enqueueNominationCheckJob` and the
recordings of several users without the daily cap.  The notices are left out: a review
ends with its answer.

**RsiRateLimiter** has one action per callback: `Arrive`, `Finish`, `TimerFires`;
each includes `drainQueue`, as in the code.  `Clock` moves `since` and the timer.

**HtmlParsePool** keeps both threads: `worker` and `pending` are the variables of
`html-parse.pool.ts`, `threads` what exists of each thread ever spawned, with the
messages under way in both directions and its fate (alive; dead with its error event,
then its exit event still to come; gone).  A message posted to a dead thread is dropped.

**OrgCheck** extends both.  `stage` is the await a check is at, `attempt` the number
of its fetch, `asleep` the checks between two attempts, `page` what the fetched pages
say, which the thread alone sees.  What follows a callback without an await (asking
the limiter for a slot, posting a parse) happens before any other callback: that is
`NothingDue`.  How long a sleep takes is left open.

**StationTimers.**  `timers` is the table of one guild, `start` the members inside
`createStationTimer` (the guild's advisory lock is taken with the counts),
`tick` the deliveries under way, `told` the announcements.  Claim and reset take no
advisory lock, as in the code.  `station-timer.service.ts:217-224` is unreachable,
because the inner calls swallow their errors, and has no action.

**ManufacturingOrders.**  `order` is the table, `posts` what the starter message of
each thread shows, `click` the button handlers between read, UPDATE and the two
edits.  `mistaken` are the orders whose member's post has got the staff's buttons:
the handler takes a post for the staff's unless the row it read says otherwise, and
the row may not have been linked yet.  `disturbed` is a history variable: orders
whose posts were edited out of turn or not edited.  `QuietPostsAreTrue` is silent about
them, since the code may well leave the older row on a post then; it says that both
posts are edited and that the thread made in the background catches up.  The two forum
channels differ and the configuration does not change; tags and thread replies follow
the edits and are not told apart from them; `updateStatus` and service wrappers no command calls
are left out.

**OrderSubmission.**  `flow` is a call of `triggerOrderModal` with the array
`submitEntries` it built and the session it opened (`OpenSession`, before the await of
`showModal`, and `ModalShown` after it: when the modal cannot be shown the reservation is
released and the session lives on, as in the code), `latest` says whose array the
map `orderSubmitTimestamps` holds, `old` which time stamps have left the window
(one window stands for the two of the code, five minutes and an hour), `submit` the
presses of Submit Order.  `Restart` forgets all of it and leaves the tables.

**EventReminders.**  One event is enough: a tick handles its events one after the
other and they share no row.  `claims` and `known` are the two tables; `due` is the
schedule.  A tick asks for the configuration and the events (`StartTick`), Discord
answers (`FetchEvent`), and only then the clock is read (`ReadClock`): an answer that
takes longer than `Delay` counts as a fault.
Three things the code does are in the model and no property forbids
them, because no text of the repository does: the key of a window is not tied to
the start time, so an event postponed after its 24h reminder gets no second one; a
start time moved away, back and away again is announced once per time; and the new
start time is stored before its notice is posted, so a notice that fails is not
tried again.

**MemberVerification.**  `session` is the map `verificationCodes`, `issued` every
code ever made (codes are unique numbers: the 64 random bits of a code never meet),
`bio` what the page of each handle shows, `press` the presses of the button with the
await each is at and, from the fetch on, the handle and code it read.  `stamps` are
the time stamps of the rate limit as ages, `asked` the true history they stand for.  The
code filters the array by age; as it is in the order of time, that keeps a suffix
(`Younger`), and `CommandsAreLimited` proves that there always is one.
The purge of temporary members reads nothing of this.

**GuildConfiguration** and **ConfigureWizard.**  The row of one guild has one column
per feature: its schedule, or what is chosen for it, or `Off`.  A query is served
(`LoadRows`, `Write`) and answered later (`StartJobs`, `Answered`), which is where two
saves can overtake each other.  `jobs` are the live cron tasks of each feature, of
which `activeTasks` holds the last.  A session of the wizard has its list of features,
the index of the current one and one draft; `hasty` marks a session of which a Skip or
another save was pressed while a save was under way: then the code may store, for a
feature, the schedule chosen under the next one (`configure.command.ts:1230`), and no
text promises otherwise.  `SavesWhatWasChosen` is silent about such sessions, so it says
nothing of that case; it covers the forms and menus of the feature, late answers and
expiry between the two reads.  `stale` marks features whose job may have been set up from
an older row than the stored one, because two saves of the feature, or a save and the
start, overtook each other; the second half of `JobsFollowRow` is silent about them, that
no feature has two jobs is not.

**ExecHangar.**  `row` is the table's single row; its next change type is the
opposite of its state and not kept apart.  Commands and start-up prepare a patch from
the time they came in (`Resync`, `ManualSync`, `Configure`); `Write` lands later and
changes the columns of the patch alone.  `Status` is `deriveExecHangarStatus`,
`SiteStatus` the arithmetic of the site's schedule.  Arithmetic is exact: every
number of the code is an integer below 2^53 but for the quotient it rounds, and that
is rounded half up as `Math.round` does.  The schedule of the site is a constant.

## 3. The runs

`expect pass` unless said otherwise.  The bounds are the constants of the cfg.

| run | cfg | what it shows |
|---|---|---|
| `queue_one_worker` | `QueueOneWorker.cfg` | One instance, two handles, two jobs (so that a scope can be requested again), three faults, no lock stale under a live task and no reply lost: `ExclusiveClaims`, `FinishedJobIsSettled`, `OneActiveJobPerScope`, `SettledItemsAreFinal`, `FinishedJobsAreFinal`. |
| `queue_late` | `QueueLate.cfg` | Two instances, stale locks under live tasks and lost replies: `AttemptsTellTasksApart`, `NoEarlyFailure`, `JobsFinish` (liveness). |
| `nominations` | `Nominations.cfg` | Both caps and the cool-down, two handles, users, commands and reviewers: `CapsHold`, `CooldownHolds`, `ToldAtMostOnce`, `ProcessedIsFinal`, and the refinement `ImplementsLifecycle`. |
| `nominations_reopened` | `NominationsReopened.cfg` | **Violation** of `ProcessedIsFinal` under the default policy, see Findings. |
| `pipeline_refreshed` | `PipelineRefreshed.cfg` | The default policy, two users who record one handle at once: `CountMatchesEvents`; and while a reviewer refreshes whenever something is new, `NominationsAreChecked` (liveness), although enqueue calls fail. |
| `timers_faulty` | `TimersFaulty.cfg` | Two members, two overlapping ticks, three timers, two faults, crashes: `LimitsHold` (slots and caps), `ClaimsAreExclusive`, `CompletedIsFinal`, `TimersEndUnlessFaulty` (liveness). |
| `org_checked` | `OrgCheck.cfg` | A membership check and an existence check, one slot, two retries, two threads that may die: `ConcurrencyHolds`, `StartsAreSpaced`, `OnlyCurrentLives`, `RequestsAreAnswerable`, `VerdictsAreOwn`, `ChecksEnd` (liveness). |
| `orders_submitted` | `Orders.cfg` | Three calls of one member, two submissions at a time, at most two calls a window and one active order: `OrdersWithinLimits`, `RateLimitHolds`, `ReservationsAreReleased`, `OneOrderPerSession`. |
| `order_posts` | `OrderPosts.cfg` | One session, three buttons at a time: `QuietPostsAreTrue`, `OrdersFollowLifecycle`. |
| `event_reminders` | `Reminders.cfg` | Two ticks at a time, two moves of the start, one fault: `PostedOncePerClaim`, `ClaimsAreKept`, `RemindersComeInTime`. |
| `verification` | `Verification.cfg` | One member, two handles, two presses at a time, two codes: `RolesAreProved`, `NicknamesAreProved`, `AskedWithinLimits`. |
| `configuration` | `Configuration.cfg` | Three features (one with a chosen schedule read early, one read late, one without a job), one session, two saves at a time, both seeds, restarts: `JobsFollowRow`, `SavesWhatWasChosen`, `OnlyOwnSaves`. |

Five more configurations are kept for running by hand, with the same command:

| cfg | module | outcome |
|---|---|---|
| `PipelineAutomatic.cfg` | `NominationPipeline` | refutes `NominationsAreChecked` when only the automatic enqueue runs |
| `TimersStranded.cfg` | `StationTimers` | refutes `TimersEnd` by one failed completion |
| `VerificationPresses.cfg` | `MCMemberVerification` | refutes `RoleIsRemovedAfterLook` by two presses |
| `ConfigurationJoined.cfg` | `MCConfigureWizard` | refutes `NoSeedOverRow` in six steps |
| `ExecHangar.cfg` | `MCExecHangar` | finds no error in 1.2 million states: `FollowsSite`, `ChangeIsAhead`, `ChangesComeAsAnnounced`, which are theorems |

*Why the bounds are enough to be interesting.*  Two of a kind meet in every race
listed under hazards; where a third matters it is there (three buttons: one edits
while two race; three attempts: a requeue of a requeue; three timers for a guild
limit of two; three calls for a rate limit of two; a third thread for the requests of
two that died; a third feature to be skipped while the second is saved).  A batch size
of two makes siblings that an aborted batch orphans.  `MaxFaults` is large enough for
a fault and a fault during its repair; the last thread of `OrgCheck.cfg` may not die,
or the bound itself would be the failure.  In `Reminders.cfg` the unit is a quarter of
an hour and the offsets of 24 and 6 hours are shortened; `Interval + Delay = 2 * Tolerance`
is the slowest schedule `RemindersComeInTime` can hold for: at 30 minutes an answer that
takes any time at all can lose a window, the default `*/15` leaves a quarter of an hour.
In `Orders.cfg` a session is full with its first item, so that the item of a late modal is
one too many at once.  In `Nominations.cfg` the cap of one gives a handle one recording at
a time; what concurrent recordings do to the count is therefore checked in
`PipelineRefreshed.cfg`, where the cap is off.
In `Verification.cfg` an hour is three minutes, so that a window of either kind ends
while the other goes on.  For each property a mutation of the code is recorded that
this very configuration finds, so the case it speaks of does occur within the bounds.

*One instance or several.*  `FinishedJobsAreFinal` and `OneActiveJobPerScope` are
checked and proved for one instance because they hold for one only: with two, a refresh
that counted earlier can overwrite the status of a job another instance has finished,
and TLC finds two active jobs of one scope in fourteen steps when `QueueOneWorker.cfg`
is given a second worker.  The job is active again until the next refresh finishes it
(`JobsFinish` is checked for two), and whenever it is finished it is settled, for any
number of instances (`FinishedJobsAreTrue`).  What happens between the two statements of a
refresh in the one-worker run is the doing of the calls an aborted cycle left running.

*Locks and replies.*  `ExclusiveClaims` needs that no lock goes stale under a live task;
`SettledItemsAreFinal` and `FinishedJobIsSettled` need also that no reply is lost.
Otherwise a second task, or the task whose completion committed, does rewrite a settled
row, since complete, requeue and fail name it by its id alone.  What still holds then is
checked by `queue_late`.  These are the points where the code relies on its deployment.

*Deadlock* is checked where the system never stops.  It is switched off for the
timers (no timer may be left to start within the bound), for the pipeline (the
bound on jobs is reached or everything is processed), for the reminders and the hangar
(the clock ends), and for the checks (each is called once).

### Fairness

No request, click, review or fault is ever owed.  Weak fairness is assumed of what
the code schedules itself: `setInterval` polls and the steps of a cycle (every await
settles: HTTP requests are aborted, statements time out), the tasks of a worker, the
expiry of an abandoned lock (the clock runs), the end of an RSI request (aborted
after its time-out), the sleep between two attempts and the drain timer, the delivery
of a thread's messages and events and its work on what it was sent, the ticks of node-cron and timers becoming due.  In the pipeline a
reviewer refreshes while something is new (run `pipeline_refreshed` only), and the
write of a check result is strongly fair: it waits for a row lock in PostgreSQL's
queue, which is first come first served, so other transactions cannot pass it for
ever.

### Findings

* **A processed nomination is reopened** (`nominations_reopened`; code bug).
  `SELECT ... FOR UPDATE` of a handle that has no row locks nothing, and with the
  default policy no advisory lock is taken.  A recording that found no row waits in
  the background while another nomination inserts it and a reviewer processes it; its
  `INSERT ... ON CONFLICT DO UPDATE` then sets the row back to `new`.  With
  `targetMaxPerDay` positive this cannot happen: that is theorem `ReviewIsFinal`.
* **A nomination is not checked automatically** (`PipelineAutomatic.cfg`; the comment
  at `commands/nominate-player.command.ts:202` promises it).  The enqueue returns an
  active job of the handle although its item is already completed; when that job has
  ended, nobody enqueues the handle again.
* **A timer is left `delivering` for ever** (`TimersStranded.cfg`).  A completion
  fails, the user has filled the freed slot, so the reset violates the unique index;
  nothing looks at the row again.  `station-timer.service.test.ts:311` tests the reset
  with a slot nobody has taken.
* **A second press takes the role away** (`VerificationPresses.cfg`).  "Callers are
  expected to guard against the no-session case" (`services/rsi.services.ts:27`): the
  button does, but awaits the guild's configuration after it.  When the first press
  clears the session meanwhile, the second gets "not verified" without a look at any
  page, and removes the role the first has just granted.
* **The seed on joining overwrites a configuration** (`ConfigurationJoined.cfg`).
  `seedGuildConfigFromEnv` reads, finds no row and upserts; what an administrator saves
  in between is overwritten where the environment has a value, although
  `guild-config.seeder.test.ts:76` says a guild that has a row is skipped.  The seed of
  a start inserts with `ON CONFLICT DO NOTHING` and is safe.

## 4. The proofs

TLC checks the small instances above; the theorems hold for every value of the
constants allowed by the named assumptions, which TLC evaluates in the runs:
`QueueAssumption`, `NominationsAssumption`, `LimiterAssumption`, `OrgCheckAssumption`,
`TimersAssumption`, `OrdersAssumption`, `SubmissionAssumption`, `EventAssumption`,
`VerificationAssumption`, `ConfigurationAssumption`, `WizardAssumption`.
They say that sets are finite and limits are numbers, and
of the code's own constants what its values have: the interval of the ticks and the time
an answer takes are together at most two tolerances (`Interval`, `Delay`),
a window of a reminder is further from the start than its tolerance (`Day`, `Hours`), a claim is kept for longer than two tolerances (`Retention`).  The theorems about
the hangar take theirs, `HangarAssumption`, as a hypothesis; they are about
`Hangar == INSTANCE ExecHangar` and stand beside the timers' in `TimersProofs`.

| module | theorem | statement |
|---|---|---|
| `NominationJobQueueProofs` | `TypeCorrect` | `Spec => []TypeOK` |
| | `AttemptsTellApart` | `Spec => []AttemptsTellTasksApart` |
| | `NoFailureIsEarly` | `Spec => []NoEarlyFailure` |
| | `ClaimsAreExclusive` | `~StaleWhileHeld => (Spec => []ExclusiveClaims)` |
| | `SettledItemsStay` | `~StaleWhileHeld /\ ~LostReplies => (Spec => SettledItemsAreFinal)` |
| | `FinishedJobsAreTrue` | `~StaleWhileHeld /\ ~LostReplies => (Spec => []FinishedJobIsSettled)` |
| | `ScopesHaveOneJob` | `OneWorker => (Spec => []OneActiveJobPerScope)` |
| | `FinishedJobsStay` | `OneWorker => (Spec => FinishedJobsAreFinal)` |
| `NominationsProofs` | `TypeCorrect` | `Spec => []TypeOK` |
| | `CountIsExact` | `Spec => []CountMatchesEvents` |
| | `CapsAreKept` | `Spec => []CapsHold` |
| | `CooldownIsKept` | `Spec => CooldownHolds` |
| | `ReviewIsFinal` | `TargetMax > 0` gives `Spec => ProcessedIsFinal` |
| | `NominatorsAreToldOnce` | `TargetMax > 0` gives `Spec => []ToldAtMostOnce` |
| | `LifecycleIsImplemented` | `TargetMax > 0` gives `Spec => ImplementsLifecycle` |
| `OrgCheckProofs` | `TypeCorrect`, `ConcurrencyIsBounded`, `QueueIsExact`, `LimiterNeverStalls` | `Spec =>` type correctness, `ConcurrencyHolds`, `QueueHoldsWaiting`, `NeverStalled` |
| | `StartsAreFarApart` | `Spec => StartsAreSpaced` |
| | `ChecksImplementLimiter` | `CheckSpec => Spec` |
| | `ChecksAreLimited` | `CheckSpec => []ConcurrencyHolds /\ StartsAreSpaced` |
| | `NoThreadIsForgotten` | `CheckSpec => []OnlyCurrentLives` |
| | `NoRequestIsForgotten` | `CheckSpec => []RequestsAreAnswerable` |
| | `VerdictsStandOnPages` | `CheckSpec => []VerdictsAreOwn` |
| `TimersProofs` | `DeliveriesStayApart` | `Spec => []ClaimsAreExclusive` |
| | `CompletedStayCompleted` | `Spec => CompletedIsFinal` |
| | `TimerLimitsHold` | `Spec => []LimitsHold` |
| | `HangarFollowsSite` | `Hangar!Spec => []Hangar!FollowsSite` |
| | `HangarChangeIsAhead` | `Hangar!Spec => []Hangar!ChangeIsAhead` |
| | `HangarChangesCome` | `Hangar!Spec => Hangar!ChangesComeAsAnnounced` |
| `OrdersProofs` | `TypeCorrect` | `Spec => []TypeOK` |
| | `LifecycleIsFollowed` | `Spec => OrdersFollowLifecycle` |
| | `ModalsAreLimited` | `Spec => []RateLimitHolds` |
| | `RefusedCallsAreReleased` | `Spec => []ReservationsAreReleased` |
| | `OrdersAreLimited` | `Spec => []OrdersWithinLimits` |
| | `SessionsMakeOneOrder` | `Spec => []OneOrderPerSession` |
| | `QuietPostsShowStatus` | `Spec => []QuietPostsAreTrue` |
| `EventRemindersProofs` | `RemindersAreNotRepeated` | `Spec => []PostedOncePerClaim` |
| | `ClaimsStandForMessages` | `Spec => []ClaimsAreKept` |
| | `NoWindowIsMissed` | `Spec => []RemindersComeInTime` |
| `MemberVerificationProofs` | `RolesFollowProof` | `Spec => []RolesAreProved` |
| | `NicknamesFollowProof` | `Spec => []NicknamesAreProved` |
| | `CommandsAreLimited` | `Spec => []AskedWithinLimits` |
| `ConfigurationProofs` | `SavesAreOwn` | `Spec => OnlyOwnSaves` |
| | `JobsFollow` | `Spec => []JobsFollowRow` |
| | `ChoicesAreSaved` | `Spec => []SavesWhatWasChosen` |

`OneWorker` is `\A v, w \in Worker : v = w`.

*The queue.*  That two tasks never meet on an item is not inductive.  The invariant
adds what ties a task to its row: without expiry under a live task, its row still
carries its attempt number and is locked, unless its completion was stored and the
reply lost (`TasksHoldTheirRows`); a locked row is running (`LockedRowsRun`); a job
that does not exist has no rows (`AbsentJobsHaveNoRows`).  The claim, which locks
and counts in one UPDATE, is then the only step that makes a task, and it takes a
number no other task has.  `SettledItemsStay` is a step property from the same
invariant: whoever could rewrite a settled row would have to hold it.

*Its jobs.*  A refresh counts in one statement and stores in another, and anything may
happen in between.  The key is that a row of an existing job that is not open is never
written again (`ClosedRowStays`, for any number of workers).  Counts that show nothing
open are therefore still exact when they are stored, however late that is and whatever
another worker has stored meanwhile (`CountsAreFinal`); so is what a finished job shows
(`TerminalIsSettled`).  The UPDATE of a refresh does not look at the status it
overwrites.  With one worker it never finds a finished job there, since its cycle works
on an active job until it stores the last counts (`CyclesRun`).  Then no job becomes
active again, and the existence check of the enqueue holds for the life of a job.

*Nominations.*  With the cap on, the advisory lock leaves a handle one recording
transaction (`TargetLocksExclude`), so that a row the transaction did not find is
still missing when it writes (`MissingRowStaysMissing`) and a row it found is as it
read it (`LockedRowIsAsSeen`, from `RowLocksExclude`).  From these, every step moves
every row as the lifecycle allows (`StepMovesRows`); finality and the refinement follow.
For the notices (`NoticesInv`), what has been told, is being told or is in the answer of an
UPDATE is together at most one, and of a processed row: only the UPDATE that finds the row
unprocessed starts it.  Without the cap the second conjunct fails, which is the first
finding.  `CountIsExact` needs none of it and holds for every policy.

*Caps and cool-down.*  The user's cap and the cool-down are checked long before the
transaction.  They hold because `nominationsInProgress` gives a user one command
(`UsersTakeTurns`), so that what the checks found of the user can only get better until
the insert (`UserMayNominate`).  The cap of a handle is counted under its advisory lock
(`TargetHasRoom`).

*RSI checks.*  All four parts of the limiter's invariant are one lemma about
`drainQueue` (`DrainKeeps`), which each callback ends with.  `OrgCheck` calls the
limiter's actions, sleeps and parses around them; every such step is a step of the
limiter or leaves it alone, so the checks implement it and inherit its theorems.
The invariant of the pool (`PoolInv`) says that the reference names the one thread that
lives or has thrown and not said so (`ReferenceIsRight`), and that a pending entry has
its request or its answer in the mailboxes of its own thread (`RequestsAreUnderWay`); an
id is never used twice and a check waits for one parse at a time (`RequestsAreDistinct`).
For the verdicts it adds that every answer under way to a check is what the parser finds
on that check's page (`MessagesAreOwn`), and that a check is in one place: in the
limiter, asleep, or waiting for a parse (`ChecksAreInOnePlace`).

*Station timers.*  Claim and reset take no lock; deliveries stay apart because both test
the status in the statement that changes it (`ClaimsAreExclusive` is inductive with
`HeldTimersAreOut`, which follows the one timer a delivery has announced through a
completion that committed and threw).  For the limits, the unique index keeps slots
apart (`SlotsAreDistinct`), and a member's active timers inject into the slots
(`SlotsBoundTimers`).  The guild's cap needs that the member inside the advisory lock
still has room when the INSERT comes (`RoomIsKept`): stops and claims only make room, a
reset would take it, and a reset needs a failed completion.

*Orders.*  A handler acts on a row it read earlier.  The invariant (`ClicksAreSound`)
says what it carries to its UPDATE: every status the UPDATE accepts leads to the new
one, and without the staff role these are `new` and `accepted` only.  The guarded
UPDATE then makes the step legal however old the read was.

*Order submission.*  Each call builds a new array from the one it finds in the map and
puts it there, so arrays of overlapping calls differ.  The invariant (`SlotsInv`) says
that a call that holds a place is in its own array and in the map's
(`ArraysAreComplete`), and that of two arrays one knows the other's call or has nothing
the other lacks (`ArraysAreNested`).  Hence all calls past the check of the limit are in
one array that was found short enough (`PassedAreFew`), which is the limit.  The limits
on orders (`SessionsInv`) rest on the lock of the member: from its count to the INSERT a
submission is alone (`LocksHold`).  One order per session is a count: orders plus calls
an order may still come from never exceed the calls made (`CountsAgree`); it rests on
the deletion of the session before the first await (`SessionsAreTaken`), which also keeps
a second press off a session while the first one waits.

*Posts.*  An order that is left alone has at most one handler that edits, which carries
the row as it is and knows every post there is (`Quiet`); the first edit has reached its
own post when the second comes.

*Event reminders.*  The primary key of the ledger gives a key to one tick
(`HoldersHaveClaims`); the cleaning cannot take a claim from under a tick, since no tick
lasts as long as the retention (`TicksAreYoung`).  A message is then paid for by a claim,
a failure or a cleaned claim (`PostsAreOwed`).  That no window is missed is a fact about
the schedule: once the next tick is due after the last moment of a window that opened
after the last move, some tick has read the clock in it and has posted or has the key to
do, or is about to read it in time (`WindowsAreSeen`, `Coming`); this is where
`Interval + Delay <= 2 * Tolerance` is needed.

*Verification.*  A proof is history: the page of the handle has shown a code that was
issued to this member for this handle.  The invariant says that a session holds the
code issued with it (`SessionsAreIssued`), that what a page shows it has shown
(`PagesArePosted`), and that a press carries handle, member and code of one session
from the moment it reads them, even if that session is replaced or gone
(`PressesAreIssued`).  The look at the page then makes the proof, and history is never
lost (`ProofsStay`).  Were the session read once more after the look, the second
conjunct would fail.  The rate limits are a separate invariant: the kept array is in the
order of time, so that a filter for any window keeps a suffix (`InOrder`), and its part
of the last hour is the true history (`AskedAreKept`), which neither the cut of a command
nor the purge can shorten.

*The hangar.*  `StatusAfter` is the heart: however many cycles the derivation skips by
one remainder, its result is the state of the cycle the time lies in (`At`), and a time
has one such state (`OneStatus`).  The site's own arithmetic, with two JavaScript
remainders that take the sign of their dividend, gives the same notion for the site's
schedule, also before its epoch (`Normalized`, `SiteStatusIs`).  A row is `OnSchedule`
if its change is one of the site's; a resync writes such a row, time does not take it
off (`ScheduleLasts`), and hence both derivations agree.  `DurationsFit` says that the
drift is shared out by rounding without a negative share, which needs only that the
whole cycle is positive, as `validateExecHangarCycleOffsetMs` demands.

*The configuration.*  `OnlyOwnSaves` holds step by step: an upsert writes the columns of
its patch, and the patch of a save is its own column.  For the jobs (`JobsInv`), a
feature that is not stale has at most one save whose answer is to come, the row holds
that save's choice, and what start-up has loaded asks for the same job as the row
(`Follows`); hence whoever sets the job up last sets up the row's, whether it replaces
the one job there is or finds none (`OneJob`).  A write that would break this is what
makes a feature stale.  For the choices (`ChoicesInv`), a session in which no button was
pressed during a save has one save at most, its draft holds a schedule chosen under the
draft's feature, and until that save reads the draft the session stays at the save's
feature (`Calm`): so what is read after the await is what the administrator saw, or a
later choice under the same form.  Of other sessions nothing is claimed.

*Only model-checked.*  Liveness, since fairness and `ENABLED` are beyond the prover:
`JobsFinish`, `NominationsAreChecked`, `TimersEndUnlessFaulty`, `ChecksEnd`.  Every
safety property of the passing runs is a theorem of its component.  The composition
`NominationPipeline` itself is only model-checked.

## 5. Not modelled

* Formatting, wording, translations, logging, Discord permissions and embeds.
* What RSI pages and the site of the hangar's schedule look like: a page is what the
  parser finds in it, a schedule is its numbers.
* What the digest, keep-alive and purge jobs do when they run: they read, post or kick
  and keep no state; when they are scheduled is modelled.
* Components listed as `not_modelled` in `PROJECT.json`, each with its reason: they keep
  no state that a later operation depends on (read-only commands, access grants,
  routing, set-up message, connection pool, support code).
* Within modelled components: the two read-only queries behind
  `/nomination-job-status`, listing of timers, the fields of a nomination that are
  only displayed, order items beyond their number, `/nomination-refresh` for one
  handle.

## 6. Plan

Done, in this order: queue; nominations with lifecycle and refinement; pipeline;
timers; rate limiter; orders and their submission; reminders; their first proofs; the
worker thread and the checks over it; verification with its proofs; the configuration
of a guild, its start and its wizard; the hangar with its proofs.

Proved since: the timers; the reminders; the worker thread, the checks over it and their
use of the limiter; sessions, limits and posts of orders; the caps and the cool-down of
nominations; the jobs of the queue; the rate limits of `/verify`; jobs, saves and
choices of the configuration.

Abstract specifications worth stating next: a queue that checks each requested handle
(refined by `NominationJobQueue` for its items), a ledger that posts each reminder at
most once (refined by `EventReminders`), an order as its owner sees it (refined by
`OrderSubmission`).

Runs stay few, one per question.
