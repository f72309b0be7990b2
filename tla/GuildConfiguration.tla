-------------------------- MODULE GuildConfiguration --------------------------
(***************************************************************************)
(* The configuration of one guild: its row in guild_configs                *)
(* (domain/guild-config/guild-config.repository.ts), the rows the bot      *)
(* makes itself (guild-config.seeder.ts) when it starts and when it joins  *)
(* the guild (index.ts), and the cron jobs the row asks for                *)
(* (jobs/discord/*.job.ts).  ConfigureWizard adds the administrators.      *)
(*                                                                         *)
(* A query is answered some time after the database has served it, so a    *)
(* reader may act on a row that has changed since.                         *)
(***************************************************************************)
EXTENDS Naturals, Sequences

CONSTANTS
  Feature,      \* the features of a guild
  Scheduled,    \* those whose cron schedule an administrator chooses
  Jobless,      \* those without a cron job (verification)
  Choice,       \* what can be chosen for each feature, its schedule if Scheduled
  Env           \* what the environment sets for a feature, Off where it does not

ASSUME ConfigurationAssumption ==
  /\ Scheduled \subseteq Feature /\ Jobless \subseteq Feature \ Scheduled
  /\ Choice \in [Feature -> SUBSET (Nat \ {0})]
  /\ \A f \in Feature : Env[f] \in Choice[f] \cup {0}

VARIABLES
  row,       \* the guild's row, or NoRow
  start,     \* how far the start of the bot has come
  loaded,    \* the row as start-up read it
  jobs,      \* the live cron jobs of each feature; activeTasks holds the last
  join,      \* how far guildCreate has come, "in" when the guild is old
  stale      \* history: features whose job may have been set up from an older
             \* row, or not at all

configVars == <<row, start, loaded, jobs, join, stale>>

Off == 0
NoRow == [f \in {} |-> Off]
DefaultRow == [f \in Feature |-> Off]
IsRow(r) == DOMAIN r = Feature /\ \A f \in Feature : r[f] \in Nat

ConfigTypeOK ==
  /\ row = NoRow \/ IsRow(row)
  /\ start \in {"seeding", "loading", "loaded", "running"}
  /\ loaded = NoRow \/ IsRow(loaded)
  /\ jobs \in [Feature -> Seq(Nat)]
  /\ join \in {"out", "checking", "absent", "in"}
  /\ stale \subseteq Feature

NoJobs == [f \in Feature |-> <<>>]

ConfigInit ==
  /\ row = NoRow
  /\ start = "seeding"
  /\ loaded = NoRow
  /\ jobs = NoJobs
  /\ join \in {"out", "in"}
  /\ stale = {}

-----------------------------------------------------------------------------
(* Rows                                                                    *)

Stored == IF row = NoRow THEN DefaultRow ELSE row

\* upsertGuildConfig writes the columns of the patch alone; a new row has the
\* defaults in the others.
Upserted(patch) == [f \in Feature |-> IF f \in DOMAIN patch THEN patch[f] ELSE Stored[f]]

\* buildPatchFromEnv
EnvPatch == [f \in {g \in Feature : Env[g] # Off} |-> Env[f]]

\* insertGuildConfigIfAbsent: ON CONFLICT DO NOTHING
InsertedOver == Upserted(EnvPatch)
InsertedIfAbsent == IF row = NoRow THEN Upserted(EnvPatch) ELSE row

-----------------------------------------------------------------------------
(* Jobs                                                                    *)

\* The schedule a row asks for.  A feature that is not Scheduled has the
\* default one whatever is chosen for it.
JobOf(f, r) ==
  IF r = NoRow \/ f \in Jobless THEN <<>>
  ELSE IF r[f] = Off THEN <<>>
  ELSE IF f \in Scheduled THEN <<r[f]>> ELSE <<Off>>

\* stop() and the removal from activeTasks
NotStopped(js) == js
Stopped(js) == IF js = <<>> THEN js ELSE SubSeq(js, 1, Len(js) - 1)

\* rescheduleGuildX with the row that the save returned
Reschedule(f, r) == jobs' = [jobs EXCEPT ![f] = Stopped(@) \o JobOf(f, r)]

\* scheduleX for all guilds: those of guilds without a row are stopped.
ScheduleAll(r) == jobs' = [f \in Feature |-> Stopped(jobs[f]) \o JobOf(f, r)]

-----------------------------------------------------------------------------
(* clientReady                                                             *)

\* seedGuildConfigsFromEnv, for the home guild or all: it may fail for this
\* guild, and when it fails for all the process ends (Restarted).
SeedAll ==
  /\ start = "seeding"
  /\ start' = "loading"
  /\ row' \in {row, InsertedIfAbsent}
  /\ join # "out" \/ row' = row
  /\ UNCHANGED <<loaded, jobs, join, stale>>

\* getAllGuildConfigs: the database serves the query, and later the answer sets
\* up the jobs.
LoadRows ==
  /\ start = "loading"
  /\ start' = "loaded"
  /\ loaded' = row
  /\ UNCHANGED <<row, jobs, join, stale>>

StartJobs ==
  /\ start = "loaded"
  /\ start' = "running"
  /\ ScheduleAll(loaded)
  /\ loaded' = NoRow
  /\ UNCHANGED <<row, join, stale>>

\* The query fails: start-up goes on with no rows, which stops the jobs that
\* /configure has set up meanwhile.
LoadFails ==
  /\ start \in {"loading", "loaded"}
  /\ start' = "running"
  /\ ScheduleAll(NoRow)
  /\ loaded' = NoRow
  /\ stale' = Feature
  /\ UNCHANGED <<row, join>>

\* shutdown, a crash or a failed start, and the next start
Restarted ==
  /\ start' = "seeding"
  /\ loaded' = NoRow
  /\ jobs' = NoJobs
  /\ stale' = {}
  /\ join' = IF join = "out" THEN "out" ELSE "in"
  /\ UNCHANGED row

-----------------------------------------------------------------------------
(* guildCreate: seedGuildConfigFromEnv reads, then upserts.  No job is      *)
(* scheduled.                                                               *)

Join ==
  /\ join = "out"
  /\ join' = "checking"
  /\ UNCHANGED <<row, start, loaded, jobs, stale>>

JoinCheck ==
  /\ join = "checking"
  /\ join' \in {IF row = NoRow THEN "absent" ELSE "in", "in"}
  /\ UNCHANGED <<row, start, loaded, jobs, stale>>

JoinSeed ==
  /\ join = "absent"
  /\ join' = "in"
  /\ row' = Upserted(EnvPatch)
  /\ stale' = Feature
  /\ UNCHANGED <<start, loaded, jobs>>

JoinSeedFails ==
  /\ join = "absent"
  /\ join' = "in"
  /\ UNCHANGED <<row, start, loaded, jobs, stale>>

ConfigNext ==
  \/ SeedAll \/ LoadRows \/ StartJobs \/ LoadFails
  \/ Join \/ JoinCheck \/ JoinSeed \/ JoinSeedFails

=============================================================================
