------------------------------ MODULE ExecHangar ------------------------------
(***************************************************************************)
(* The executive hangar timer (services/exec-hangar/*.ts,                  *)
(* domain/exec-hangar/exec-hangar.repository.ts).  The hangar is open and  *)
(* closed in turn.  One row keeps a change of the past or future and the   *)
(* durations; what the hangar is now is derived from it.  Administrators   *)
(* and the start of the bot write the row, from a site that knows the      *)
(* schedule or by hand; a write lands some time after it was prepared.     *)
(***************************************************************************)
EXTENDS Integers

CONSTANTS
  Minute,       \* milliseconds of a minute
  Site,         \* the durations and the drift the site states
  Epoch,        \* the site's INITIAL_OPEN_TIME
  Configs,      \* what /exec-hangar config is given
  Minutes,      \* what /exec-hangar sync is given
  Request,      \* commands under way, start-up's resync among them
  MaxNow        \* bound of the clock

VARIABLES
  now,          \* the clock, in milliseconds
  row,          \* the row of exec_hangar_state
  pending,      \* what each request is about to write, or Nothing
  synced,       \* hasSuccessfulSyncSinceStartup
  follows       \* history: the last write of the row came from the site

vars == <<now, row, pending, synced, follows>>

State == {"OPEN", "CLOSED"}
Opposite(s) == IF s = "OPEN" THEN "CLOSED" ELSE "OPEN"
None == "none"

\* open and closed in minutes, offset in milliseconds
Default == [open |-> 60, closed |-> 120, offset |-> 0]

\* validateSourceCycleConfig, validateExecHangarCycleOffsetMs
Valid(c) ==
  /\ c \in [open : Nat \ {0}, closed : Nat \ {0}, offset : Int]
  /\ c.offset > -((c.open + c.closed) * Minute)

HangarAssumption ==
  /\ Minute \in Nat \ {0}
  /\ Epoch \in Int
  /\ Valid(Site)
  /\ \A c \in Configs : Valid(c)
  /\ Minutes \subseteq Nat \ {0}
  /\ MaxNow \in Int

-----------------------------------------------------------------------------
(* Durations and states                                                    *)

Total(c) == (c.open + c.closed) * Minute + c.offset

\* Math.round of a share of the cycle, for non-negative operands
Rounded(share, whole) == (2 * share + whole) \div (2 * whole)

\* getEffectiveDurationsMs, computeEffectiveDurationsMs: the drift is shared out.
OpenTime(c) == Rounded(Total(c) * c.open, c.open + c.closed)
Duration(c, s) == IF s = "OPEN" THEN OpenTime(c) ELSE Total(c) - OpenTime(c)

\* deriveExecHangarStatus: from the stored change on, whole cycles are skipped.
Status(r, t) ==
  LET first == Opposite(r.state)
      elapsed == t - r.nextAt
      later == elapsed - Duration(r.config, first)
      offset == later % Total(r.config)
      base == r.nextAt + Duration(r.config, first) + (later - offset)
      half == base + Duration(r.config, r.state)
  IN  IF t < r.nextAt THEN [state |-> r.state, nextAt |-> r.nextAt]
      ELSE IF elapsed < Duration(r.config, first)
      THEN [state |-> first, nextAt |-> r.nextAt + Duration(r.config, first)]
      ELSE IF offset < Duration(r.config, r.state)
      THEN [state |-> r.state, nextAt |-> half]
      ELSE [state |-> first, nextAt |-> half + Duration(r.config, first)]

\* The remainder of JavaScript has the sign of its dividend.
Rem(a, b) == IF a >= 0 THEN a % b ELSE -((-a) % b)

\* deriveAnchorFromSourceConfig: what the site's schedule says of time t
SiteStatus(t) ==
  LET into == Rem(Rem(t - Epoch, Total(Site)) + Total(Site), Total(Site))
  IN  IF into < OpenTime(Site)
      THEN [state |-> "OPEN", nextAt |-> t + (OpenTime(Site) - into)]
      ELSE [state |-> "CLOSED", nextAt |-> t + (Total(Site) - into)]

-----------------------------------------------------------------------------
(* Writes.  A request prepares its patch from the time it came in.          *)

Nothing == [kind |-> None, state |-> None, nextAt |-> 0, config |-> Default]

Init ==
  /\ now = 0
  /\ row = [state |-> None, nextAt |-> 0, config |-> Default]
  /\ pending = [q \in Request |-> Nothing]
  /\ synced = FALSE
  /\ follows = FALSE

Prepare(q, kind, status, config) ==
  /\ pending[q] = Nothing
  /\ pending' = [pending EXCEPT ![q] = [kind |-> kind, state |-> status.state,
                                        nextAt |-> status.nextAt, config |-> config]]
  /\ UNCHANGED <<now, row, synced, follows>>

\* /exec-hangar resync and performExecHangarStartupSync: the anchor is derived
\* from the time before the fetch, however long the fetch takes.
Resync(q) == Prepare(q, "resync", SiteStatus(now), Site)

\* /exec-hangar sync: the hangar opens, or closes, in so many minutes.
ManualSync(q, s, minutes) ==
  Prepare(q, "manual", [state |-> Opposite(s), nextAt |-> now + minutes * Minute], Default)

\* /exec-hangar config
Configure(q, c) == Prepare(q, "config", [state |-> None, nextAt |-> 0], c)

\* updateExecHangarState changes the columns of the patch alone.
Patched(p) ==
  CASE p.kind = "resync" -> [state |-> p.state, nextAt |-> p.nextAt, config |-> p.config]
    [] p.kind = "manual" -> [state |-> p.state, nextAt |-> p.nextAt, config |-> row.config]
    [] p.kind = "config" -> [state |-> row.state, nextAt |-> row.nextAt, config |-> p.config]

Write(q) ==
  /\ pending[q] # Nothing
  /\ row' = Patched(pending[q])
  /\ follows' = (pending[q].kind = "resync")
  /\ synced' = (synced \/ pending[q].kind # "config")
  /\ pending' = [pending EXCEPT ![q] = Nothing]
  /\ UNCHANGED now

\* The site or the database does not answer.
Fail(q) ==
  /\ pending[q] # Nothing
  /\ pending' = [pending EXCEPT ![q] = Nothing]
  /\ UNCHANGED <<now, row, synced, follows>>

Restart ==
  /\ pending' = [q \in Request |-> Nothing]
  /\ synced' = FALSE
  /\ UNCHANGED <<now, row, follows>>

\* Time passes, between two looks of a user by any amount.
Pass ==
  /\ now' \in now + 1 .. MaxNow
  /\ UNCHANGED <<row, pending, synced, follows>>

Next ==
  \/ \E q \in Request :
       \/ Resync(q)
       \/ \E s \in State, minutes \in Minutes : ManualSync(q, s, minutes)
       \/ \E c \in Configs : Configure(q, c)
       \/ Write(q) \/ Fail(q)
  \/ Restart \/ Pass

Spec == Init /\ [][Next]_vars

-----------------------------------------------------------------------------
(* Properties *)

Initialized == row.state # None

\* While the row stems from the site, the bot says what the site says, at any
\* later time, however late the resync came and however many cycles ago.
FollowsSite == follows => Status(row, now) = SiteStatus(now)

\* The change the bot announces is always still to come ("0 minutes" is never
\* shown), for any durations and drift an administrator may combine.
ChangeIsAhead == Initialized => Status(row, now).nextAt > now

\* While nobody writes the row, the status stays until the change it announces,
\* and then is the opposite one for its full duration: skipping whole cycles
\* comes to the same as going through them.
ChangesComeAsAnnounced ==
  [][Initialized /\ row' = row =>
       LET old == Status(row, now)
           new == Opposite(old.state)
       IN  /\ now' < old.nextAt => Status(row, now') = old
           /\ now' = old.nextAt /\ Duration(row.config, new) > 0 =>
                Status(row, now') =
                  [state |-> new, nextAt |-> old.nextAt + Duration(row.config, new)]]_vars
=============================================================================
