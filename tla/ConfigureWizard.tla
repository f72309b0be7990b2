--------------------------- MODULE ConfigureWizard ---------------------------
(***************************************************************************)
(* /configure (commands/configure.command.ts): a session goes through a    *)
(* list of features.  A feature is skipped, or configured: a Scheduled one *)
(* by a form that opens a draft, a schedule chosen under it and a Save     *)
(* button, the others by one form or menu.  A save awaits Discord and the  *)
(* database, and the session's other buttons work meanwhile.               *)
(***************************************************************************)
EXTENDS GuildConfiguration

CONSTANTS
  Lists,        \* the lists of features of a session: one of them, or all in order
  Session,
  Press,        \* bound: saves under way at a time
  LateValues    \* Scheduled features whose save reads its draft's values after
                \* the first await (purge-jobs)

ASSUME WizardAssumption ==
  /\ Lists \subseteq Seq(Feature) \ {<<>>}
  /\ LateValues \subseteq Scheduled

VARIABLES
  session,   \* sessions, by id
  press      \* the saves under way

vars == <<configVars, session, press>>

None == "none"
NoDraft == [feature |-> None, schedule |-> Off]

\* History: chosen, what was chosen under each feature's own form or menu; hasty,
\* whether a Skip or another save was pressed while a save of the session was
\* under way, after which nothing is remembered as chosen.
Closed == [open |-> FALSE, features |-> <<>>, index |-> 1, draft |-> NoDraft,
           chosen |-> [f \in Feature |-> {}], hasty |-> FALSE]
Idle == [stage |-> "idle", session |-> None, feature |-> None, choice |-> Off]

TypeOK ==
  /\ ConfigTypeOK
  /\ \A s \in Session :
       /\ session[s].index \in 1..Len(session[s].features) + 1
       /\ session[s].draft.feature \in Scheduled \cup {None}
  /\ \A p \in Press : press[p].stage \in {"idle", "deferring", "writing", "written", "roles"}

Init ==
  /\ ConfigInit
  /\ session = [s \in Session |-> Closed]
  /\ press = [p \in Press |-> Idle]

-----------------------------------------------------------------------------
(* Sessions.  An expired or finished session leaves the map; a save under   *)
(* way still holds the object.                                              *)

Busy(s) == \E p \in Press : press[p].session = s
Current(s) == IF session[s].index <= Len(session[s].features)
              THEN session[s].features[session[s].index] ELSE None

\* A button or form of feature f works only while f is the current feature.
Active(s, f) == session[s].open /\ Current(s) = f

\* A feature is done, skipped or configured.
Advanced(old, f) ==
  IF old.index < Len(old.features)
  THEN [old EXCEPT !.index = @ + 1, !.draft = NoDraft, !.chosen[f] = {}]
  ELSE [Closed EXCEPT !.hasty = old.hasty]

Hastened(old, hasty) ==
  IF old.hasty \/ hasty
  THEN [old EXCEPT !.hasty = TRUE, !.chosen = Closed.chosen]
  ELSE old

Remembered(old, f, choices) == [old EXCEPT !.chosen[f] = @ \cup choices]

Advance(s, f, hasty) ==
  session' = [session EXCEPT ![s] = Hastened(Advanced(@, f), hasty)]

\* handleConfigureCommand, for one feature or for all
Configure(s) ==
  /\ join # "out"
  /\ ~session[s].open /\ ~Busy(s)
  /\ \E features \in Lists :
       session' = [session EXCEPT ![s] = [Closed EXCEPT !.open = TRUE, !.features = features]]
  /\ UNCHANGED <<configVars, press>>

\* getCurrentSession and the cleanup interval drop a session after its time.
Expire(s) ==
  /\ session[s].open
  /\ session' = [session EXCEPT ![s] = IF Busy(s) THEN [@ EXCEPT !.open = FALSE] ELSE Closed]
  /\ UNCHANGED <<configVars, press>>

Skip(s, f) ==
  /\ Active(s, f)
  /\ Advance(s, f, Busy(s))
  /\ UNCHANGED <<configVars, press>>

\* The forms of a Scheduled feature.  The second form of manufacturing is not
\* told from the first: a save before it fails, as any save may.
SubmitForm(s, f) ==
  /\ Active(s, f) /\ f \in Scheduled
  /\ session' = [session EXCEPT ![s].draft = [feature |-> f, schedule |-> Off]]
  /\ UNCHANGED <<configVars, press>>

\* The menus of the schedule work while the draft is of their feature.
AnyDraft(s, f) == session[s].draft # NoDraft
OwnDraft(s, f) == session[s].draft.feature = f

ChooseSchedule(s, f, c) ==
  /\ session[s].open /\ f \in Scheduled
  /\ OwnDraft(s, f)
  /\ session' = [session EXCEPT ![s] =
       Hastened([Remembered(session[s], f, {c}) EXCEPT !.draft.schedule = c], FALSE)]
  /\ UNCHANGED <<configVars, press>>

-----------------------------------------------------------------------------
(* Saves                                                                    *)

Started(p, s, f, stage, choice) ==
  /\ press[p] = Idle
  /\ press' = [press EXCEPT ![p] =
       [stage |-> stage, session |-> s, feature |-> f, choice |-> choice]]
  /\ session' = [session EXCEPT ![s] =
       Hastened(Remembered(session[s], f, {choice} \ {Off}), Busy(s))]

\* The Save button: saveNominationDigest, saveManufacturing, savePurgeJobs up
\* to deferUpdate.
PressSave(p, s, f) ==
  /\ Active(s, f) /\ f \in Scheduled
  /\ session[s].draft.feature = f /\ session[s].draft.schedule # Off
  /\ Started(p, s, f, "deferring", Off)
  /\ UNCHANGED configVars

\* The verification form and the channel menu of the event reminders
SubmitChoice(p, s, f, c) ==
  /\ Active(s, f) /\ f \notin Scheduled
  /\ Started(p, s, f, "writing", c)
  /\ UNCHANGED configVars

End(p) == press' = [press EXCEPT ![p] = Idle]

\* After deferUpdate the session's draft is read again, whatever it is by now.
\* Without one, or without a schedule, an exception ends the save.
DraftRead(p) == session[press[p].session].draft
Readable(p) ==
  /\ DraftRead(p).schedule # Off
  /\ press[p].feature \in LateValues => DraftRead(p).feature = press[p].feature

ReadDraft(p) ==
  /\ press[p].stage = "deferring"
  /\ IF Readable(p)
     THEN press' = [press EXCEPT ![p].stage = "writing", ![p].choice = DraftRead(p).schedule]
     ELSE End(p)
  /\ UNCHANGED <<configVars, session>>

\* A role or channel is not valid, Discord or the database refuses.
SaveFails(p) ==
  /\ press[p].stage \in {"deferring", "writing"}
  /\ End(p)
  /\ UNCHANGED <<configVars, session>>

\* The database serves the upsert.
Patch(p) == [f \in {press[p].feature} |-> press[p].choice]

\* Another save whose answer is to come, or a start-up that has read the row,
\* will set up the job of an older row.
Overtakes(p) ==
  \/ start = "loaded"
  \/ \E q \in Press \ {p} : press[q].stage = "written" /\ press[q].feature = press[p].feature

Write(p) ==
  /\ press[p].stage = "writing"
  /\ row' = Upserted(Patch(p))
  /\ press' = [press EXCEPT ![p].stage = "written"]
  /\ stale' = IF Overtakes(p) THEN stale \cup {press[p].feature}
                              ELSE stale \ {press[p].feature}
  /\ UNCHANGED <<start, loaded, jobs, join, session>>

\* The answer: the job is set up from the row it returns and the session goes
\* on.  Verification has its roles made first.
Answered(p) ==
  /\ press[p].stage = "written"
  /\ IF press[p].feature \in Jobless
     THEN /\ press' = [press EXCEPT ![p].stage = "roles"]
          /\ UNCHANGED <<jobs, session>>
     ELSE /\ Reschedule(press[p].feature, Upserted(Patch(p)))
          /\ Advance(press[p].session, press[p].feature, FALSE)
          /\ End(p)
  /\ UNCHANGED <<row, start, loaded, join, stale>>

\* The answer is lost with the connection.
AnswerLost(p) ==
  /\ press[p].stage = "written"
  /\ End(p)
  /\ stale' = stale \cup {press[p].feature}
  /\ UNCHANGED <<row, start, loaded, jobs, join, session>>

\* addMissingDefaultRoles
RolesMade(p) ==
  /\ press[p].stage = "roles"
  /\ \/ Advance(press[p].session, press[p].feature, FALSE)
     \/ UNCHANGED session
  /\ End(p)
  /\ UNCHANGED configVars

Restart ==
  /\ Restarted
  /\ session' = [s \in Session |-> Closed]
  /\ press' = [p \in Press |-> Idle]

Next ==
  \/ ConfigNext /\ UNCHANGED <<session, press>>
  \/ \E s \in Session :
       \/ Configure(s) \/ Expire(s)
       \/ \E f \in Feature :
            \/ Skip(s, f) \/ SubmitForm(s, f)
            \/ \E c \in Choice[f] : ChooseSchedule(s, f, c)
            \/ \E p \in Press :
                 \/ PressSave(p, s, f)
                 \/ \E c \in Choice[f] : SubmitChoice(p, s, f, c)
  \/ \E p \in Press :
       \/ ReadDraft(p) \/ SaveFails(p) \/ Write(p)
       \/ Answered(p) \/ AnswerLost(p) \/ RolesMade(p)
  \/ Restart

Spec == Init /\ [][Next]_vars

-----------------------------------------------------------------------------
(* Properties *)

\* The live cron jobs of the guild are those its row asks for, one per feature,
\* whatever saves, starts and restarts have set them up; except after saves that
\* overtook each other or the start, and after a guild was seeded on joining.
JobsFollowRow ==
  \A f \in Feature :
    /\ Len(jobs[f]) <= 1
    /\ (/\ start = "running" /\ f \notin stale
        /\ \A p \in Press : press[p].stage = "written" => press[p].feature # f)
       => jobs[f] = JobOf(f, row)

\* What is stored for a feature is changed by a save of that very feature and by
\* nothing else: not by saves of other features from older views of the row, not
\* by the seed of a start.  (The seed on joining is left out: NoSeedOverRow.)
OnlyOwnSaves ==
  [][row # NoRow /\ join' = join =>
       \A f \in Feature : row'[f] # row[f] =>
         \E p \in Press : press[p].stage = "writing" /\ press[p].feature = f]_vars

\* A save writes what was chosen for its own feature, though it reads the draft
\* after an await and its form or a menu may have changed it: as long as no Skip
\* and no other save is pressed in the session while a save of it is under way.
\* After such a press the draft may be the next feature's, and is stored for this.
SavesWhatWasChosen ==
  \A p \in Press :
    press[p].stage \in {"writing", "written"} /\ ~session[press[p].session].hasty =>
      press[p].choice \in session[press[p].session].chosen[press[p].feature]

\* 'skips upsert if guild already has a config row'
\* (guild-config.seeder.test.ts:76): the seed on joining never replaces a row.
NoSeedOverRow == [][join = "absent" /\ join' = "in" /\ row' # row => row = NoRow]_vars
=============================================================================
