------------------------ MODULE ConfigurationProofs -------------------------
(***************************************************************************)
(* For any features, choices, sessions and saves, any overlap of saves,    *)
(* starts, failures, lost answers and restarts: a save changes nothing but *)
(* its own feature, the live jobs of a feature are those the row asks for  *)
(* unless they are stale, and a save writes what was chosen for its        *)
(* feature though it reads the draft after an await.                       *)
(***************************************************************************)
EXTENDS ConfigureWizard, SequenceTheorems, TLAPS

-----------------------------------------------------------------------------
(* The inductive invariants, in two parts: JobsInv on rows and jobs,       *)
(* ChoicesInv on sessions.  Both need to know which saves are under way.   *)

Saving == {"deferring", "writing", "written", "roles"}

\* Types, more than TypeOK: the fields of sessions and saves
SessionRecord ==
  [open : BOOLEAN, features : Seq(Feature), index : Nat,
   draft : [feature : Feature \cup {None}, schedule : Nat],
   chosen : [Feature -> SUBSET Nat], hasty : BOOLEAN]

Save == [stage : Saving \cup {"idle"}, session : Session \cup {None},
         feature : Feature \cup {None}, choice : Nat]

SessionsFit == session \in [Session -> SessionRecord]

PressesFit ==
  /\ press \in [Press -> Save]
  /\ \A p \in Press : press[p].stage # "idle" =>
       press[p].session \in Session /\ press[p].feature \in Feature

\* A feature has one job at most: Reschedule stops the last and sets up one.
JobsFit ==
  /\ jobs \in [Feature -> Seq(Nat)]
  /\ \A f \in Feature : Len(jobs[f]) <= 1
  /\ \A f \in Jobless : jobs[f] = <<>>

RowsFit == (row = NoRow \/ IsRow(row)) /\ (loaded = NoRow \/ IsRow(loaded))

\* The saves of a feature whose answer is still to come
WrittenFor(f) == {p \in Press : press[p].stage = "written" /\ press[p].feature = f}

\* Of a feature that is not stale: one answer at most is to come, and the row
\* has its choice; what start-up has loaded asks for what the row asks for; and once no
\* answer is to come, the jobs are the row's.
Follows(f) ==
  f \notin stale =>
    /\ \A p, q \in WrittenFor(f) : p = q
    /\ \A p \in WrittenFor(f) : row # NoRow /\ row[f] = press[p].choice
    /\ start = "loaded" => JobOf(f, loaded) = JobOf(f, row)
    /\ start = "running" /\ WrittenFor(f) = {} => jobs[f] = JobOf(f, row)

JobsInv == RowsFit /\ PressesFit /\ JobsFit /\ \A f \in Feature : Follows(f)

\* Of a session in which no button was pressed during a save: it has one save at
\* most, the schedule in the draft was chosen under the draft's feature, and until
\* the save reads the draft the session stays at the feature of the save.
SavesOf(s) == {p \in Press : press[p].stage # "idle" /\ press[p].session = s}
Calm(s) ==
  ~session[s].hasty =>
    /\ \A p, q \in SavesOf(s) : p = q
    /\ session[s].draft.schedule # Off =>
         /\ session[s].draft.feature \in Feature
         /\ session[s].draft.schedule \in session[s].chosen[session[s].draft.feature]
    /\ \A p \in SavesOf(s) :
         /\ press[p].stage = "deferring" =>
              Current(s) = press[p].feature /\ session[s].draft.feature = press[p].feature
         /\ press[p].stage \in {"writing", "written"} =>
              press[p].choice \in session[s].chosen[press[p].feature]

ChoicesInv == SessionsFit /\ PressesFit /\ \A s \in Session : Calm(s)

-----------------------------------------------------------------------------
(* Rows *)

\* What is written of one feature leaves the others as they are.
LEMMA WriteKeepsOthers ==
  ASSUME NEW p \in Press, NEW f \in Feature, row # NoRow, row' = Upserted(Patch(p)),
         f # press[p].feature
  PROVE  row'[f] = row[f]
BY DEF Upserted, Patch, Stored

\* For any features, sessions, saves and starts: what is stored for a feature is
\* changed by a save of that very feature alone, or by the seed on joining.
THEOREM SavesAreOwn == Spec => OnlyOwnSaves
<1> DEFINE Own == row # NoRow /\ join' = join =>
       \A f \in Feature : row'[f] # row[f] =>
         \E p \in Press : press[p].stage = "writing" /\ press[p].feature = f
<1>1. [Next]_vars => [Own]_vars
  <2> SUFFICES ASSUME [Next]_vars, row # NoRow, join' = join, NEW f \in Feature,
                      row'[f] # row[f]
               PROVE  \E p \in Press : press[p].stage = "writing" /\ press[p].feature = f
    OBVIOUS
  <2>1. row' # row
    OBVIOUS
  <2>2. ~(ConfigNext /\ UNCHANGED <<session, press>>)
    BY <2>1 DEF ConfigNext, SeedAll, LoadRows, StartJobs, LoadFails, Join, JoinCheck,
                JoinSeed, JoinSeedFails, InsertedIfAbsent
  <2>3. ~Restart /\ ~UNCHANGED vars
    BY <2>1 DEF Restart, Restarted, vars, configVars
  <2>4. ASSUME NEW s \in Session
        PROVE  /\ ~Configure(s) /\ ~Expire(s)
               /\ \A g \in Feature :
                    /\ ~Skip(s, g) /\ ~SubmitForm(s, g)
                    /\ \A c \in Choice[g] : ~ChooseSchedule(s, g, c)
                    /\ \A p \in Press : /\ ~PressSave(p, s, g)
                                        /\ \A c \in Choice[g] : ~SubmitChoice(p, s, g, c)
    BY <2>1 DEF Configure, Expire, Skip, SubmitForm, ChooseSchedule, PressSave,
                SubmitChoice, configVars
  <2>5. PICK p \in Press : Write(p)
    <3>1. ASSUME NEW p \in Press
          PROVE  /\ ~ReadDraft(p) /\ ~SaveFails(p) /\ ~Answered(p) /\ ~AnswerLost(p)
                 /\ ~RolesMade(p)
      BY <2>1 DEF ReadDraft, SaveFails, Answered, AnswerLost, RolesMade, configVars
    <3> QED BY <2>2, <2>3, <2>4, <3>1 DEF Next
  <2>6. press[p].feature = f
    BY <2>5, WriteKeepsOthers DEF Write
  <2> QED BY <2>5, <2>6 DEF Write
<1> QED BY <1>1, PTL DEF Spec, OnlyOwnSaves

-----------------------------------------------------------------------------
(* The saves under way *)

\* One save changes to a record that fits.
LEMMA PressBecomes ==
  ASSUME PressesFit, NEW p \in Press, NEW k \in Save,
         k.stage # "idle" => k.session \in Session /\ k.feature \in Feature,
         press' = [press EXCEPT ![p] = k]
  PROVE  PressesFit' /\ press'[p] = k /\ \A q \in Press \ {p} : press'[q] = press[q]
<1>1. press \in [Press -> Save]
  BY DEF PressesFit, Save
<1>2. press' \in [Press -> Save]
  BY <1>1
<1>3. press'[p] = k /\ \A q \in Press \ {p} : press'[q] = press[q]
  BY <1>1
<1> QED BY <1>1, <1>2, <1>3 DEF PressesFit, Save

\* A save goes to its next await.
LEMMA StageMoves ==
  ASSUME PressesFit, NEW p \in Press, press[p].stage # "idle", NEW stage \in Saving,
         press' = [press EXCEPT ![p].stage = stage]
  PROVE  /\ PressesFit'
         /\ \A q \in Press \ {p} : press'[q] = press[q]
         /\ press'[p].stage = stage /\ press'[p].session = press[p].session
         /\ press'[p].feature = press[p].feature /\ press'[p].choice = press[p].choice
<1> DEFINE k == [press[p] EXCEPT !.stage = stage]
<1>1. press[p] \in Save /\ press[p].session \in Session /\ press[p].feature \in Feature
  BY DEF PressesFit, Save
<1>2. k \in Save
  BY <1>1 DEF Save
<1>3. /\ k.stage = stage /\ k.session = press[p].session /\ k.feature = press[p].feature
      /\ k.choice = press[p].choice
  BY <1>1 DEF Save
<1>4. press' = [press EXCEPT ![p] = k]
  BY DEF PressesFit
<1> HIDE DEF k
<1> QED BY <1>1, <1>2, <1>3, <1>4, PressBecomes

\* A save ends.
LEMMA SaveEnds ==
  ASSUME PressesFit, NEW p \in Press, End(p)
  PROVE  /\ PressesFit' /\ press'[p].stage = "idle"
         /\ \A q \in Press \ {p} : press'[q] = press[q]
<1>1. Idle \in Save /\ Idle.stage = "idle"
  BY DEF Save, Idle, Off
<1> QED BY <1>1, PressBecomes DEF End

\* A button or form of a feature is used.
LEMMA SaveStarts ==
  ASSUME PressesFit, NEW p \in Press, NEW s \in Session, NEW f \in Feature,
         NEW stage \in {"deferring", "writing"}, NEW choice \in Nat,
         Started(p, s, f, stage, choice)
  PROVE  /\ PressesFit' /\ press[p].stage = "idle"
         /\ press'[p].stage = stage /\ press'[p].session = s /\ press'[p].feature = f
         /\ press'[p].choice = choice
         /\ \A q \in Press \ {p} : press'[q] = press[q]
<1> DEFINE k == [stage |-> stage, session |-> s, feature |-> f, choice |-> choice]
<1>1. k \in Save
  BY DEF Save, Saving
<1>2. press' = [press EXCEPT ![p] = k] /\ press[p].stage = "idle"
  BY DEF Started, Idle
<1>3. k.stage = stage /\ k.session = s /\ k.feature = f /\ k.choice = choice
  OBVIOUS
<1> HIDE DEF k
<1> QED BY <1>1, <1>2, <1>3, PressBecomes

\* The draft is read.
LEMMA DraftIsRead ==
  ASSUME SessionsFit, PressesFit, NEW p \in Press, ReadDraft(p)
  PROVE  /\ PressesFit' /\ \A q \in Press \ {p} : press'[q] = press[q]
         /\ press[p].stage = "deferring" /\ press[p].session \in Session
         /\ \/ press'[p].stage = "idle"
            \/ /\ press'[p].stage = "writing" /\ press'[p].session = press[p].session
               /\ press'[p].feature = press[p].feature
               /\ DraftRead(p).schedule # Off /\ press'[p].choice = DraftRead(p).schedule
<1>1. press[p].stage = "deferring"
  BY DEF ReadDraft
<1>2. press[p] \in Save /\ press[p].session \in Session /\ press[p].feature \in Feature
  BY <1>1 DEF PressesFit, Save
<1>3. CASE End(p)
  BY <1>1, <1>2, <1>3, SaveEnds
<1>4. CASE ~End(p)
  <2> DEFINE k == [[press[p] EXCEPT !.stage = "writing"] EXCEPT !.choice = DraftRead(p).schedule]
  <2>1. DraftRead(p).schedule \in Nat
    BY <1>2 DEF SessionsFit, SessionRecord, DraftRead
  <2>2. k \in Save
    BY <1>2, <2>1 DEF Save, Saving
  <2>3. /\ k.stage = "writing" /\ k.session = press[p].session /\ k.feature = press[p].feature
        /\ k.choice = DraftRead(p).schedule
    BY <1>2 DEF Save
  <2>4. DraftRead(p).schedule # Off
    BY <1>4 DEF ReadDraft, Readable
  <2>5. press' = [press EXCEPT ![p] = k]
    <3>1. press' = [press EXCEPT ![p].stage = "writing", ![p].choice = DraftRead(p).schedule]
      BY <1>4 DEF ReadDraft
    <3> QED BY <3>1 DEF PressesFit
  <2> HIDE DEF k
  <2> QED BY <1>1, <1>2, <2>2, <2>3, <2>4, <2>5, PressBecomes
<1> QED BY <1>3, <1>4

-----------------------------------------------------------------------------
(* The cron jobs *)

\* Stopping the one job of a feature and setting up what a row asks for leaves
\* just that.
LEMMA OneJob ==
  ASSUME JobsFit, NEW f \in Feature, NEW r, r = NoRow \/ IsRow(r)
  PROVE  /\ Stopped(jobs[f]) \o JobOf(f, r) = JobOf(f, r)
         /\ JobOf(f, r) \in Seq(Nat) /\ Len(JobOf(f, r)) <= 1
         /\ f \in Jobless => JobOf(f, r) = <<>>
<1>1. jobs[f] \in Seq(Nat) /\ Len(jobs[f]) <= 1
  BY DEF JobsFit
<1>2. JobOf(f, r) \in Seq(Nat) /\ Len(JobOf(f, r)) <= 1
  <2>1. r # NoRow => r[f] \in Nat
    BY DEF IsRow
  <2>2. JobOf(f, r) = <<>> \/ \E n \in Nat : JobOf(f, r) = <<n>>
    BY <2>1 DEF JobOf, Off
  <2>3. CASE JobOf(f, r) = <<>>
    BY <2>3
  <2>4. CASE JobOf(f, r) # <<>>
    <3>1. PICK n \in Nat : JobOf(f, r) = <<n>>
      BY <2>2, <2>4
    <3>2. <<n>> \in Seq(Nat) /\ Len(<<n>>) = 1
      OBVIOUS
    <3> QED BY <3>1, <3>2
  <2> QED BY <2>3, <2>4
<1>3. Stopped(jobs[f]) = <<>>
  <2> DEFINE js == jobs[f]
  <2>1. CASE js = <<>>
    BY <2>1 DEF Stopped
  <2>2. CASE js # <<>>
    <3>1. Len(js) = 1
      <4>1. js \in Seq(Nat) /\ Len(js) <= 1
        BY <1>1
      <4> HIDE DEF js
      <4>2. Len(js) \in Nat /\ Len(js) # 0
        BY <4>1, <2>2, EmptySeq
      <4>3. \A n \in Nat : n <= 1 /\ n # 0 => n = 1
        OBVIOUS
      <4> QED BY <4>1, <4>2, <4>3
    <3>2. SubSeq(js, 1, 0) = <<>>
      BY <1>1
    <3> QED BY <2>2, <3>1, <3>2 DEF Stopped
  <2> QED BY <2>1, <2>2
<1>4. <<>> \o JobOf(f, r) = JobOf(f, r)
  BY <1>2, ConcatEmptySeq
<1>5. f \in Jobless => JobOf(f, r) = <<>>
  BY DEF JobOf
<1> QED BY <1>2, <1>3, <1>4, <1>5

\* What a row asks for is told from one column.
LEMMA JobOfColumn ==
  ASSUME NEW f, NEW q, NEW r, q # NoRow, r # NoRow, q[f] = r[f]
  PROVE  JobOf(f, q) = JobOf(f, r)
BY DEF JobOf

\* A column that is not written asks for what it asked for, default or not.
LEMMA WrittenRow ==
  ASSUME RowsFit, NEW f \in Feature, NEW patch,
         \A g \in DOMAIN patch : patch[g] \in Nat
  PROVE  /\ IsRow(Upserted(patch)) /\ Upserted(patch) # NoRow
         /\ f \in DOMAIN patch => Upserted(patch)[f] = patch[f]
         /\ f \notin DOMAIN patch => JobOf(f, Upserted(patch)) = JobOf(f, row)
         /\ f \notin DOMAIN patch /\ row # NoRow => Upserted(patch)[f] = row[f]
<1>1. DOMAIN Upserted(patch) = Feature
  BY DEF Upserted
<1>2. IsRow(Stored)
  BY DEF RowsFit, Stored, IsRow, DefaultRow, Off
<1>3. \A g \in Feature : Upserted(patch)[g] \in Nat
  BY <1>2 DEF Upserted, IsRow
<1>4. Upserted(patch) # NoRow
  <2>1. DOMAIN NoRow = {}
    BY DEF NoRow
  <2> QED BY <1>1, <2>1
<1>5. ASSUME f \notin DOMAIN patch PROVE Upserted(patch)[f] = Stored[f]
  BY <1>5 DEF Upserted
<1>6. ASSUME f \notin DOMAIN patch, row # NoRow
      PROVE  Upserted(patch)[f] = row[f] /\ JobOf(f, Upserted(patch)) = JobOf(f, row)
  BY <1>4, <1>5, <1>6, JobOfColumn DEF Stored
<1>7. ASSUME f \notin DOMAIN patch, row = NoRow
      PROVE  JobOf(f, Upserted(patch)) = JobOf(f, row)
  <2>1. Upserted(patch)[f] = Off
    BY <1>5, <1>7 DEF Stored, DefaultRow
  <2> QED BY <1>4, <1>7, <2>1 DEF JobOf
<1> QED BY <1>1, <1>3, <1>4, <1>6, <1>7 DEF Upserted, IsRow

\* At first there is no row and no job.
LEMMA JobsInitial == Init => JobsInv
<1> SUFFICES ASSUME Init PROVE JobsInv
  OBVIOUS
<1>1. RowsFit
  BY DEF Init, ConfigInit, RowsFit
<1>2. PressesFit
  BY DEF Init, PressesFit, Save, Idle, Saving, Off
<1>3. JobsFit
  BY ConfigurationAssumption, EmptySeq DEF Init, ConfigInit, NoJobs, JobsFit
<1>4. \A f \in Feature : Follows(f)
  BY DEF Init, ConfigInit, Follows, WrittenFor, Idle
<1> QED BY <1>1, <1>2, <1>3, <1>4 DEF JobsInv

\* What does not touch a feature's column, jobs and answers to come
LEMMA FollowsOn ==
  ASSUME NEW f \in Feature, Follows(f), f \in stale => f \in stale',
         start' = start, loaded' = loaded, jobs'[f] = jobs[f],
         JobOf(f, row') = JobOf(f, row),
         row # NoRow => row' # NoRow /\ row'[f] = row[f],
         WrittenFor(f)' = WrittenFor(f),
         \A p \in WrittenFor(f) : press'[p].choice = press[p].choice
  PROVE  Follows(f)'
<1> SUFFICES ASSUME f \notin stale'
             PROVE  /\ \A p, q \in WrittenFor(f)' : p = q
                    /\ \A p \in WrittenFor(f)' : row' # NoRow /\ row'[f] = press'[p].choice
                    /\ start' = "loaded" => JobOf(f, loaded') = JobOf(f, row')
                    /\ start' = "running" /\ WrittenFor(f)' = {} => jobs'[f] = JobOf(f, row')
  BY DEF Follows, JobOf
<1>1. f \notin stale
  OBVIOUS
<1> QED BY <1>1 DEF Follows

\* Saves that are not answered and do not become so
LEMMA NoAnswers ==
  ASSUME NEW p \in Press, \A q \in Press \ {p} : press'[q] = press[q],
         press[p].stage # "written", press'[p].stage # "written", NEW f \in Feature
  PROVE  /\ WrittenFor(f)' = WrittenFor(f)
         /\ \A q \in WrittenFor(f) : press'[q].choice = press[q].choice
BY DEF WrittenFor

\* Steps that leave rows and jobs alone
LEMMA ConfigUnchanged ==
  ASSUME JobsInv, UNCHANGED configVars, PressesFit',
         \A f \in Feature :
           /\ WrittenFor(f)' = WrittenFor(f)
           /\ \A p \in WrittenFor(f) : press'[p].choice = press[p].choice
  PROVE  JobsInv'
<1>1. /\ row' = row /\ start' = start /\ loaded' = loaded /\ jobs' = jobs /\ stale' = stale
  BY DEF configVars
<1>2. RowsFit' /\ JobsFit'
  BY <1>1 DEF JobsInv, RowsFit, JobsFit, IsRow
<1>3. ASSUME NEW f \in Feature PROVE Follows(f)'
  BY <1>1, FollowsOn DEF JobsInv
<1> QED BY <1>2, <1>3 DEF JobsInv

\* A step of a session is none of the jobs' business.
LEMMA SessionStepsKeepJobs ==
  ASSUME JobsInv, UNCHANGED configVars, UNCHANGED press
  PROVE  JobsInv'
<1>1. PressesFit'
  BY DEF JobsInv, PressesFit
<1>2. ASSUME NEW f \in Feature
      PROVE  /\ WrittenFor(f)' = WrittenFor(f)
             /\ \A p \in WrittenFor(f) : press'[p].choice = press[p].choice
  BY DEF WrittenFor
<1> QED BY <1>1, <1>2, ConfigUnchanged

\* Nor is a save that starts,
LEMMA SavesStartKeepsJobs ==
  ASSUME JobsInv, NEW p \in Press, NEW s \in Session, NEW f \in Feature,
         PressSave(p, s, f) \/ \E c \in Choice[f] : SubmitChoice(p, s, f, c)
  PROVE  JobsInv'
<1>1. PICK stage \in {"deferring", "writing"}, choice \in Nat :
        Started(p, s, f, stage, choice) /\ UNCHANGED configVars
  BY ConfigurationAssumption DEF PressSave, SubmitChoice, Off
<1>2. /\ PressesFit' /\ press[p].stage = "idle" /\ press'[p].stage \in {"deferring", "writing"}
      /\ \A q \in Press \ {p} : press'[q] = press[q]
  BY <1>1, SaveStarts DEF JobsInv
<1> QED BY <1>1, <1>2, NoAnswers, ConfigUnchanged

\* reads its draft,
LEMMA ReadsKeepJobs ==
  ASSUME JobsInv, SessionsFit, NEW p \in Press, ReadDraft(p)
  PROVE  JobsInv'
<1>1. /\ PressesFit' /\ press[p].stage = "deferring" /\ press'[p].stage \in {"idle", "writing"}
      /\ \A q \in Press \ {p} : press'[q] = press[q]
  BY DraftIsRead DEF JobsInv
<1> QED BY <1>1, NoAnswers, ConfigUnchanged DEF ReadDraft

\* or ends before it wrote or after it was answered.
LEMMA EndsKeepJobs ==
  ASSUME JobsInv, NEW p \in Press, SaveFails(p) \/ RolesMade(p)
  PROVE  JobsInv'
<1>1. press[p].stage # "written" /\ End(p) /\ UNCHANGED configVars
  BY DEF SaveFails, RolesMade
<1>2. PressesFit' /\ press'[p].stage = "idle" /\ \A q \in Press \ {p} : press'[q] = press[q]
  BY <1>1, SaveEnds DEF JobsInv
<1> QED BY <1>1, <1>2, NoAnswers, ConfigUnchanged

\* A write asks for the job of its feature alone.
LEMMA WriteKeepsJobs ==
  ASSUME JobsInv, NEW p \in Press, Write(p)
  PROVE  JobsInv'
<1> SUFFICES ASSUME NEW f \in Feature, f = press[p].feature PROVE JobsInv'
  BY DEF Write, JobsInv, PressesFit
<1>0. /\ press[p].stage = "writing" /\ f \in Feature /\ press[p].choice \in Nat
  BY DEF Write, JobsInv, PressesFit, Save
<1>1. /\ PressesFit' /\ press'[p].stage = "written" /\ press'[p].feature = f
      /\ press'[p].choice = press[p].choice
      /\ \A q \in Press \ {p} : press'[q] = press[q]
  <2>1. press' = [press EXCEPT ![p].stage = "written"] /\ "written" \in Saving
    BY DEF Write, Saving
  <2> QED BY <1>0, <2>1, StageMoves DEF JobsInv
<1>2. /\ row' = Upserted(Patch(p)) /\ start' = start /\ loaded' = loaded /\ jobs' = jobs
  BY DEF Write
<1>3. DOMAIN Patch(p) = {f} /\ Patch(p)[f] = press[p].choice
  BY DEF Patch
<1>4. /\ IsRow(row') /\ row' # NoRow /\ row'[f] = press[p].choice
      /\ \A g \in Feature \ {f} : /\ JobOf(g, row') = JobOf(g, row)
                                  /\ row # NoRow => row'[g] = row[g]
  <2>1. \A g \in DOMAIN Patch(p) : Patch(p)[g] \in Nat
    BY <1>0, <1>3
  <2> QED BY <1>0, <1>2, <1>3, <2>1, WrittenRow DEF JobsInv
<1>5. RowsFit' /\ JobsFit'
  BY <1>2, <1>4 DEF JobsInv, RowsFit, JobsFit, IsRow
<1>6. ASSUME NEW g \in Feature, g # f PROVE Follows(g)'
  <2>1. /\ WrittenFor(g)' = WrittenFor(g)
        /\ \A q \in WrittenFor(g) : press'[q].choice = press[q].choice
    BY <1>0, <1>1, <1>6 DEF WrittenFor
  <2>2. g \in stale => g \in stale'
    BY <1>6 DEF Write
  <2> QED BY <1>2, <1>4, <1>6, <2>1, <2>2, FollowsOn DEF JobsInv
<1>7. Follows(f)'
  <2>1. CASE Overtakes(p)
    <3>1. f \in stale'
      BY <2>1 DEF Write
    <3> QED BY <3>1 DEF Follows
  <2>2. CASE ~Overtakes(p)
    <3>1. WrittenFor(f)' = {p}
      BY <1>1, <2>2 DEF WrittenFor, Overtakes
    <3>2. start' # "loaded"
      BY <1>2, <2>2 DEF Overtakes
    <3> QED BY <1>1, <1>4, <3>1, <3>2 DEF Follows
  <2> QED BY <2>1, <2>2
<1> QED BY <1>1, <1>5, <1>6, <1>7 DEF JobsInv

\* The answer sets up the job of the row that was stored last.
LEMMA AnswerKeepsJobs ==
  ASSUME JobsInv, NEW p \in Press, Answered(p)
  PROVE  JobsInv'
<1> SUFFICES ASSUME NEW f \in Feature, f = press[p].feature PROVE JobsInv'
  BY DEF Answered, JobsInv, PressesFit
<1>0. press[p].stage = "written" /\ press[p].choice \in Nat
  BY DEF Answered, JobsInv, PressesFit, Save
<1>1. /\ PressesFit' /\ press'[p].stage # "written"
      /\ \A q \in Press \ {p} : press'[q] = press[q]
  <2>1. CASE f \in Jobless
    <3>1. press' = [press EXCEPT ![p].stage = "roles"] /\ "roles" \in Saving
      BY <2>1 DEF Answered, Saving
    <3> QED BY <1>0, <3>1, StageMoves DEF JobsInv
  <2>2. CASE f \notin Jobless
    <3>1. End(p)
      BY <2>2 DEF Answered
    <3> QED BY <3>1, SaveEnds DEF JobsInv
  <2> QED BY <2>1, <2>2
<1>2. row' = row /\ start' = start /\ loaded' = loaded /\ stale' = stale
  BY DEF Answered
<1> DEFINE r == Upserted(Patch(p))
<1>3. IsRow(r) /\ r # NoRow /\ r[f] = press[p].choice
  <2>1. DOMAIN Patch(p) = {f} /\ Patch(p)[f] = press[p].choice
    BY DEF Patch
  <2>2. \A g \in DOMAIN Patch(p) : Patch(p)[g] \in Nat
    BY <1>0, <2>1
  <2> QED BY <2>1, <2>2, WrittenRow DEF JobsInv
<1>4. /\ jobs' \in [Feature -> Seq(Nat)]
      /\ jobs'[f] = JobOf(f, r)
      /\ \A g \in Feature \ {f} : jobs'[g] = jobs[g]
  <2>1. CASE f \in Jobless
    <3>1. jobs' = jobs
      BY <2>1 DEF Answered
    <3> QED BY <2>1, <3>1 DEF JobsInv, JobsFit, JobOf
  <2>2. CASE f \notin Jobless
    <3>1. jobs' = [jobs EXCEPT ![f] = Stopped(jobs[f]) \o JobOf(f, r)]
      BY <2>2 DEF Answered, Reschedule
    <3>2. Stopped(jobs[f]) \o JobOf(f, r) = JobOf(f, r) /\ JobOf(f, r) \in Seq(Nat)
      BY <1>3, OneJob DEF JobsInv
    <3> HIDE DEF r
    <3> QED BY <3>1, <3>2 DEF JobsInv, JobsFit
  <2> QED BY <2>1, <2>2
<1>5. RowsFit' /\ JobsFit'
  <2>1. Len(JobOf(f, r)) <= 1 /\ (f \in Jobless => JobOf(f, r) = <<>>)
    BY <1>3, OneJob DEF JobsInv
  <2> HIDE DEF r
  <2>2. ASSUME NEW g \in Feature PROVE Len(jobs'[g]) <= 1 /\ (g \in Jobless => jobs'[g] = <<>>)
    BY <1>4, <2>1 DEF JobsInv, JobsFit
  <2>3. Jobless \subseteq Feature
    BY ConfigurationAssumption
  <2> QED BY <1>2, <1>4, <2>2, <2>3 DEF JobsInv, RowsFit, JobsFit, IsRow
<1>6. ASSUME NEW g \in Feature, g # f PROVE Follows(g)'
  <2>1. /\ WrittenFor(g)' = WrittenFor(g)
        /\ \A q \in WrittenFor(g) : press'[q].choice = press[q].choice
    BY <1>1, <1>6 DEF WrittenFor
  <2> QED BY <1>2, <1>4, <1>6, <2>1, FollowsOn DEF JobsInv
<1>7. Follows(f)'
  <2> SUFFICES ASSUME f \notin stale PROVE Follows(f)'
    BY <1>2 DEF Follows
  <2>1. p \in WrittenFor(f) /\ Follows(f)
    BY <1>0 DEF WrittenFor, JobsInv
  <2>2. WrittenFor(f)' = {}
    BY <1>1, <2>1 DEF WrittenFor, Follows
  <2>3. row # NoRow /\ row[f] = r[f]
    BY <1>3, <2>1 DEF Follows
  <2>4. jobs'[f] = JobOf(f, row)
    BY <1>3, <1>4, <2>3, JobOfColumn
  <2>5. start = "loaded" => JobOf(f, loaded) = JobOf(f, row)
    BY <2>1 DEF Follows
  <2> QED BY <1>2, <2>2, <2>4, <2>5 DEF Follows, JobOf
<1> QED BY <1>1, <1>5, <1>6, <1>7 DEF JobsInv

\* A lost answer leaves the job behind.
LEMMA LossKeepsJobs ==
  ASSUME JobsInv, NEW p \in Press, AnswerLost(p)
  PROVE  JobsInv'
<1>1. PressesFit' /\ press'[p].stage = "idle" /\ \A q \in Press \ {p} : press'[q] = press[q]
  BY SaveEnds DEF AnswerLost, JobsInv
<1>2. /\ row' = row /\ start' = start /\ loaded' = loaded /\ jobs' = jobs
      /\ stale' = stale \cup {press[p].feature}
  BY DEF AnswerLost
<1>3. RowsFit' /\ JobsFit'
  BY <1>2 DEF JobsInv, RowsFit, JobsFit, IsRow
<1>4. ASSUME NEW f \in Feature PROVE Follows(f)'
  <2>1. CASE f = press[p].feature
    BY <1>2, <2>1 DEF Follows
  <2>2. CASE f # press[p].feature
    <3>1. /\ WrittenFor(f)' = WrittenFor(f)
          /\ \A q \in WrittenFor(f) : press'[q].choice = press[q].choice
      BY <1>1, <2>2 DEF WrittenFor
    <3> QED BY <1>2, <3>1, FollowsOn DEF JobsInv
  <2> QED BY <2>1, <2>2
<1> QED BY <1>1, <1>3, <1>4 DEF JobsInv

\* The seeds are rows.
LEMMA SeedIsRow ==
  ASSUME RowsFit
  PROVE  IsRow(Upserted(EnvPatch)) \/ Feature = {}
<1> SUFFICES ASSUME NEW f \in Feature PROVE IsRow(Upserted(EnvPatch))
  OBVIOUS
<1>1. \A g \in DOMAIN EnvPatch : EnvPatch[g] \in Nat
  BY ConfigurationAssumption DEF EnvPatch, Off
<1> QED BY <1>1, WrittenRow

\* clientReady
LEMMA SeedKeepsJobs == ASSUME JobsInv, SeedAll, press' = press PROVE JobsInv'
<1>1. /\ start' = "loading" /\ loaded' = loaded /\ jobs' = jobs /\ stale' = stale
      /\ row' = row \/ (row = NoRow /\ row' = Upserted(EnvPatch))
  BY DEF SeedAll, InsertedIfAbsent
<1>2. PressesFit' /\ \A f \in Feature : WrittenFor(f)' = WrittenFor(f)
  BY DEF JobsInv, PressesFit, WrittenFor
<1>3. JobsFit'
  BY <1>1 DEF JobsInv, JobsFit
<1>4. RowsFit'
  <2>1. Feature = {} => Upserted(EnvPatch) = NoRow
    BY DEF Upserted, NoRow
  <2> QED BY <1>1, <2>1, SeedIsRow DEF JobsInv, RowsFit, IsRow
<1>5. ASSUME NEW f \in Feature PROVE Follows(f)'
  <2> SUFFICES ASSUME f \notin stale PROVE Follows(f)'
    BY <1>1 DEF Follows
  <2>1. Follows(f)
    BY DEF JobsInv
  <2>2. CASE WrittenFor(f) = {}
    BY <1>1, <1>2, <2>2 DEF Follows
  <2>3. CASE WrittenFor(f) # {}
    <3>1. row # NoRow
      BY <2>1, <2>3 DEF Follows
    <3> QED BY <1>1, <1>2, <2>1, <3>1 DEF Follows
  <2> QED BY <2>2, <2>3
<1> QED BY <1>2, <1>3, <1>4, <1>5 DEF JobsInv

\* getAllGuildConfigs: what is loaded is what the row asks for, until a write that
\* makes its feature stale.
LEMMA LoadKeepsJobs == ASSUME JobsInv, LoadRows, press' = press PROVE JobsInv'
<1>1. /\ start' = "loaded" /\ loaded' = row /\ row' = row /\ jobs' = jobs /\ stale' = stale
  BY DEF LoadRows
<1>2. PressesFit' /\ \A f \in Feature : WrittenFor(f)' = WrittenFor(f)
  BY DEF JobsInv, PressesFit, WrittenFor
<1>3. RowsFit' /\ JobsFit'
  BY <1>1 DEF JobsInv, RowsFit, JobsFit, IsRow
<1>4. ASSUME NEW f \in Feature PROVE Follows(f)'
  BY <1>1, <1>2 DEF JobsInv, Follows
<1> QED BY <1>2, <1>3, <1>4 DEF JobsInv

\* scheduleX for all guilds leaves one job at most of each feature.
LEMMA AllScheduled ==
  ASSUME JobsInv, NEW r, r = NoRow \/ IsRow(r), ScheduleAll(r)
  PROVE  JobsFit' /\ \A f \in Feature : jobs'[f] = JobOf(f, r)
<1>1. jobs' = [f \in Feature |-> JobOf(f, r)]
  <2>1. \A f \in Feature : Stopped(jobs[f]) \o JobOf(f, r) = JobOf(f, r)
    BY OneJob DEF JobsInv
  <2> QED BY <2>1 DEF ScheduleAll
<1>2. ASSUME NEW f \in Feature
      PROVE  /\ JobOf(f, r) \in Seq(Nat) /\ Len(JobOf(f, r)) <= 1
             /\ f \in Jobless => JobOf(f, r) = <<>>
  BY OneJob DEF JobsInv
<1>3. Jobless \subseteq Feature
  BY ConfigurationAssumption
<1> QED BY <1>1, <1>2, <1>3 DEF JobsFit

\* The jobs are set up from the row loaded.
LEMMA StartKeepsJobs == ASSUME JobsInv, StartJobs, press' = press PROVE JobsInv'
<1>1. /\ start = "loaded" /\ start' = "running" /\ loaded' = NoRow
      /\ row' = row /\ stale' = stale
  BY DEF StartJobs
<1>2. PressesFit' /\ \A f \in Feature : WrittenFor(f)' = WrittenFor(f)
  BY DEF JobsInv, PressesFit, WrittenFor
<1>3. JobsFit' /\ \A f \in Feature : jobs'[f] = JobOf(f, loaded)
  BY AllScheduled DEF StartJobs, JobsInv, RowsFit
<1>4. RowsFit'
  BY <1>1 DEF JobsInv, RowsFit, IsRow
<1>5. ASSUME NEW f \in Feature PROVE Follows(f)'
  BY <1>1, <1>2, <1>3 DEF JobsInv, Follows, JobOf
<1> QED BY <1>2, <1>3, <1>4, <1>5 DEF JobsInv

\* Without rows every job is stopped and every feature stale.
LEMMA FailedLoadKeepsJobs == ASSUME JobsInv, LoadFails, press' = press PROVE JobsInv'
<1>1. row' = row /\ loaded' = NoRow /\ stale' = Feature
  BY DEF LoadFails
<1>2. JobsFit'
  BY AllScheduled DEF LoadFails
<1>3. RowsFit' /\ PressesFit'
  BY <1>1 DEF JobsInv, RowsFit, PressesFit, IsRow
<1> QED BY <1>1, <1>2, <1>3 DEF JobsInv, Follows

\* guildCreate
LEMMA JoinKeepsJobs ==
  ASSUME JobsInv, Join \/ JoinCheck \/ JoinSeed \/ JoinSeedFails, press' = press
  PROVE  JobsInv'
<1>1. PressesFit' /\ \A f \in Feature : WrittenFor(f)' = WrittenFor(f)
  BY DEF JobsInv, PressesFit, WrittenFor
<1>2. loaded' = loaded /\ jobs' = jobs /\ start' = start
  BY DEF Join, JoinCheck, JoinSeed, JoinSeedFails
<1>3. JobsFit'
  BY <1>2 DEF JobsInv, JobsFit
<1>4. CASE JoinSeed
  <2>1. row' = Upserted(EnvPatch) /\ stale' = Feature
    BY <1>4 DEF JoinSeed
  <2>2. RowsFit'
    <3>1. Feature = {} => Upserted(EnvPatch) = NoRow
      BY DEF Upserted, NoRow
    <3> QED BY <1>2, <2>1, <3>1, SeedIsRow DEF JobsInv, RowsFit, IsRow
  <2> QED BY <1>1, <1>3, <2>1, <2>2 DEF JobsInv, Follows
<1>5. CASE Join \/ JoinCheck \/ JoinSeedFails
  <2>1. row' = row /\ stale' = stale
    BY <1>5 DEF Join, JoinCheck, JoinSeedFails
  <2>2. RowsFit'
    BY <1>2, <2>1 DEF JobsInv, RowsFit, IsRow
  <2>3. ASSUME NEW f \in Feature PROVE Follows(f)'
    BY <1>1, <1>2, <2>1, FollowsOn DEF JobsInv
  <2> QED BY <1>1, <1>3, <2>2, <2>3 DEF JobsInv
<1> QED BY <1>4, <1>5

\* A restart leaves no job and no save.
LEMMA RestartKeepsJobs == ASSUME JobsInv, Restart PROVE JobsInv'
<1>1. /\ row' = row /\ start' = "seeding" /\ loaded' = NoRow /\ jobs' = NoJobs
      /\ press' = [p \in Press |-> Idle]
  BY DEF Restart, Restarted
<1>2. RowsFit'
  BY <1>1 DEF JobsInv, RowsFit, IsRow
<1>3. PressesFit'
  BY <1>1 DEF PressesFit, Save, Idle, Saving, Off
<1>4. JobsFit'
  BY <1>1, ConfigurationAssumption, EmptySeq DEF NoJobs, JobsFit
<1>5. \A f \in Feature : Follows(f)'
  BY <1>1 DEF Follows, WrittenFor, Idle
<1> QED BY <1>2, <1>3, <1>4, <1>5 DEF JobsInv

-----------------------------------------------------------------------------
(* Sessions *)

\* A session that is closed has no draft.
LEMMA ClosedFits == Closed \in SessionRecord /\ Closed.draft = NoDraft /\ NoDraft.schedule = Off
<1>1. <<>> \in Seq(Feature) /\ [f \in Feature |-> {}] \in [Feature -> SUBSET Nat]
  BY EmptySeq
<1> QED BY <1>1 DEF Closed, SessionRecord, NoDraft, Off

\* A button pressed during a save makes the session hasty, and forgets.
LEMMA HastenedFits ==
  ASSUME NEW old \in SessionRecord, NEW hasty \in BOOLEAN
  PROVE  /\ Hastened(old, hasty) \in SessionRecord
         /\ ~Hastened(old, hasty).hasty => ~old.hasty /\ ~hasty /\ Hastened(old, hasty) = old
<1>1. CASE old.hasty \/ hasty
  <2>1. Closed.chosen \in [Feature -> SUBSET Nat]
    BY ClosedFits DEF SessionRecord
  <2> DEFINE new == [old EXCEPT !.hasty = TRUE, !.chosen = Closed.chosen]
  <2>2. Hastened(old, hasty) = new
    BY <1>1 DEF Hastened
  <2>3. new \in SessionRecord /\ new.hasty = TRUE
    BY <2>1 DEF SessionRecord
  <2> QED BY <2>2, <2>3
<1>2. CASE ~(old.hasty \/ hasty)
  BY <1>2 DEF Hastened
<1> QED BY <1>1, <1>2

\* A session that has gone on has no draft.
LEMMA AdvancedFits ==
  ASSUME NEW old \in SessionRecord, NEW f \in Feature
  PROVE  /\ Advanced(old, f) \in SessionRecord
         /\ Advanced(old, f).hasty = old.hasty /\ Advanced(old, f).draft = NoDraft
<1>0. NoDraft \in [feature : Feature \cup {None}, schedule : Nat]
  BY DEF NoDraft, Off
<1>1. CASE old.index < Len(old.features)
  <2> DEFINE new == [old EXCEPT !.index = @ + 1, !.draft = NoDraft, !.chosen[f] = {}]
  <2>1. Advanced(old, f) = new
    BY <1>1 DEF Advanced
  <2>2. new \in SessionRecord /\ new.hasty = old.hasty /\ new.draft = NoDraft
    <3> DEFINE chosen == [old.chosen EXCEPT ![f] = {}]
               index == old.index + 1
    <3>1. chosen \in [Feature -> SUBSET Nat] /\ index \in Nat
      BY DEF SessionRecord
    <3>2. new = [old EXCEPT !.index = index, !.draft = NoDraft, !.chosen = chosen]
      BY DEF SessionRecord
    <3> HIDE DEF chosen, index, new
    <3> QED BY <1>0, <3>1, <3>2 DEF SessionRecord
  <2> QED BY <2>1, <2>2
<1>2. CASE ~(old.index < Len(old.features))
  <2> DEFINE new == [Closed EXCEPT !.hasty = old.hasty]
  <2>1. Advanced(old, f) = new
    BY <1>2 DEF Advanced
  <2>2. new \in SessionRecord /\ new.hasty = old.hasty /\ new.draft = NoDraft
    BY ClosedFits DEF SessionRecord
  <2> QED BY <2>1, <2>2
<1> QED BY <1>1, <1>2

\* One session changes to a record that fits.
LEMMA SessionBecomes ==
  ASSUME SessionsFit, NEW s \in Session, NEW k \in SessionRecord,
         session' = [session EXCEPT ![s] = k]
  PROVE  SessionsFit' /\ session'[s] = k /\ \A t \in Session \ {s} : session'[t] = session[t]
<1>1. session \in [Session -> SessionRecord]
  BY DEF SessionsFit, SessionRecord
<1>2. session' \in [Session -> SessionRecord]
  BY <1>1
<1>3. session'[s] = k /\ \A t \in Session \ {s} : session'[t] = session[t]
  BY <1>1
<1> QED BY <1>2, <1>3 DEF SessionsFit, SessionRecord

\* The same of the step: a session that is still not hasty was not busy.
LEMMA SessionAdvances ==
  ASSUME SessionsFit, NEW s \in Session, NEW f \in Feature, NEW hasty \in BOOLEAN,
         Advance(s, f, hasty)
  PROVE  /\ SessionsFit' /\ \A t \in Session \ {s} : session'[t] = session[t]
         /\ ~session'[s].hasty => ~session[s].hasty /\ ~hasty /\ session'[s].draft = NoDraft
<1>1. session[s] \in SessionRecord
  BY DEF SessionsFit, SessionRecord
<1> DEFINE k == Hastened(Advanced(session[s], f), hasty)
<1>2. session' = [session EXCEPT ![s] = k]
  BY DEF Advance
<1>3. k \in SessionRecord
  BY <1>1, AdvancedFits, HastenedFits
<1>4. ~k.hasty => ~session[s].hasty /\ ~hasty /\ k.draft = NoDraft
  <2> DEFINE a == Advanced(session[s], f)
  <2>1. a \in SessionRecord /\ a.hasty = session[s].hasty /\ a.draft = NoDraft
    BY <1>1, AdvancedFits
  <2> HIDE DEF a
  <2>2. ~Hastened(a, hasty).hasty => ~a.hasty /\ ~hasty /\ Hastened(a, hasty) = a
    BY <2>1, HastenedFits
  <2>3. k = Hastened(a, hasty)
    BY DEF a
  <2> QED BY <2>1, <2>2, <2>3
<1> HIDE DEF k
<1> QED BY <1>2, <1>3, <1>4, SessionBecomes

\* What does not touch a session and its saves
LEMMA CalmElsewhere ==
  ASSUME NEW t \in Session, Calm(t), session'[t] = session[t],
         \A q \in Press : press'[q].stage # "idle" /\ press'[q].session = t
                            => press'[q] = press[q]
  PROVE  Calm(t)'
<1>1. \A q \in SavesOf(t)' : q \in SavesOf(t) /\ press'[q] = press[q]
  BY DEF SavesOf
<1>2. Current(t)' = Current(t)
  BY DEF Current
<1> QED BY <1>1, <1>2 DEF Calm

\* A session in which nothing happens
LEMMA IsCalm ==
  ASSUME NEW s \in Session, SavesOf(s)' = {}, session'[s].draft.schedule = Off
  PROVE  Calm(s)'
BY DEF Calm

-----------------------------------------------------------------------------
(* What is chosen.  First the steps that change a session and no save      *)

\* Of such a step it is enough to look at the session.
LEMMA OneSession ==
  ASSUME ChoicesInv, NEW s \in Session, press' = press, SessionsFit',
         \A t \in Session \ {s} : session'[t] = session[t], Calm(s)'
  PROVE  ChoicesInv'
<1>1. PressesFit'
  BY DEF ChoicesInv, PressesFit
<1>2. ASSUME NEW t \in Session PROVE Calm(t)'
  <2>1. CASE t = s
    BY <2>1
  <2>2. CASE t # s
    BY <2>2, CalmElsewhere DEF ChoicesInv
  <2> QED BY <2>1, <2>2
<1> QED BY <1>1, <1>2 DEF ChoicesInv

\* A session without saves under way is not busy, and the other way round.
LEMMA NotBusy ==
  ASSUME NEW s \in Session, ~Busy(s)
  PROVE  SavesOf(s) = {}
BY DEF Busy, SavesOf

\* A new session has nothing chosen, no draft and no saves.
LEMMA ConfigureKeepsChoices ==
  ASSUME ChoicesInv, NEW s \in Session, Configure(s)
  PROVE  ChoicesInv'
<1>1. PICK features \in Lists :
        session' = [session EXCEPT ![s] = [Closed EXCEPT !.open = TRUE, !.features = features]]
  BY DEF Configure
<1> DEFINE k == [Closed EXCEPT !.open = TRUE, !.features = features]
<1>2. k \in SessionRecord /\ k.draft = NoDraft
  BY WizardAssumption, ClosedFits DEF SessionRecord
<1>3. /\ SessionsFit' /\ session'[s].draft = NoDraft
      /\ \A t \in Session \ {s} : session'[t] = session[t]
  <2> HIDE DEF k
  <2>1. session' = [session EXCEPT ![s] = k]
    BY <1>1 DEF k
  <2> QED BY <1>2, <2>1, SessionBecomes DEF ChoicesInv
<1>4. press' = press /\ SavesOf(s)' = {}
  BY NotBusy DEF Configure, SavesOf
<1> QED BY <1>3, <1>4, ClosedFits, IsCalm, OneSession

\* Expiry keeps the object of a session that is busy.
LEMMA ExpireKeepsChoices ==
  ASSUME ChoicesInv, NEW s \in Session, Expire(s)
  PROVE  ChoicesInv'
<1>0. press' = press /\ session[s] \in SessionRecord
  BY DEF Expire, ChoicesInv, SessionsFit, SessionRecord
<1>1. CASE Busy(s)
  <2> DEFINE k == [session[s] EXCEPT !.open = FALSE]
  <2>1. session' = [session EXCEPT ![s] = k]
    BY <1>1 DEF Expire
  <2>2. /\ k \in SessionRecord /\ k.features = session[s].features /\ k.index = session[s].index
        /\ k.draft = session[s].draft /\ k.chosen = session[s].chosen /\ k.hasty = session[s].hasty
    BY <1>0 DEF SessionRecord
  <2> HIDE DEF k
  <2>3. /\ SessionsFit' /\ session'[s] = k
        /\ \A t \in Session \ {s} : session'[t] = session[t]
    BY <2>1, <2>2, SessionBecomes DEF ChoicesInv
  <2>4. Current(s)' = Current(s) /\ SavesOf(s)' = SavesOf(s)
    BY <1>0, <2>2, <2>3 DEF Current, SavesOf
  <2>5. Calm(s)'
    BY <1>0, <2>2, <2>3, <2>4 DEF ChoicesInv, Calm
  <2> QED BY <1>0, <2>3, <2>5, OneSession
<1>2. CASE ~Busy(s)
  <2>1. session' = [session EXCEPT ![s] = Closed]
    BY <1>2 DEF Expire
  <2>2. /\ SessionsFit' /\ session'[s] = Closed
        /\ \A t \in Session \ {s} : session'[t] = session[t]
    BY <2>1, ClosedFits, SessionBecomes DEF ChoicesInv
  <2>3. SavesOf(s)' = {}
    BY <1>0, <1>2, NotBusy DEF SavesOf
  <2> QED BY <1>0, <2>2, <2>3, ClosedFits, IsCalm, OneSession
<1> QED BY <1>1, <1>2

\* Skipping a feature during a save makes the session hasty, and else drops the
\* draft.
LEMMA SkipKeepsChoices ==
  ASSUME ChoicesInv, NEW s \in Session, NEW f \in Feature, Skip(s, f)
  PROVE  ChoicesInv'
<1>1. press' = press /\ Advance(s, f, Busy(s)) /\ Busy(s) \in BOOLEAN
  BY DEF Skip, Busy
<1>2. /\ SessionsFit' /\ \A t \in Session \ {s} : session'[t] = session[t]
      /\ ~session'[s].hasty => ~Busy(s) /\ session'[s].draft = NoDraft
  BY <1>1, SessionAdvances DEF ChoicesInv
<1>3. Calm(s)'
  <2> SUFFICES ASSUME ~session'[s].hasty PROVE Calm(s)'
    BY DEF Calm
  <2>1. SavesOf(s)' = {}
    BY <1>1, <1>2, NotBusy DEF SavesOf
  <2> QED BY <1>2, <2>1, ClosedFits, IsCalm
<1> QED BY <1>1, <1>2, <1>3, OneSession

\* A form opens an empty draft, of the feature any save under way is for.
LEMMA FormKeepsChoices ==
  ASSUME ChoicesInv, NEW s \in Session, NEW f \in Feature, SubmitForm(s, f)
  PROVE  ChoicesInv'
<1>0. press' = press /\ session[s] \in SessionRecord /\ Current(s) = f
  BY DEF SubmitForm, Active, ChoicesInv, SessionsFit, SessionRecord
<1> DEFINE draft == [feature |-> f, schedule |-> Off]
           k == [session[s] EXCEPT !.draft = draft]
<1>1. /\ k \in SessionRecord /\ k.features = session[s].features /\ k.index = session[s].index
      /\ k.draft.feature = f /\ k.draft.schedule = Off
      /\ k.chosen = session[s].chosen /\ k.hasty = session[s].hasty
  BY <1>0 DEF SessionRecord, Off
<1>2. session' = [session EXCEPT ![s] = k]
  BY DEF SubmitForm, ChoicesInv, SessionsFit
<1> HIDE DEF k
<1>3. /\ SessionsFit' /\ session'[s] = k
      /\ \A t \in Session \ {s} : session'[t] = session[t]
  BY <1>1, <1>2, SessionBecomes DEF ChoicesInv
<1>4. Current(s)' = f /\ SavesOf(s)' = SavesOf(s)
  BY <1>0, <1>1, <1>3 DEF Current, SavesOf
<1>5. Calm(s)'
  BY <1>0, <1>1, <1>3, <1>4 DEF ChoicesInv, Calm
<1> QED BY <1>0, <1>3, <1>5, OneSession

\* What is chosen under the form of a feature is remembered there.
LEMMA RememberedFits ==
  ASSUME NEW old \in SessionRecord, NEW f \in Feature, NEW choices \in SUBSET Nat
  PROVE  /\ Remembered(old, f, choices) \in SessionRecord
         /\ Remembered(old, f, choices).features = old.features
         /\ Remembered(old, f, choices).index = old.index
         /\ Remembered(old, f, choices).hasty = old.hasty
         /\ Remembered(old, f, choices).draft = old.draft
         /\ \A g \in Feature : old.chosen[g] \subseteq Remembered(old, f, choices).chosen[g]
         /\ choices \subseteq Remembered(old, f, choices).chosen[f]
<1> DEFINE chosen == [old.chosen EXCEPT ![f] = @ \cup choices]
           new == [old EXCEPT !.chosen = chosen]
<1>1. old.chosen \in [Feature -> SUBSET Nat]
  BY DEF SessionRecord
<1>2. /\ chosen \in [Feature -> SUBSET Nat] /\ choices \subseteq chosen[f]
      /\ \A g \in Feature : old.chosen[g] \subseteq chosen[g]
  BY <1>1
<1>3. Remembered(old, f, choices) = new
  BY DEF Remembered, SessionRecord
<1> HIDE DEF chosen
<1>4. /\ new \in SessionRecord /\ new.features = old.features /\ new.index = old.index
      /\ new.hasty = old.hasty /\ new.draft = old.draft /\ new.chosen = chosen
  BY <1>2 DEF SessionRecord
<1> QED BY <1>2, <1>3, <1>4

\* A schedule goes into the draft and is remembered under the draft's feature.
LEMMA ScheduleKeepsChoices ==
  ASSUME ChoicesInv, NEW s \in Session, NEW f \in Feature, NEW c \in Choice[f],
         ChooseSchedule(s, f, c)
  PROVE  ChoicesInv'
<1>0. /\ press' = press /\ session[s] \in SessionRecord /\ session[s].draft.feature = f
      /\ c \in Nat
  BY ConfigurationAssumption
     DEF ChooseSchedule, OwnDraft, ChoicesInv, SessionsFit, SessionRecord
<1> DEFINE draft == [session[s].draft EXCEPT !.schedule = c]
           old == Remembered(session[s], f, {c})
           new == [old EXCEPT !.draft.schedule = c]
           k == Hastened(new, FALSE)
<1>1. /\ draft \in [feature : Feature \cup {None}, schedule : Nat]
      /\ draft.feature = f /\ draft.schedule = c
  BY <1>0 DEF SessionRecord
<1>2. /\ old \in SessionRecord /\ old.features = session[s].features
      /\ old.index = session[s].index /\ old.hasty = session[s].hasty
      /\ old.draft = session[s].draft
      /\ \A g \in Feature : session[s].chosen[g] \subseteq old.chosen[g]
      /\ c \in old.chosen[f]
  BY <1>0, RememberedFits
<1>3. session' = [session EXCEPT ![s] = k]
  BY DEF ChooseSchedule
<1> HIDE DEF draft, old
<1>4. /\ new \in SessionRecord /\ new.features = session[s].features
      /\ new.index = session[s].index /\ new.hasty = session[s].hasty
      /\ new.draft = draft /\ new.chosen = old.chosen
  <2>1. new = [old EXCEPT !.draft = draft]
    BY <1>2 DEF draft, SessionRecord
  <2> HIDE DEF new
  <2> QED BY <1>1, <1>2, <2>1 DEF SessionRecord
<1> HIDE DEF new
<1>5. k \in SessionRecord /\ (~k.hasty => ~session[s].hasty /\ k = new)
  BY <1>4, HastenedFits
<1> HIDE DEF k
<1>6. /\ SessionsFit' /\ session'[s] = k
      /\ \A t \in Session \ {s} : session'[t] = session[t]
  BY <1>3, <1>5, SessionBecomes DEF ChoicesInv
<1>7. Calm(s)'
  <2> SUFFICES ASSUME ~k.hasty PROVE Calm(s)'
    BY <1>6 DEF Calm
  <2>1. session'[s] = new /\ ~session[s].hasty /\ Calm(s)
    BY <1>5, <1>6 DEF ChoicesInv
  <2>2. Current(s)' = Current(s) /\ SavesOf(s)' = SavesOf(s)
    BY <1>0, <1>4, <2>1 DEF Current, SavesOf
  <2>3. \A p \in SavesOf(s) : press[p].feature \in Feature
    BY DEF ChoicesInv, PressesFit, SavesOf
  <2> QED BY <1>0, <1>1, <1>2, <1>4, <2>1, <2>2, <2>3 DEF Calm
<1> QED BY <1>0, <1>6, <1>7, OneSession

-----------------------------------------------------------------------------
(* What is chosen.  Then the saves                                          *)

\* Of a step of one save that changes no session it is enough to look at the
\* session of that save.
LEMMA OneSave ==
  ASSUME ChoicesInv, NEW p \in Press, press[p].stage # "idle", session' = session, PressesFit',
         NEW s \in Session, press[p].session = s,
         \A q \in Press \ {p} : press'[q] = press[q],
         press'[p].stage # "idle" => press'[p].session = s,
         Calm(s)'
  PROVE  ChoicesInv'
<1>1. SessionsFit'
  BY DEF ChoicesInv, SessionsFit
<1>2. ASSUME NEW t \in Session PROVE Calm(t)'
  <2>1. CASE t = s
    BY <2>1
  <2>2. CASE t # s
    <3>1. \A q \in Press : press'[q].stage # "idle" /\ press'[q].session = t => press'[q] = press[q]
      BY <2>2
    <3> QED BY <3>1, CalmElsewhere DEF ChoicesInv
  <2> QED BY <2>1, <2>2
<1> QED BY <1>1, <1>2 DEF ChoicesInv

\* A save starts: in a session that is not hasty it is the only one.
LEMMA StartKeepsChoices ==
  ASSUME ChoicesInv, NEW p \in Press, NEW s \in Session, NEW f \in Feature,
         NEW stage \in {"deferring", "writing"}, NEW choice \in Nat,
         Started(p, s, f, stage, choice),
         stage = "deferring" => Current(s) = f /\ session[s].draft.feature = f,
         stage = "writing" => choice # Off
  PROVE  ChoicesInv'
<1>0. session[s] \in SessionRecord /\ Busy(s) \in BOOLEAN
  BY DEF ChoicesInv, SessionsFit, SessionRecord, Busy
<1> DEFINE new == Remembered(session[s], f, {choice} \ {Off})
           k == Hastened(new, Busy(s))
<1>1. /\ new \in SessionRecord /\ new.features = session[s].features
      /\ new.index = session[s].index /\ new.hasty = session[s].hasty
      /\ new.draft = session[s].draft
      /\ \A g \in Feature : session[s].chosen[g] \subseteq new.chosen[g]
      /\ choice # Off => choice \in new.chosen[f]
  BY <1>0, RememberedFits
<1>2. session' = [session EXCEPT ![s] = k]
  BY DEF Started
<1> HIDE DEF new
<1>3. k \in SessionRecord /\ (~k.hasty => ~session[s].hasty /\ ~Busy(s) /\ k = new)
  BY <1>0, <1>1, HastenedFits
<1> HIDE DEF k
<1>4. /\ SessionsFit' /\ session'[s] = k
      /\ \A t \in Session \ {s} : session'[t] = session[t]
  BY <1>2, <1>3, SessionBecomes DEF ChoicesInv
<1>5. /\ PressesFit' /\ press[p].stage = "idle"
      /\ press'[p].stage = stage /\ press'[p].session = s /\ press'[p].feature = f
      /\ press'[p].choice = choice
      /\ \A q \in Press \ {p} : press'[q] = press[q]
  BY SaveStarts DEF ChoicesInv
<1>6. Calm(s)'
  <2> SUFFICES ASSUME ~k.hasty PROVE Calm(s)'
    BY <1>4 DEF Calm
  <2>1. session'[s] = new /\ ~session[s].hasty /\ Calm(s) /\ SavesOf(s) = {}
    BY <1>3, <1>4, NotBusy DEF ChoicesInv
  <2>2. SavesOf(s)' = {p} /\ Current(s)' = Current(s)
    BY <1>1, <1>5, <2>1 DEF SavesOf, Current
  <2> QED BY <1>1, <1>5, <2>1, <2>2 DEF Calm
<1>7. ASSUME NEW t \in Session, t # s PROVE Calm(t)'
  BY <1>4, <1>5, <1>7, CalmElsewhere DEF ChoicesInv
<1> QED BY <1>4, <1>5, <1>6, <1>7 DEF ChoicesInv

\* The Save button finds the draft of the current feature; a form or menu brings
\* the choice along.
LEMMA PressKeepsChoices ==
  ASSUME ChoicesInv, NEW p \in Press, NEW s \in Session, NEW f \in Feature,
         PressSave(p, s, f) \/ \E c \in Choice[f] : SubmitChoice(p, s, f, c)
  PROVE  ChoicesInv'
<1>1. CASE PressSave(p, s, f)
  BY <1>1, StartKeepsChoices DEF PressSave, Active, Off
<1>2. CASE \E c \in Choice[f] : SubmitChoice(p, s, f, c)
  BY <1>2, ConfigurationAssumption, StartKeepsChoices DEF SubmitChoice, Off
<1> QED BY <1>1, <1>2

\* The draft read after the await is still of the feature of the save, whose
\* session has not gone on meanwhile.
LEMMA ReadKeepsChoices ==
  ASSUME ChoicesInv, NEW p \in Press, ReadDraft(p)
  PROVE  ChoicesInv'
<1>0. PICK s \in Session : press[p].session = s
  BY DraftIsRead DEF ChoicesInv
<1>1. /\ PressesFit' /\ \A q \in Press \ {p} : press'[q] = press[q]
      /\ press[p].stage = "deferring" /\ s \in Session
      /\ \/ press'[p].stage = "idle"
         \/ /\ press'[p].stage = "writing" /\ press'[p].session = s
            /\ press'[p].feature = press[p].feature
            /\ session[s].draft.schedule # Off /\ press'[p].choice = session[s].draft.schedule
  BY <1>0, DraftIsRead DEF ChoicesInv, DraftRead
<1>2. session' = session
  BY <1>0 DEF ReadDraft
<1>3. Calm(s)'
  <2> SUFFICES ASSUME ~session[s].hasty PROVE Calm(s)'
    BY <1>0, <1>2 DEF Calm
  <2>1. Calm(s) /\ p \in SavesOf(s)
    BY <1>0, <1>1 DEF ChoicesInv, SavesOf
  <2>2. \A q \in SavesOf(s)' : q = p
    BY <1>0, <1>1, <2>1 DEF Calm, SavesOf
  <2>3. p \in SavesOf(s)' => press'[p].choice \in session[s].chosen[press'[p].feature]
    BY <1>0, <1>1, <2>1 DEF Calm, SavesOf
  <2>4. p \in SavesOf(s)' => press'[p].stage = "writing"
    BY <1>0, <1>1 DEF SavesOf
  <2> QED BY <1>0, <1>2, <2>1, <2>2, <2>3, <2>4 DEF Calm
<1> QED BY <1>0, <1>1, <1>2, <1>3, OneSave

\* A save ends and the session stays.
LEMMA FailKeepsChoices ==
  ASSUME ChoicesInv, NEW p \in Press, press[p].stage # "idle", End(p), session' = session
  PROVE  ChoicesInv'
<1>0. PICK s \in Session : press[p].session = s
  BY DEF ChoicesInv, PressesFit
<1>1. /\ PressesFit' /\ press'[p].stage = "idle" /\ s \in Session
      /\ \A q \in Press \ {p} : press'[q] = press[q]
  BY <1>0, SaveEnds DEF ChoicesInv, PressesFit
<1>2. Calm(s)'
  <2>1. Calm(s) /\ Current(s)' = Current(s)
    BY <1>0, <1>1 DEF ChoicesInv, Current
  <2>2. \A q \in SavesOf(s)' : q \in SavesOf(s) /\ press'[q] = press[q]
    BY <1>0, <1>1 DEF SavesOf
  <2> QED BY <1>0, <2>1, <2>2 DEF Calm
<1> QED BY <1>0, <1>1, <1>2, OneSave

\* The row is written, or the roles are to be made.
LEMMA WriteKeepsChoices ==
  ASSUME ChoicesInv, NEW p \in Press, press[p].stage # "idle", session' = session,
         NEW stage \in {"written", "roles"},
         stage = "written" => press[p].stage = "writing",
         press' = [press EXCEPT ![p].stage = stage]
  PROVE  ChoicesInv'
<1>0. PICK s \in Session : press[p].session = s
  BY DEF ChoicesInv, PressesFit
<1>1. /\ PressesFit' /\ press'[p].stage = stage
      /\ press'[p].session = s /\ press'[p].feature = press[p].feature
      /\ press'[p].choice = press[p].choice
      /\ \A q \in Press \ {p} : press'[q] = press[q]
  BY <1>0, StageMoves DEF ChoicesInv, PressesFit, Saving
<1>2. Calm(s)'
  <2>1. Calm(s) /\ Current(s)' = Current(s) /\ SavesOf(s)' = SavesOf(s) /\ p \in SavesOf(s)
    BY <1>0, <1>1 DEF ChoicesInv, Current, SavesOf
  <2> QED BY <1>0, <1>1, <2>1 DEF Calm
<1> QED BY <1>0, <1>1, <1>2, OneSave

\* A save ends and the session goes on.
LEMMA AdvanceKeepsChoices ==
  ASSUME ChoicesInv, NEW p \in Press, press[p].stage # "idle", End(p),
         Advance(press[p].session, press[p].feature, FALSE)
  PROVE  ChoicesInv'
<1>0. PICK s \in Session : press[p].session = s
  BY DEF ChoicesInv, PressesFit
<1>1. /\ PressesFit' /\ press'[p].stage = "idle" /\ press[p].feature \in Feature
      /\ \A q \in Press \ {p} : press'[q] = press[q]
  BY <1>0, SaveEnds DEF ChoicesInv, PressesFit
<1>2. /\ SessionsFit' /\ \A t \in Session \ {s} : session'[t] = session[t]
      /\ ~session'[s].hasty => ~session[s].hasty /\ session'[s].draft = NoDraft
  BY <1>0, <1>1, SessionAdvances DEF ChoicesInv
<1>3. Calm(s)'
  <2> SUFFICES ASSUME ~session'[s].hasty PROVE Calm(s)'
    BY <1>0 DEF Calm
  <2>1. SavesOf(s)' = {}
    BY <1>0, <1>1, <1>2 DEF ChoicesInv, Calm, SavesOf
  <2> QED BY <1>0, <1>1, <1>2, <2>1, ClosedFits, IsCalm
<1>4. ASSUME NEW t \in Session, t # s PROVE Calm(t)'
  BY <1>0, <1>1, <1>2, <1>4, CalmElsewhere DEF ChoicesInv
<1> QED BY <1>0, <1>1, <1>2, <1>3, <1>4 DEF ChoicesInv

\* Steps of the configuration alone
LEMMA OthersKeepChoices ==
  ASSUME ChoicesInv, UNCHANGED <<session, press>>
  PROVE  ChoicesInv'
<1>1. SessionsFit' /\ PressesFit'
  BY DEF ChoicesInv, SessionsFit, PressesFit
<1>2. ASSUME NEW s \in Session PROVE Calm(s)'
  BY CalmElsewhere DEF ChoicesInv
<1> QED BY <1>1, <1>2 DEF ChoicesInv

\* Before the first session
LEMMA ChoicesInitial ==
  session = [s \in Session |-> Closed] /\ press = [p \in Press |-> Idle] => ChoicesInv
<1> SUFFICES ASSUME session = [s \in Session |-> Closed], press = [p \in Press |-> Idle]
             PROVE  ChoicesInv
  OBVIOUS
<1>1. PressesFit
  BY DEF PressesFit, Save, Idle, Saving, Off
<1>2. SessionsFit
  <2>1. session \in [Session -> SessionRecord]
    BY ClosedFits
  <2> QED BY <2>1 DEF SessionsFit, SessionRecord
<1>3. ASSUME NEW s \in Session PROVE Calm(s)
  <2>1. SavesOf(s) = {} /\ session[s].draft.schedule = Off
    BY ClosedFits DEF SavesOf, Idle
  <2> QED BY <2>1 DEF Calm
<1> QED BY <1>1, <1>2, <1>3 DEF ChoicesInv

-----------------------------------------------------------------------------
(* Both invariants are inductive.                                           *)

IInv == JobsInv /\ ChoicesInv

\* A step of a session: Configure to SubmitChoice
LEMMA SessionStep ==
  ASSUME IInv, NEW s \in Session,
         \/ Configure(s) \/ Expire(s)
         \/ \E f \in Feature :
              \/ Skip(s, f) \/ SubmitForm(s, f)
              \/ \E c \in Choice[f] : ChooseSchedule(s, f, c)
              \/ \E p \in Press :
                   \/ PressSave(p, s, f)
                   \/ \E c \in Choice[f] : SubmitChoice(p, s, f, c)
  PROVE  IInv'
<1>1. CASE Configure(s) \/ Expire(s)
  <2>1. JobsInv'
    BY <1>1, SessionStepsKeepJobs DEF IInv, Configure, Expire
  <2> QED BY <1>1, <2>1, ConfigureKeepsChoices, ExpireKeepsChoices DEF IInv
<1>2. ASSUME NEW f \in Feature, Skip(s, f) \/ SubmitForm(s, f) PROVE IInv'
  <2>1. JobsInv'
    BY <1>2, SessionStepsKeepJobs DEF IInv, Skip, SubmitForm
  <2> QED BY <1>2, <2>1, SkipKeepsChoices, FormKeepsChoices DEF IInv
<1>3. ASSUME NEW f \in Feature, NEW c \in Choice[f], ChooseSchedule(s, f, c) PROVE IInv'
  <2>1. JobsInv'
    BY <1>3, SessionStepsKeepJobs DEF IInv, ChooseSchedule
  <2> QED BY <1>3, <2>1, ScheduleKeepsChoices DEF IInv
<1>4. ASSUME NEW f \in Feature, NEW p \in Press,
             PressSave(p, s, f) \/ \E c \in Choice[f] : SubmitChoice(p, s, f, c)
      PROVE  IInv'
  BY <1>4, SavesStartKeepsJobs, PressKeepsChoices DEF IInv
<1> QED BY <1>1, <1>2, <1>3, <1>4

\* A step of a save: ReadDraft to RolesMade
LEMMA SaveStep ==
  ASSUME IInv, NEW p \in Press,
         \/ ReadDraft(p) \/ SaveFails(p) \/ Write(p)
         \/ Answered(p) \/ AnswerLost(p) \/ RolesMade(p)
  PROVE  IInv'
<1>1. CASE ReadDraft(p)
  BY <1>1, ReadsKeepJobs, ReadKeepsChoices DEF IInv, ChoicesInv
<1>2. CASE SaveFails(p)
  BY <1>2, EndsKeepJobs, FailKeepsChoices DEF IInv, SaveFails
<1>3. CASE Write(p)
  BY <1>3, WriteKeepsJobs, WriteKeepsChoices DEF IInv, Write
<1>4. CASE Answered(p)
  <2>1. ChoicesInv'
    <3>1. CASE press[p].feature \in Jobless
      BY <1>4, <3>1, WriteKeepsChoices DEF IInv, Answered
    <3>2. CASE press[p].feature \notin Jobless
      BY <1>4, <3>2, AdvanceKeepsChoices DEF IInv, Answered
    <3> QED BY <3>1, <3>2
  <2> QED BY <1>4, <2>1, AnswerKeepsJobs DEF IInv
<1>5. CASE AnswerLost(p)
  BY <1>5, LossKeepsJobs, FailKeepsChoices DEF IInv, AnswerLost
<1>6. CASE RolesMade(p)
  <2>1. ChoicesInv'
    BY <1>6, AdvanceKeepsChoices, FailKeepsChoices DEF IInv, RolesMade
  <2> QED BY <1>6, <2>1, EndsKeepJobs DEF IInv
<1> QED BY <1>1, <1>2, <1>3, <1>4, <1>5, <1>6

\* Every step keeps both.
LEMMA Inductive == IInv /\ [Next]_vars => IInv'
<1> SUFFICES ASSUME IInv, [Next]_vars PROVE IInv'
  OBVIOUS
<1>1. CASE ConfigNext /\ UNCHANGED <<session, press>>
  <2>1. ChoicesInv'
    BY <1>1, OthersKeepChoices DEF IInv
  <2>2. JobsInv'
    BY <1>1, SeedKeepsJobs, LoadKeepsJobs, StartKeepsJobs, FailedLoadKeepsJobs,
       JoinKeepsJobs
       DEF IInv, ConfigNext
  <2> QED BY <2>1, <2>2 DEF IInv
<1>2. ASSUME NEW s \in Session,
             \/ Configure(s) \/ Expire(s)
             \/ \E f \in Feature :
                  \/ Skip(s, f) \/ SubmitForm(s, f)
                  \/ \E c \in Choice[f] : ChooseSchedule(s, f, c)
                  \/ \E p \in Press :
                       \/ PressSave(p, s, f)
                       \/ \E c \in Choice[f] : SubmitChoice(p, s, f, c)
      PROVE  IInv'
  BY <1>2, SessionStep
<1>3. ASSUME NEW p \in Press,
             \/ ReadDraft(p) \/ SaveFails(p) \/ Write(p)
             \/ Answered(p) \/ AnswerLost(p) \/ RolesMade(p)
      PROVE  IInv'
  BY <1>3, SaveStep
<1>4. CASE Restart
  <2>1. ChoicesInv'
    <3>1. (session = [s \in Session |-> Closed] /\ press = [p \in Press |-> Idle])'
      BY <1>4 DEF Restart
    <3> QED BY <3>1, ChoicesInitial, PTL
  <2> QED BY <1>4, <2>1, RestartKeepsJobs DEF IInv
<1>5. CASE UNCHANGED vars
  BY <1>5, SessionStepsKeepJobs, OthersKeepChoices DEF IInv, vars
<1> QED BY <1>1, <1>2, <1>3, <1>4, <1>5 DEF Next

\* Both hold throughout.
LEMMA Invariance == Spec => []IInv
<1>1. Init => IInv
  BY JobsInitial, ChoicesInitial DEF Init, IInv
<1> QED BY <1>1, Inductive, PTL DEF Spec

\* For any features, saves and starts: the live jobs of a feature that is not
\* stale are those its row asks for, and there is never more than one.
THEOREM JobsFollow == Spec => []JobsFollowRow
<1>1. IInv => JobsFollowRow
  <2> SUFFICES ASSUME IInv, NEW f \in Feature
               PROVE  /\ Len(jobs[f]) <= 1
                      /\ (/\ start = "running" /\ f \notin stale
                          /\ \A p \in Press : press[p].stage = "written" => press[p].feature # f)
                         => jobs[f] = JobOf(f, row)
    BY DEF JobsFollowRow
  <2>1. Len(jobs[f]) <= 1 /\ Follows(f)
    BY DEF IInv, JobsInv, JobsFit
  <2>2. (\A p \in Press : press[p].stage = "written" => press[p].feature # f)
          => WrittenFor(f) = {}
    BY DEF WrittenFor
  <2> QED BY <2>1, <2>2 DEF Follows
<1> QED BY <1>1, Invariance, PTL

\* For any number of sessions and saves: what a save writes was chosen under its own
\* feature, unless a Skip or another save was pressed while a save of the session was
\* under way.  There the draft read after the await may be the next feature's, and the
\* code stores its schedule for this one.
THEOREM ChoicesAreSaved == Spec => []SavesWhatWasChosen
<1>1. IInv => SavesWhatWasChosen
  <2> SUFFICES ASSUME IInv, NEW p \in Press, press[p].stage \in {"writing", "written"},
                      ~session[press[p].session].hasty
               PROVE  press[p].choice \in session[press[p].session].chosen[press[p].feature]
    BY DEF SavesWhatWasChosen
  <2>1. press[p].session \in Session
    BY DEF IInv, ChoicesInv, PressesFit
  <2>2. p \in SavesOf(press[p].session) /\ Calm(press[p].session)
    BY <2>1 DEF IInv, ChoicesInv, SavesOf
  <2> QED BY <2>2 DEF Calm
<1> QED BY <1>1, Invariance, PTL
=============================================================================
