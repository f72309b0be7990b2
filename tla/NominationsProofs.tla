------------------------- MODULE NominationsProofs -------------------------
(***************************************************************************)
(* For any numbers of handles, users, requests and reviewers:              *)
(*   - nomination_count is the number of recorded events;                  *)
(*   - the daily caps and the cool-down hold;                              *)
(*   - when the target cap is on, a processed nomination is final, its     *)
(*     nominators are told at most once, and the interleaved transactions  *)
(*     implement NominationLifecycle.                                      *)
(* The last part rests on what a recording transaction has read staying  *)
(* true until it commits: by the row lock when it has found a row, and     *)
(* when it has not by the advisory lock, which only the cap takes.  The    *)
(* caps rest on the same lock and on nominationsInProgress, under which a  *)
(* user's events can only grow fewer between check and insert (CapsInv).   *)
(***************************************************************************)
EXTENDS Nominations, FiniteSetTheorems, TLAPS

\* A command under way has its user and its handle.
CommandsHaveTargets ==
  \A r \in Request : cmd[r].pc # "idle" => cmd[r].user \in User /\ cmd[r].handle \in Handle

\* A row has one locker.
Locks(r) == cmd[r].pc = "write" /\ cmd[r].seen # "absent"
RowLocksExclude ==
  \A r, q \in Request : Locks(r) /\ Locks(q) /\ cmd[r].handle = cmd[q].handle => r = q

\* A locked row is what its locker has read.
LockedRowIsAsSeen ==
  \A r \in Request : Locks(r) => row[cmd[r].handle].state = cmd[r].seen

\* With the cap on a handle has one recording transaction ...
Recording(r) == cmd[r].pc \in {"select", "write"}
TargetLocksExclude ==
  TargetMax > 0 =>
    \A r, q \in Request :
      Recording(r) /\ Recording(q) /\ cmd[r].handle = cmd[q].handle => r = q

\* ... so that a row it has not found is still not there when it writes.
MissingRowStaysMissing ==
  TargetMax > 0 =>
    \A r \in Request : cmd[r].pc = "write" /\ cmd[r].seen = "absent"
                         => row[cmd[r].handle].state = "absent"

IInv ==
  /\ TypeOK
  /\ CommandsHaveTargets
  /\ CountMatchesEvents
  /\ RowLocksExclude
  /\ LockedRowIsAsSeen
  /\ TargetLocksExclude
  /\ MissingRowStaysMissing

-----------------------------------------------------------------------------
(* Initial states, and steps that leave the tables alone *)

\* The inductive invariant holds of the empty tables.
LEMMA InitHolds == Init => IInv
<1> SUFFICES ASSUME Init PROVE IInv
  OBVIOUS
<1> USE NominationsAssumption DEF Init, AbsentRow, IdleCommand, IdleReview
<1>1. TypeOK
  BY DEF TypeOK, Row, State, Unprocessed, Checked, Command, Review, Event
<1>2. \A h \in Handle : EventsOf(h) = {}
  BY DEF EventsOf
<1>3. CountMatchesEvents
  BY <1>2, FS_EmptySet DEF CountMatchesEvents
<1> QED BY <1>1, <1>3 DEF IInv, CommandsHaveTargets, RowLocksExclude, Locks,
     LockedRowIsAsSeen, TargetLocksExclude, MissingRowStaysMissing, Recording

\* The counts only depend on the rows and the events.
LEMMA CountsUnchanged ==
  ASSUME CountMatchesEvents, UNCHANGED events,
         \A h \in Handle : row'[h].count = row[h].count
  PROVE  CountMatchesEvents'
BY DEF CountMatchesEvents, EventsOf

\* What the locks promise only depends on the commands and the rows' states.
LEMMA LocksUnchanged ==
  ASSUME IInv, UNCHANGED cmd,
         \A h \in Handle : RowLocked(h) => row'[h] = row[h],
         \A h \in Handle : row[h].state = "absent" => row'[h].state = "absent"
  PROVE  /\ CommandsHaveTargets' /\ RowLocksExclude' /\ LockedRowIsAsSeen'
         /\ TargetLocksExclude' /\ MissingRowStaysMissing'
<1>1. CommandsHaveTargets' /\ RowLocksExclude' /\ TargetLocksExclude'
  BY DEF IInv, CommandsHaveTargets, RowLocksExclude, TargetLocksExclude, Locks,
     Recording
<1>2. LockedRowIsAsSeen'
  BY DEF IInv, CommandsHaveTargets, LockedRowIsAsSeen, Locks, RowLocked
<1>3. MissingRowStaysMissing'
  BY DEF IInv, CommandsHaveTargets, MissingRowStaysMissing
<1> QED BY <1>1, <1>2, <1>3

\* A command may move to where it disturbs no other command's locks and where
\* what it has seen is what is there.
LEMMA CommandMoves ==
  ASSUME IInv, NEW r \in Request, NEW c \in Command,
         cmd' = [cmd EXCEPT ![r] = c],
         c.pc # "idle" => c.user \in User /\ c.handle \in Handle,
         c.pc = "write" =>
           /\ row[c.handle].state = c.seen
           /\ c.seen # "absent" =>
                \A q \in Request : q # r => ~(Locks(q) /\ cmd[q].handle = c.handle),
         TargetMax > 0 /\ c.pc \in {"select", "write"} =>
           \A q \in Request : q # r => ~(Recording(q) /\ cmd[q].handle = c.handle),
         UNCHANGED <<row, events, expired, cooling, review, telling, notices>>
  PROVE  IInv'
<1>1. \A q \in Request : cmd'[q] = IF q = r THEN c ELSE cmd[q]
  BY DEF IInv, TypeOK
<1>2. TypeOK'
  BY DEF IInv, TypeOK
<1>3. CommandsHaveTargets'
  BY <1>1 DEF IInv, CommandsHaveTargets
<1>4. CountMatchesEvents'
  BY CountsUnchanged DEF IInv
<1>5. RowLocksExclude' /\ LockedRowIsAsSeen'
  BY <1>1 DEF IInv, RowLocksExclude, LockedRowIsAsSeen, Locks
<1>6. TargetLocksExclude'
  BY <1>1 DEF IInv, TargetLocksExclude, Recording
<1>7. MissingRowStaysMissing'
  BY <1>1 DEF IInv, MissingRowStaysMissing
<1> QED BY <1>2, <1>3, <1>4, <1>5, <1>6, <1>7 DEF IInv

\* A command that has ended is a command.
LEMMA IdleIsCommand == IdleCommand \in Command
  BY NominationsAssumption DEF IdleCommand, Command, State

\* A command that ends gives up its locks and disturbs no other command.
LEMMA CommandEnds ==
  ASSUME IInv, NEW r \in Request, Ends(r),
         UNCHANGED <<row, events, expired, cooling, review, telling, notices>>
  PROVE  IInv'
<1>1. IdleCommand.pc = "idle"
  BY DEF IdleCommand
<1> QED BY <1>1, IdleIsCommand, CommandMoves DEF Ends

\* ... and so does one that only changes its pc.
LEMMA CommandAt ==
  ASSUME IInv, NEW r \in Request, NEW pc \in {"citizen", "begin", "reply", "enqueue"},
         cmd[r].pc # "idle", At(r, pc),
         UNCHANGED <<row, events, expired, cooling, review, telling, notices>>
  PROVE  IInv'
<1> DEFINE c == [cmd[r] EXCEPT !.pc = pc]
<1>1. cmd' = [cmd EXCEPT ![r] = c]
  BY DEF At, IInv, TypeOK
<1>2. cmd[r] \in Command
  BY DEF IInv, TypeOK
<1>3. c \in Command /\ c.pc = pc /\ c.user = cmd[r].user /\ c.handle = cmd[r].handle
  BY <1>2 DEF Command
<1>4. c.user \in User /\ c.handle \in Handle
  BY <1>3 DEF IInv, CommandsHaveTargets
<1>5. c.pc \notin {"select", "write"}
  BY <1>3
<1> HIDE DEF c
<1> QED BY <1>1, <1>3, <1>4, <1>5, CommandMoves

-----------------------------------------------------------------------------
(* The command *)

\* Invoking /nominate-player keeps the invariant.
LEMMA SubmitKeeps ==
  ASSUME IInv, NEW r \in Request, NEW u \in User, NEW h \in Handle, Submit(r, u, h)
  PROVE  IInv'
<1> DEFINE c == [pc |-> "abuse", user |-> u, handle |-> h, seen |-> "absent"]
<1>1. c \in Command /\ c.pc = "abuse" /\ c.user = u /\ c.handle = h
  BY DEF Command, State
<1>2. cmd' = [cmd EXCEPT ![r] = c]
      /\ UNCHANGED <<row, events, expired, cooling, review, telling, notices>>
  BY DEF Submit
<1> HIDE DEF c
<1> QED BY <1>1, <1>2, CommandMoves

\* Taking the advisory lock and repeating the checks keeps the invariant.
LEMMA BeginRecordKeeps ==
  ASSUME IInv, NEW r \in Request, BeginRecord(r) PROVE IInv'
<1>1. CASE Ends(r)
  BY <1>1, CommandEnds DEF BeginRecord
<1>2. CASE At(r, "select")
  <2> DEFINE c == [cmd[r] EXCEPT !.pc = "select"]
  <2>1. /\ cmd[r].pc = "begin"
        /\ TargetMax > 0 => ~TargetLocked(cmd[r].handle)
        /\ UNCHANGED <<row, events, expired, cooling, review, telling, notices>>
    BY DEF BeginRecord, MayLockTarget
  <2>2. cmd[r] \in Command /\ cmd' = [cmd EXCEPT ![r] = c]
    BY <1>2 DEF At, IInv, TypeOK
  <2>3. c \in Command /\ c.pc = "select" /\ c.user = cmd[r].user /\ c.handle = cmd[r].handle
    BY <2>2 DEF Command
  <2>4. c.user \in User /\ c.handle \in Handle
    BY <2>1, <2>3 DEF IInv, CommandsHaveTargets
  <2>5. TargetMax > 0 => \A q \in Request : ~(Recording(q) /\ cmd[q].handle = c.handle)
    BY <2>1, <2>3 DEF TargetLocked, Recording
  <2> HIDE DEF c
  <2> QED BY <2>1, <2>2, <2>3, <2>4, <2>5, CommandMoves
<1> QED BY <1>1, <1>2 DEF BeginRecord

\* SELECT ... FOR UPDATE keeps the invariant: it locks a present row only.
LEMMA SelectRowKeeps ==
  ASSUME IInv, NEW r \in Request, SelectRow(r) PROVE IInv'
<1> DEFINE c == [cmd[r] EXCEPT !.pc = "write", !.seen = row[cmd[r].handle].state]
<1>1. /\ cmd[r].pc = "select" /\ ~RowLocked(cmd[r].handle)
      /\ UNCHANGED <<row, events, expired, cooling, review, telling, notices>>
  BY DEF SelectRow
<1>2. cmd[r].handle \in Handle /\ cmd[r].user \in User
  BY <1>1 DEF IInv, CommandsHaveTargets
<1>3. cmd[r] \in Command /\ cmd' = [cmd EXCEPT ![r] = c]
  BY DEF SelectRow, IInv, TypeOK
<1>4. row[cmd[r].handle].state \in State
  BY <1>2 DEF IInv, TypeOK, Row
<1>5. /\ c \in Command /\ c.pc = "write" /\ c.user = cmd[r].user
      /\ c.handle = cmd[r].handle /\ c.seen = row[cmd[r].handle].state
  BY <1>3, <1>4 DEF Command
<1>6. \A q \in Request : ~(Locks(q) /\ cmd[q].handle = c.handle)
  BY <1>1, <1>5 DEF RowLocked, Locks
<1>7. TargetMax > 0 =>
        \A q \in Request : q # r => ~(Recording(q) /\ cmd[q].handle = c.handle)
  BY <1>1, <1>5 DEF IInv, TargetLocksExclude, Recording
<1> HIDE DEF c
<1> QED BY <1>1, <1>2, <1>3, <1>5, <1>6, <1>7, CommandMoves

\* What a commit does to the row it has found, or not found.
LEMMA RecordedRow ==
  ASSUME IInv, NEW r \in Request, Record(r)
  PROVE  LET h == cmd[r].handle
         IN  /\ h \in Handle /\ cmd[r].user \in User
             /\ row' = [row EXCEPT ![h] = Nominated(h, cmd[r].seen)]
             /\ Nominated(h, cmd[r].seen) \in Row
             /\ Nominated(h, cmd[r].seen).count = row[h].count + 1
             /\ row'[h].state # "absent"
             /\ \A g \in Handle : g # h => row'[g] = row[g]
             /\ TargetMax > 0 =>
                  IF row[h].state = "processed"
                    THEN row'[h].state = "processed" /\ row'[h].by = row[h].by
                    ELSE row'[h].state = "new"
<1> DEFINE h == cmd[r].handle
           seen == cmd[r].seen
<1>1. h \in Handle /\ cmd[r].user \in User /\ cmd[r].pc = "write"
  BY DEF Record, IInv, CommandsHaveTargets
<1>2. row[h] \in Row /\ row[h].count \in Nat /\ seen \in State
  BY <1>1 DEF IInv, TypeOK, Row, Command
<1>3. /\ row' = [row EXCEPT ![h] = Nominated(h, seen)]
      /\ row'[h] = Nominated(h, seen)
      /\ \A g \in Handle : g # h => row'[g] = row[g]
  BY <1>1 DEF Record, IInv, TypeOK
<1>4. seen # "absent" => row[h].state = seen
  BY <1>1 DEF IInv, LockedRowIsAsSeen, Locks
<1>5. CASE seen = "processed"
  <2>1. Nominated(h, seen) = [row[h] EXCEPT !.count = row[h].count + 1]
    BY <1>5 DEF Nominated
  <2>2. [row[h] EXCEPT !.count = row[h].count + 1] \in Row
        /\ [row[h] EXCEPT !.count = row[h].count + 1].count = row[h].count + 1
        /\ [row[h] EXCEPT !.count = row[h].count + 1].state = row[h].state
        /\ [row[h] EXCEPT !.count = row[h].count + 1].by = row[h].by
    BY <1>2 DEF Row
  <2> QED BY <1>1, <1>3, <1>4, <1>5, <2>1, <2>2
<1>6. CASE seen # "processed"
  <2>1. Nominated(h, seen) = [state |-> "new", count |-> row[h].count + 1, by |-> Null]
    BY <1>6 DEF Nominated
  <2>2. Nominated(h, seen) \in Row
    BY <2>1, <1>2 DEF Row, State, Unprocessed
  <2>3. TargetMax > 0 => row[h].state # "processed"
    BY <1>1, <1>4, <1>6 DEF IInv, MissingRowStaysMissing
  <2> QED BY <1>1, <1>3, <2>1, <2>2, <2>3
<1> QED BY <1>5, <1>6

\* The upsert, the event and COMMIT keep the invariant.
LEMMA RecordKeeps ==
  ASSUME IInv, NEW r \in Request, Record(r) PROVE IInv'
<1>0. PICK h \in Handle : cmd[r].handle = h
  BY RecordedRow
<1>1. /\ cmd[r].user \in User
      /\ row' = [row EXCEPT ![h] = Nominated(h, cmd[r].seen)]
      /\ Nominated(h, cmd[r].seen) \in Row
      /\ Nominated(h, cmd[r].seen).count = row[h].count + 1
      /\ \A g \in Handle : g # h => row'[g] = row[g]
  BY <1>0, RecordedRow
<1>2. PICK u \in User : cmd[r].user = u
  BY <1>1
<1>3. /\ cmd[r].pc = "write" /\ (cmd[r].seen = "absent" => ~RowLocked(h))
      /\ events' = Append(events, [handle |-> h, user |-> u])
      /\ cooling' = (IF Cooldown THEN cooling \cup {u} ELSE cooling)
      /\ At(r, "reply")
      /\ UNCHANGED <<expired, review, telling, notices>>
  BY <1>0, <1>2 DEF Record
<1>4. cmd[r] \in Command /\ cmd' = [cmd EXCEPT ![r] = [cmd[r] EXCEPT !.pc = "reply"]]
  BY <1>3 DEF At, IInv, TypeOK
<1>5. \A q \in Request : q # r => cmd'[q] = cmd[q]
  BY <1>4 DEF IInv, TypeOK
<1>6. cmd'[r] \in Command /\ cmd'[r].pc = "reply" /\ cmd'[r].user = u /\ cmd'[r].handle = h
  BY <1>0, <1>2, <1>4 DEF Command, IInv, TypeOK
<1>7. TypeOK'
  <2>1. [handle |-> h, user |-> u] \in Event /\ events \in Seq(Event) /\ expired \in 0..Len(events)
    BY DEF Event, IInv, TypeOK
  <2>2. events' \in Seq(Event) /\ Len(events') = Len(events) + 1
    BY <2>1, <1>3
  <2>3. expired' \in 0..Len(events')
    BY <2>1, <2>2, <1>3
  <2>4. row' \in [Handle -> Row]
    BY <1>1 DEF IInv, TypeOK
  <2>5. cooling' \subseteq User
    BY <1>3 DEF IInv, TypeOK
  <2>6. cmd' \in [Request -> Command]
    BY <1>3, <1>5, <1>6 DEF At, IInv, TypeOK
  <2> QED BY <2>2, <2>3, <2>4, <2>5, <2>6, <1>3 DEF IInv, TypeOK
<1>8. CommandsHaveTargets'
  BY <1>5, <1>6 DEF IInv, CommandsHaveTargets
<1>9. CountMatchesEvents'
  <2>1. events \in Seq(Event) /\ Len(events) \in Nat
    BY DEF IInv, TypeOK
  <2>2. /\ events'[Len(events) + 1].handle = h
        /\ DOMAIN events' = 1..(Len(events) + 1) /\ DOMAIN events = 1..Len(events)
        /\ \A i \in 1..Len(events) : events'[i] = events[i]
    BY <2>1, <1>3
  <2>3. EventsOf(h)' = EventsOf(h) \cup {Len(events) + 1}
    BY <2>1, <2>2 DEF EventsOf
  <2>4. \A g \in Handle : g # h => EventsOf(g)' = EventsOf(g)
    BY <2>1, <2>2 DEF EventsOf
  <2>5. EventsOf(h) \subseteq 1..Len(events)
    BY <2>2 DEF EventsOf
  <2>6. IsFiniteSet(EventsOf(h))
    <3>1. IsFiniteSet(1..Len(events))
      BY <2>1, FS_Interval
    <3> QED BY <3>1, <2>5, FS_Subset
  <2>7. Len(events) + 1 \notin EventsOf(h)
    BY <2>5, <2>1
  <2>8. Cardinality(EventsOf(h)') = Cardinality(EventsOf(h)) + 1
    BY <2>3, <2>6, <2>7, FS_AddElement
  <2>9. row'[h].count = row[h].count + 1
    BY <1>1 DEF IInv, TypeOK
  <2>10. ASSUME NEW g \in Handle PROVE row'[g].count = Cardinality(EventsOf(g)')
    <3>1. row[g].count = Cardinality(EventsOf(g))
      BY DEF IInv, CountMatchesEvents
    <3>2. CASE g = h
      BY <3>1, <3>2, <2>8, <2>9
    <3>3. CASE g # h
      BY <3>1, <3>3, <2>4, <1>1
    <3> QED BY <3>2, <3>3
  <2> QED BY <2>10 DEF CountMatchesEvents
<1>10. RowLocksExclude'
  BY <1>5, <1>6 DEF IInv, RowLocksExclude, Locks
<1>11. LockedRowIsAsSeen'
  <2>1. ASSUME NEW q \in Request, Locks(q)' PROVE row'[cmd'[q].handle].state = cmd'[q].seen
    <3>1. q # r /\ cmd'[q] = cmd[q] /\ Locks(q)
      BY <2>1, <1>5, <1>6 DEF Locks
    <3>2. cmd[q].handle # h
      BY <3>1, <1>0, <1>3 DEF IInv, RowLocksExclude, Locks, RowLocked
    <3>3. cmd[q].handle \in Handle
      BY <3>1 DEF IInv, CommandsHaveTargets, Locks
    <3> QED BY <3>1, <3>2, <3>3, <1>1 DEF IInv, LockedRowIsAsSeen
  <2> QED BY <2>1 DEF LockedRowIsAsSeen, Locks
<1>12. TargetLocksExclude'
  BY <1>5, <1>6 DEF IInv, TargetLocksExclude, Recording
<1>13. MissingRowStaysMissing'
  <2>1. ASSUME TargetMax > 0, NEW q \in Request, cmd'[q].pc = "write", cmd'[q].seen = "absent"
        PROVE  row'[cmd'[q].handle].state = "absent"
    <3>1. q # r /\ cmd'[q] = cmd[q]
      BY <2>1, <1>5, <1>6
    <3>2. cmd[q].handle # h
      BY <2>1, <3>1, <1>0, <1>3 DEF IInv, TargetLocksExclude, Recording
    <3>3. cmd[q].handle \in Handle
      BY <2>1, <3>1 DEF IInv, CommandsHaveTargets
    <3> QED BY <2>1, <3>1, <3>2, <3>3, <1>1 DEF IInv, MissingRowStaysMissing
  <2> QED BY <2>1 DEF MissingRowStaysMissing
<1> QED BY <1>7, <1>8, <1>9, <1>10, <1>11, <1>12, <1>13 DEF IInv

-----------------------------------------------------------------------------
(* The org check, the reviewers, time and restarts *)

\* Writing back a check result keeps the invariant.
LEMMA StoreCheckKeeps ==
  ASSUME IInv, NEW h \in Handle, NEW code \in Code, StoreCheck(h, code)
  PROVE  IInv'
<1>1. /\ ~RowLocked(h) /\ row[h].state \notin {"absent", "processed"}
      /\ row' = [row EXCEPT ![h].state = StateOf(code)]
      /\ UNCHANGED <<events, expired, cooling, cmd, review, telling, notices>>
  BY DEF StoreCheck, TakesCheck
<1>2. row[h] \in Row /\ StateOf(code) \in State
  BY DEF IInv, TypeOK, StateOf, State, Unprocessed, Checked
<1>3. /\ row'[h] = [row[h] EXCEPT !.state = StateOf(code)]
      /\ \A g \in Handle : g # h => row'[g] = row[g]
  BY <1>1 DEF IInv, TypeOK
<1>4. row'[h] \in Row /\ row'[h].count = row[h].count
  BY <1>2, <1>3 DEF Row
<1>5. row' \in [Handle -> Row]
  BY <1>1, <1>3, <1>4 DEF IInv, TypeOK
<1>6. TypeOK'
  BY <1>1, <1>5 DEF IInv, TypeOK
<1>7. CountMatchesEvents'
  BY <1>1, <1>3, <1>4, CountsUnchanged DEF IInv
<1>8. /\ \A g \in Handle : RowLocked(g) => row'[g] = row[g]
      /\ \A g \in Handle : row[g].state = "absent" => row'[g].state = "absent"
  BY <1>1, <1>3
<1> QED BY <1>1, <1>6, <1>7, <1>8, LocksUnchanged DEF IInv

\* What an UPDATE by reviewer a does to each row.
Marked(a) == {h \in review[a].targets : row[h].state \in Unprocessed}
LEMMA MarkedRow ==
  ASSUME IInv, NEW a \in Admin, Mark(a), NEW h \in Handle
  PROVE  IF h \in Marked(a)
           THEN ~RowLocked(h) /\ row'[h] = [row[h] EXCEPT !.state = "processed", !.by = a]
           ELSE row'[h] = row[h]
BY DEF Mark, Marked, StillUnprocessed

\* A reviewer's UPDATE keeps the invariant.
LEMMA MarkKeeps ==
  ASSUME IInv, NEW a \in Admin, Mark(a) PROVE IInv'
<1>1. /\ row' = [h \in Handle |-> row'[h]]
      /\ review' = [review EXCEPT ![a] = [pc |-> "marked", targets |-> Marked(a)]]
      /\ UNCHANGED <<events, expired, cooling, cmd, telling, notices>>
  BY DEF Mark, Reviewing, Marked, StillUnprocessed
<1>2. ASSUME NEW h \in Handle
      PROVE  /\ row'[h] \in Row /\ row'[h].count = row[h].count
             /\ RowLocked(h) => row'[h] = row[h]
             /\ row[h].state = "absent" => row'[h].state = "absent"
  <2>1. row[h] \in Row
    BY DEF IInv, TypeOK
  <2>2. [row[h] EXCEPT !.state = "processed", !.by = a] \in Row
        /\ [row[h] EXCEPT !.state = "processed", !.by = a].count = row[h].count
    BY <2>1 DEF Row, State
  <2>3. h \in Marked(a) => row[h].state # "absent"
    BY DEF Marked, Unprocessed, Checked
  <2>4. CASE h \in Marked(a)
    BY <2>2, <2>3, <2>4, MarkedRow
  <2>5. CASE h \notin Marked(a)
    BY <2>1, <2>5, MarkedRow
  <2> QED BY <2>4, <2>5
<1>3. row' \in [Handle -> Row]
  BY <1>1, <1>2
<1>4. review' \in [Admin -> Review]
  <2>1. Marked(a) \subseteq Handle
    BY DEF Marked, IInv, TypeOK, Review
  <2> QED BY <1>1, <2>1 DEF IInv, TypeOK, Review
<1>5. TypeOK'
  BY <1>1, <1>3, <1>4 DEF IInv, TypeOK
<1>6. CountMatchesEvents'
  BY <1>1, <1>2, CountsUnchanged DEF IInv
<1> QED BY <1>1, <1>2, <1>5, <1>6, LocksUnchanged DEF IInv

\* A step of a reviewer that does not write, and the telling of nominators ...
LEMMA ReviewMoves ==
  ASSUME IInv, review' \in [Admin -> Review],
         telling' \in [Handle -> Nat], notices' \in [Handle -> Nat],
         UNCHANGED <<row, events, expired, cooling, cmd>>
  PROVE  IInv'
<1>1. TypeOK'
  BY DEF IInv, TypeOK
<1>2. CountMatchesEvents'
  BY CountsUnchanged DEF IInv
<1> QED BY <1>1, <1>2, LocksUnchanged DEF IInv

\* Every step of a reviewer's command keeps the invariant.
LEMMA ReviewStepKeeps ==
  ASSUME IInv, NEW a \in Admin, ReviewStep(a) PROVE IInv'
<1>1. CASE Mark(a)
  BY <1>1, MarkKeeps
<1>2. CASE ~Mark(a)
  <2>1. UnprocessedHandles \in SUBSET Handle /\ review[a].targets \in SUBSET Handle
    BY DEF UnprocessedHandles, IInv, TypeOK, Review
  <2>2. review' \in [Admin -> Review]
    <3>1. PICK pc \in {"idle", "prompt", "mark", "force", "promptAll", "markAll"},
               S \in SUBSET Handle : review' = [review EXCEPT ![a] = [pc |-> pc, targets |-> S]]
      BY <1>2, <2>1 DEF ReviewStep, ReviewOne, ProcessAnyway, ReviewAll, ConfirmAll,
         Answered, ReviewEnds, Reviewing, IdleReview
    <3>2. [pc |-> pc, targets |-> S] \in Review
      BY DEF Review
    <3> QED BY <3>1, <3>2 DEF IInv, TypeOK
  <2>3. UNCHANGED <<row, events, expired, cooling, cmd, notices>>
    BY <1>2 DEF ReviewStep, ReviewOne, ProcessAnyway, ReviewAll, ConfirmAll, Answered,
       ReviewEnds
  <2>4. telling' \in [Handle -> Nat]
    <3>1. \A h \in Handle : telling[h] \in Nat /\ telling[h] + 1 \in Nat
      BY DEF IInv, TypeOK
    <3>2. CASE Answered(a)
      BY <3>1, <3>2 DEF Answered
    <3>3. CASE ~Answered(a)
      BY <1>2, <3>3 DEF ReviewStep, ReviewOne, ProcessAnyway, ReviewAll, ConfirmAll,
         ReviewEnds, IInv, TypeOK
    <3> QED BY <3>2, <3>3
  <2>5. notices' \in [Handle -> Nat]
    BY <2>3 DEF IInv, TypeOK
  <2> QED BY <2>2, <2>3, <2>4, <2>5, ReviewMoves
<1> QED BY <1>1, <1>2

\* A call that tells the nominators of a handle keeps the invariant.
LEMMA TellKeeps ==
  ASSUME IInv, NEW h \in Handle, Tell(h) PROVE IInv'
<1>1. telling[h] \in Nat /\ telling[h] > 0 /\ notices[h] \in Nat
  BY DEF Tell, IInv, TypeOK
<1>2. telling[h] - 1 \in Nat /\ notices[h] + 1 \in Nat
  BY <1>1
<1>3. telling' \in [Handle -> Nat] /\ notices' \in [Handle -> Nat]
  BY <1>2 DEF Tell, IInv, TypeOK
<1>4. UNCHANGED <<row, events, expired, cooling, cmd, review>>
  BY DEF Tell
<1>5. review' \in [Admin -> Review]
  BY <1>4 DEF IInv, TypeOK
<1> QED BY <1>3, <1>4, <1>5, ReviewMoves

\* ... and one of the clock.
LEMMA TimePasses ==
  ASSUME IInv, OldestEventExpires \/ (\E u \in User : CooldownEnds(u)) PROVE IInv'
<1>1. UNCHANGED <<row, events, cmd, review, telling, notices>>
  BY DEF OldestEventExpires, CooldownEnds
<1>2. expired' \in 0..Len(events') /\ cooling' \subseteq User
  <2>1. Len(events) \in Nat /\ expired \in 0..Len(events) /\ cooling \subseteq User
    BY DEF IInv, TypeOK
  <2> QED BY <2>1 DEF OldestEventExpires, CooldownEnds
<1>3. TypeOK'
  BY <1>1, <1>2 DEF IInv, TypeOK
<1>4. CountMatchesEvents'
  BY <1>1, CountsUnchanged DEF IInv
<1> QED BY <1>1, <1>3, <1>4, LocksUnchanged DEF IInv

\* A restart of the bot keeps the invariant: the tables stay.
LEMMA RestartKeeps ==
  ASSUME IInv, Restart PROVE IInv'
<1>1. /\ cmd' = [r \in Request |-> IdleCommand]
      /\ review' = [a \in Admin |-> IdleReview]
      /\ telling' = [h \in Handle |-> 0]
      /\ UNCHANGED <<row, events, expired, cooling, notices>>
  BY DEF Restart
<1>2. IdleReview \in Review
  BY DEF IdleReview, Review
<1>3. TypeOK'
  BY <1>1, <1>2, IdleIsCommand DEF IInv, TypeOK
<1>4. CountMatchesEvents'
  BY <1>1, CountsUnchanged DEF IInv
<1>5. \A r \in Request : cmd'[r].pc = "idle"
  BY <1>1 DEF IdleCommand
<1>6. CommandsHaveTargets' /\ RowLocksExclude' /\ LockedRowIsAsSeen'
      /\ TargetLocksExclude' /\ MissingRowStaysMissing'
  BY <1>5 DEF CommandsHaveTargets, RowLocksExclude, LockedRowIsAsSeen, Locks,
     TargetLocksExclude, Recording, MissingRowStaysMissing
<1> QED BY <1>3, <1>4, <1>6 DEF IInv

-----------------------------------------------------------------------------
(* The invariant *)

\* Every step of /nominate-player keeps the invariant.
LEMMA CommandStepKeeps ==
  ASSUME IInv, NEW r \in Request,
         CommandStep(r) \/ EnqueueCall(r) \/ CommandFails(r)
  PROVE  IInv'
<1>1. CASE AntiAbuse(r)
  BY <1>1, CommandEnds, CommandAt DEF AntiAbuse
<1>2. CASE CitizenCheck(r)
  BY <1>2, CommandEnds, CommandAt DEF CitizenCheck
<1>3. CASE BeginRecord(r)
  BY <1>3, BeginRecordKeeps
<1>4. CASE SelectRow(r)
  BY <1>4, SelectRowKeeps
<1>5. CASE Record(r)
  BY <1>5, RecordKeeps
<1>6. CASE Reply(r)
  BY <1>6, CommandAt DEF Reply
<1>7. CASE EnqueueCall(r)
  BY <1>7, CommandEnds DEF EnqueueCall
<1>8. CASE CommandFails(r)
  BY <1>8, CommandEnds DEF CommandFails
<1> QED BY <1>1, <1>2, <1>3, <1>4, <1>5, <1>6, <1>7, <1>8 DEF CommandStep

\* Every step of the specification keeps the invariant.
LEMMA StepKeeps == IInv /\ [Next]_vars => IInv'
<1> SUFFICES ASSUME IInv, [Next]_vars PROVE IInv'
  OBVIOUS
<1>1. ASSUME NEW r \in Request, NEW u \in User, NEW h \in Handle, Submit(r, u, h)
      PROVE  IInv'
  BY <1>1, SubmitKeeps
<1>2. ASSUME NEW r \in Request, CommandStep(r) \/ EnqueueCall(r) \/ CommandFails(r)
      PROVE  IInv'
  BY <1>2, CommandStepKeeps
<1>3. ASSUME NEW h \in Handle, NEW code \in Code, StoreCheck(h, code) PROVE IInv'
  BY <1>3, StoreCheckKeeps
<1>4. ASSUME NEW a \in Admin, ReviewStep(a) PROVE IInv'
  BY <1>4, ReviewStepKeeps
<1>5. CASE OldestEventExpires \/ \E u \in User : CooldownEnds(u)
  BY <1>5, TimePasses
<1>6. CASE Restart
  BY <1>6, RestartKeeps
<1>7. ASSUME NEW h \in Handle, Tell(h) PROVE IInv'
  BY <1>7, TellKeeps
<1>8. CASE UNCHANGED vars
  <2>1. TypeOK'
    BY <1>8 DEF vars, IInv, TypeOK
  <2>2. CountMatchesEvents'
    BY <1>8, CountsUnchanged DEF vars, IInv
  <2> QED BY <1>8, <2>1, <2>2, LocksUnchanged DEF vars, IInv
<1> QED BY <1>1, <1>2, <1>3, <1>4, <1>5, <1>6, <1>7, <1>8 DEF Next

\* The invariant holds in every behaviour.
LEMMA Inductive == Spec => []IInv
BY InitHolds, StepKeeps, PTL DEF Spec

\* The tables and the commands under way have the types TypeOK gives them.
THEOREM TypeCorrect == Spec => []TypeOK
<1>1. IInv => TypeOK
  BY DEF IInv
<1> QED BY <1>1, Inductive, PTL

\* recordNomination: a row's nomination_count is the number of its events,
\* however many transactions record the same handle at once.
THEOREM CountIsExact == Spec => []CountMatchesEvents
<1>1. IInv => CountMatchesEvents
  BY DEF IInv
<1> QED BY <1>1, Inductive, PTL

-----------------------------------------------------------------------------
(* With the target cap on *)

\* What a step does to the state of each row: the lifecycle's moves.
RowMoves ==
  \/ \E h \in Handle :
       /\ \A g \in Handle : g # h => row'[g] = row[g]
       /\ IF row[h].state = "processed"
            THEN row'[h].state = "processed" /\ row'[h].by = row[h].by
            ELSE row'[h].state = "new"
  \/ \E h \in Handle :
       /\ \A g \in Handle : g # h => row'[g] = row[g]
       /\ row[h].state \in Unprocessed /\ row'[h].state \in Checked
  \/ \E S \in SUBSET Handle :
       \A h \in Handle :
         IF h \in S
           THEN row[h].state \in Unprocessed /\ row'[h].state = "processed"
           ELSE row'[h] = row[h]
  \/ UNCHANGED row

\* With the cap on, a step takes every row where the lifecycle allows.
LEMMA StepMovesRows ==
  ASSUME IInv, TargetMax > 0, [Next]_vars PROVE RowMoves
<1>1. ASSUME NEW r \in Request, Record(r) PROVE RowMoves
  <2>1. PICK h \in Handle : cmd[r].handle = h
    BY <1>1, RecordedRow
  <2>2. /\ \A g \in Handle : g # h => row'[g] = row[g]
        /\ IF row[h].state = "processed"
             THEN row'[h].state = "processed" /\ row'[h].by = row[h].by
             ELSE row'[h].state = "new"
    BY <1>1, <2>1, RecordedRow
  <2> QED BY <2>2 DEF RowMoves
<1>2. ASSUME NEW h \in Handle, NEW code \in Code, StoreCheck(h, code) PROVE RowMoves
  <2>1. /\ row' = [row EXCEPT ![h].state = StateOf(code)]
        /\ row[h].state \notin {"absent", "processed"}
    BY <1>2 DEF StoreCheck, TakesCheck
  <2>2. row[h] \in Row /\ StateOf(code) \in Checked
    BY DEF IInv, TypeOK, StateOf, Checked
  <2>3. row'[h].state = StateOf(code) /\ \A g \in Handle : g # h => row'[g] = row[g]
    BY <2>1, <2>2 DEF IInv, TypeOK, Row
  <2>4. row[h].state \in Unprocessed
    BY <2>1, <2>2 DEF Row, State
  <2> QED BY <2>2, <2>3, <2>4 DEF RowMoves
<1>3. ASSUME NEW a \in Admin, Mark(a) PROVE RowMoves
  <2>1. ASSUME NEW h \in Handle
        PROVE  IF h \in Marked(a)
                 THEN row[h].state \in Unprocessed /\ row'[h].state = "processed"
                 ELSE row'[h] = row[h]
    <3>1. row[h] \in Row
      BY DEF IInv, TypeOK
    <3>2. [row[h] EXCEPT !.state = "processed", !.by = a].state = "processed"
      BY <3>1 DEF Row
    <3>3. h \in Marked(a) => row[h].state \in Unprocessed
      BY DEF Marked
    <3> QED BY <1>3, <3>2, <3>3, MarkedRow
  <2>2. Marked(a) \in SUBSET Handle
    BY DEF Marked, IInv, TypeOK, Review
  <2> QED BY <2>1, <2>2 DEF RowMoves
<1>4. CASE UNCHANGED row
  BY <1>4 DEF RowMoves
<1> QED BY <1>1, <1>2, <1>3, <1>4 DEF Next, vars, CommandStep, ReviewStep, Submit,
     AntiAbuse, CitizenCheck, BeginRecord, SelectRow, Reply, EnqueueCall, CommandFails,
     ReviewOne, ProcessAnyway, ReviewAll, ConfirmAll, Answered, ReviewEnds, Tell,
     OldestEventExpires, CooldownEnds, Restart

\* Unprocessed is not processed, and what a check stores is not either.
LEMMA StatesDiffer ==
  /\ "processed" \notin Unprocessed /\ "processed" \notin Checked
  /\ "new" # "processed" /\ "new" \in Unprocessed /\ Checked \subseteq Unprocessed
BY DEF Unprocessed, Checked

\* markNominationProcessedByHandle and recordNomination: with the cap on, what
\* a reviewer has processed stays so, by that reviewer.
THEOREM ReviewIsFinal ==
  ASSUME TargetMax > 0 PROVE Spec => ProcessedIsFinal
<1> DEFINE Stays == \A h \in Handle : row[h].state = "processed" =>
                       row'[h].state = "processed" /\ row'[h].by = row[h].by
<1>1. IInv /\ [Next]_vars => [Stays]_vars
  <2> SUFFICES ASSUME IInv, [Next]_vars PROVE Stays
    OBVIOUS
  <2> QED BY StepMovesRows, StatesDiffer DEF RowMoves
<1>2. ProcessedIsFinal <=> [][Stays]_vars
  BY DEF ProcessedIsFinal
<1> HIDE DEF Stays
<1> QED BY <1>1, <1>2, Inductive, PTL DEF Spec

\* A reviewer whose UPDATE has marked h and who has not read its answer yet
Holds(a, h) == review[a].pc = "marked" /\ h \in review[a].targets

\* Of a handle that is not processed nobody is told, and each processed one has
\* at most one announcement: owed by a reviewer, under way, or made.
NoticesInv ==
  /\ \A a \in Admin, h \in Handle : Holds(a, h) =>
       row[h].state = "processed" /\ telling[h] = 0 /\ notices[h] = 0
  /\ \A a, b \in Admin, h \in Handle : Holds(a, h) /\ Holds(b, h) => a = b
  /\ \A h \in Handle :
       telling[h] + notices[h] <= IF row[h].state = "processed" THEN 1 ELSE 0

\* A step that announces nothing and starts no announcement keeps that.
LEMMA NoNewNotice ==
  ASSUME IInv, NoticesInv, RowMoves,
         \A a \in Admin, h \in Handle : Holds(a, h)' => Holds(a, h),
         telling' = telling \/ telling' = [h \in Handle |-> 0], UNCHANGED notices
  PROVE  NoticesInv'
<1>1. \A h \in Handle : row[h].state = "processed" => row'[h].state = "processed"
  BY StatesDiffer DEF RowMoves
<1>2. \A h \in Handle : telling[h] \in Nat /\ notices[h] \in Nat
  BY DEF IInv, TypeOK
<1>3. \A h \in Handle : telling'[h] \in {telling[h], 0} /\ notices'[h] = notices[h]
  OBVIOUS
<1>4. \A a \in Admin, h \in Handle : Holds(a, h)' =>
        row'[h].state = "processed" /\ telling'[h] = 0 /\ notices'[h] = 0
  BY <1>1, <1>3 DEF NoticesInv
<1>5. \A a, b \in Admin, h \in Handle : Holds(a, h)' /\ Holds(b, h)' => a = b
  BY DEF NoticesInv
<1>6. ASSUME NEW h \in Handle
      PROVE  telling'[h] + notices'[h] <= IF row'[h].state = "processed" THEN 1 ELSE 0
  BY <1>1, <1>2, <1>3 DEF NoticesInv
<1> QED BY <1>4, <1>5, <1>6 DEF NoticesInv

\* The UPDATE of a reviewer marks what was not processed, so what nobody is told of.
LEMMA MarkOwesNotices ==
  ASSUME IInv, NoticesInv, NEW a \in Admin, Mark(a) PROVE NoticesInv'
<1>1. /\ UNCHANGED <<telling, notices>>
      /\ review' = [review EXCEPT ![a] = [pc |-> "marked", targets |-> Marked(a)]]
  BY DEF Mark, Reviewing, Marked, StillUnprocessed
<1>2. /\ \A h \in Handle : Holds(a, h)' <=> h \in Marked(a)
      /\ \A b \in Admin, h \in Handle : b # a => (Holds(b, h)' <=> Holds(b, h))
  BY <1>1 DEF Holds, IInv, TypeOK
<1>3. ASSUME NEW h \in Handle
      PROVE  /\ telling[h] \in Nat /\ notices[h] \in Nat
             /\ row[h].state = "processed" => h \notin Marked(a) /\ row'[h] = row[h]
             /\ h \in Marked(a) => row'[h].state = "processed" /\ row[h].state # "processed"
  <2>1. row[h] \in Row /\ telling[h] \in Nat /\ notices[h] \in Nat
    BY DEF IInv, TypeOK
  <2>2. [row[h] EXCEPT !.state = "processed", !.by = a].state = "processed"
    BY <2>1 DEF Row
  <2>3. h \in Marked(a) => row[h].state # "processed"
    BY StatesDiffer DEF Marked
  <2> QED BY <2>1, <2>2, <2>3, MarkedRow
<1>4. ASSUME NEW h \in Handle, h \in Marked(a)
      PROVE  telling[h] = 0 /\ notices[h] = 0 /\ \A b \in Admin : ~Holds(b, h)
  <2>1. telling[h] + notices[h] <= 0
    BY <1>3, <1>4 DEF NoticesInv
  <2> QED BY <1>3, <1>4, <2>1 DEF NoticesInv
<1>5. ASSUME NEW h \in Handle, h \notin Marked(a) PROVE row'[h] = row[h]
  BY <1>5, MarkedRow
<1>6. \A b \in Admin, h \in Handle : Holds(b, h)' =>
        row'[h].state = "processed" /\ telling'[h] = 0 /\ notices'[h] = 0
  BY <1>1, <1>2, <1>3, <1>4 DEF NoticesInv
<1>7. \A b, c \in Admin, h \in Handle : Holds(b, h)' /\ Holds(c, h)' => b = c
  BY <1>2, <1>4 DEF NoticesInv
<1>8. ASSUME NEW h \in Handle
      PROVE  telling'[h] + notices'[h] <= IF row'[h].state = "processed" THEN 1 ELSE 0
  <2>1. CASE h \in Marked(a)
    BY <1>1, <1>3, <1>4, <2>1
  <2>2. CASE h \notin Marked(a)
    BY <1>1, <1>5, <2>2 DEF NoticesInv
  <2> QED BY <2>1, <2>2
<1> QED BY <1>6, <1>7, <1>8 DEF NoticesInv

\* The answer of the UPDATE starts the only announcement of what it has marked.
LEMMA AnswerStartsNotices ==
  ASSUME IInv, NoticesInv, NEW a \in Admin, Answered(a) PROVE NoticesInv'
<1>1. /\ review[a].pc = "marked" /\ UNCHANGED <<row, notices>>
      /\ \A h \in Handle : telling'[h] = IF Holds(a, h) THEN telling[h] + 1 ELSE telling[h]
      /\ review' = [review EXCEPT ![a] = IdleReview]
  BY DEF Answered, Holds
<1>2. \A b \in Admin, h \in Handle : Holds(b, h)' => b # a /\ Holds(b, h)
  BY <1>1 DEF Holds, IdleReview, IInv, TypeOK
<1>3. \A b \in Admin, h \in Handle : Holds(b, h)' => ~Holds(a, h)
  BY <1>2 DEF NoticesInv
<1>4. ASSUME NEW h \in Handle
      PROVE  telling'[h] + notices'[h] <= IF row'[h].state = "processed" THEN 1 ELSE 0
  <2>1. CASE Holds(a, h)
    BY <1>1, <2>1 DEF NoticesInv
  <2>2. CASE ~Holds(a, h)
    BY <1>1, <2>2 DEF NoticesInv
  <2> QED BY <2>1, <2>2
<1> QED BY <1>1, <1>2, <1>3, <1>4 DEF NoticesInv

\* ... and an announcement under way is the only one, and made or lost.
LEMMA TellingEnds ==
  ASSUME IInv, NoticesInv, NEW h \in Handle, Tell(h) PROVE NoticesInv'
<1>1. \A g \in Handle : telling[g] \in Nat /\ notices[g] \in Nat
  BY DEF IInv, TypeOK
<1>2. /\ telling[h] > 0 /\ UNCHANGED <<row, review>>
      /\ telling'[h] = telling[h] - 1 /\ notices'[h] \in {notices[h], notices[h] + 1}
      /\ \A g \in Handle : g # h => telling'[g] = telling[g] /\ notices'[g] = notices[g]
  BY DEF Tell, IInv, TypeOK
<1>3. \A a \in Admin, g \in Handle : (Holds(a, g)' <=> Holds(a, g)) /\ (Holds(a, g) => g # h)
  BY <1>1, <1>2 DEF Holds, NoticesInv
<1>4. ASSUME NEW g \in Handle
      PROVE  telling'[g] + notices'[g] <= IF row'[g].state = "processed" THEN 1 ELSE 0
  <2>1. CASE g = h
    BY <1>1, <1>2, <2>1 DEF NoticesInv
  <2>2. CASE g # h
    BY <1>2, <2>2 DEF NoticesInv
  <2> QED BY <2>1, <2>2
<1> QED BY <1>2, <1>3, <1>4 DEF NoticesInv

\* markNominationProcessedByHandle, the bulk UPDATE and the notifyNominators calls
\* after them: with the cap on, the nominators of a handle are told at most once,
\* and of a processed one only, however many reviewers mark it, whatever answers
\* are lost and whenever the bot restarts.
THEOREM NominatorsAreToldOnce ==
  ASSUME TargetMax > 0 PROVE Spec => []ToldAtMostOnce
<1>1. Init => NoticesInv
  BY DEF Init, AbsentRow, IdleReview, NoticesInv, Holds
<1>2. IInv /\ NoticesInv /\ [Next]_vars => NoticesInv'
  <2> SUFFICES ASSUME IInv, NoticesInv, [Next]_vars PROVE NoticesInv'
    OBVIOUS
  <2>1. ASSUME NEW a \in Admin, Mark(a) PROVE NoticesInv'
    BY <2>1, MarkOwesNotices
  <2>2. ASSUME NEW a \in Admin, Answered(a) PROVE NoticesInv'
    BY <2>2, AnswerStartsNotices
  <2>3. ASSUME NEW h \in Handle, Tell(h) PROVE NoticesInv'
    BY <2>3, TellingEnds
  <2>4. CASE UNCHANGED <<review, telling, notices>>
    BY <2>4, StepMovesRows, NoNewNotice DEF Holds
  <2>5. ASSUME NEW a \in Admin, NEW pc \in {"mark", "prompt", "force", "promptAll", "markAll", "idle"},
               NEW S, Reviewing(a, pc, S), UNCHANGED <<telling, notices>>
        PROVE  NoticesInv'
    <3>1. \A b \in Admin, h \in Handle : Holds(b, h)' => Holds(b, h)
      BY <2>5 DEF Holds, Reviewing, IInv, TypeOK
    <3> QED BY <2>5, <3>1, StepMovesRows, NoNewNotice
  <2>6. ASSUME NEW a \in Admin, ReviewStep(a), ~Mark(a), ~Answered(a) PROVE NoticesInv'
    BY <2>5, <2>6 DEF ReviewStep, ReviewOne, ProcessAnyway, ReviewAll, ConfirmAll,
       ReviewEnds,
       Reviewing, IdleReview
  <2>7. CASE Restart
    <3>1. \A b \in Admin, h \in Handle : ~Holds(b, h)'
      BY <2>7 DEF Restart, Holds, IdleReview
    <3>2. telling' = [h \in Handle |-> 0] /\ UNCHANGED notices
      BY <2>7 DEF Restart
    <3> QED BY <3>1, <3>2, StepMovesRows, NoNewNotice
  <2> QED BY <2>1, <2>2, <2>3, <2>4, <2>6, <2>7 DEF Next, vars, CommandStep, Submit,
             AntiAbuse,
       CitizenCheck, BeginRecord, SelectRow, Record, Reply, EnqueueCall, CommandFails,
       StoreCheck, OldestEventExpires, CooldownEnds
<1>3. IInv /\ NoticesInv => ToldAtMostOnce
  BY DEF IInv, TypeOK, NoticesInv, ToldAtMostOnce
<1> QED BY <1>1, <1>2, <1>3, Inductive, PTL DEF Spec

\* The transactions, the worker and the reviewers implement the lifecycle of
\* lifecycle.service.ts, with the cap on.
THEOREM LifecycleIsImplemented ==
  ASSUME TargetMax > 0 PROVE Spec => ImplementsLifecycle
<1> DEFINE now == [h \in Handle |-> row[h].state]
<1>1. Init => Lifecycle!Init
  BY DEF Init, AbsentRow, Lifecycle!Init
<1>2. IInv /\ [Next]_vars => [Lifecycle!Next]_now
  <2> SUFFICES ASSUME IInv, RowMoves PROVE [Lifecycle!Next]_now
    BY StepMovesRows
  <2>1. ASSUME NEW h \in Handle, \A g \in Handle : g # h => row'[g] = row[g],
               row[h].state # "processed", row'[h].state = "new"
        PROVE  Lifecycle!Next
    <3>1. now' = [now EXCEPT ![h] = "new"] /\ now[h] # "processed"
      BY <2>1
    <3>2. Lifecycle!Nominated(h)
      BY <3>1 DEF Lifecycle!Nominated
    <3> QED BY <3>2 DEF Lifecycle!Next
  <2>2. ASSUME NEW h \in Handle, \A g \in Handle : g # h => row'[g] = row[g],
               row[h].state = "processed", row'[h].state = "processed"
        PROVE  UNCHANGED now
    BY <2>2
  <2>3. ASSUME NEW h \in Handle, \A g \in Handle : g # h => row'[g] = row[g],
               row[h].state \in Unprocessed, row'[h].state \in Checked
        PROVE  Lifecycle!Next
    <3>1. now' = [now EXCEPT ![h] = row'[h].state]
      BY <2>3
    <3>2. Lifecycle!ValidTransition(now[h], row'[h].state) /\ row'[h].state \in Lifecycle!Checked
      BY <2>3 DEF Lifecycle!ValidTransition, Lifecycle!Unprocessed, Lifecycle!Checked,
         Unprocessed, Checked
    <3>3. Lifecycle!Classified(h)
      BY <3>1, <3>2 DEF Lifecycle!Classified
    <3> QED BY <3>3 DEF Lifecycle!Next
  <2>4. ASSUME NEW S \in SUBSET Handle,
               \A h \in Handle :
                 IF h \in S
                   THEN row[h].state \in Unprocessed /\ row'[h].state = "processed"
                   ELSE row'[h] = row[h]
        PROVE  Lifecycle!Next
    <3>1. now' = [h \in Handle |-> IF h \in S THEN "processed" ELSE now[h]]
      BY <2>4
    <3>2. \A h \in S : Lifecycle!ValidTransition(now[h], "processed")
      BY <2>4 DEF Lifecycle!ValidTransition, Lifecycle!Unprocessed, Lifecycle!Checked,
         Unprocessed, Checked
    <3>3. Lifecycle!Processed(S)
      BY <3>1, <3>2 DEF Lifecycle!Processed
    <3> QED BY <3>3 DEF Lifecycle!Next
  <2>5. CASE UNCHANGED row
    BY <2>5
  <2> QED BY <2>1, <2>2, <2>3, <2>4, <2>5 DEF RowMoves
<1> QED BY <1>1, <1>2, Inductive, PTL DEF Spec, ImplementsLifecycle, Lifecycle!Spec

-----------------------------------------------------------------------------
(* The daily caps and the cool-down *)

\* A command that still holds its user, and one past the anti-abuse checks
Open(r) == cmd[r].pc \notin {"idle", "enqueue"}
Passed(r) == cmd[r].pc \in {"citizen", "begin", "select", "write"}

\* A user has one command.
UsersTakeTurns ==
  \A r, q \in Request : Open(r) /\ Open(q) /\ cmd[r].user = cmd[q].user => r = q

\* What the anti-abuse checks have found of the user is still so ...
UserMayNominate ==
  \A r \in Request, u \in User : Passed(r) /\ cmd[r].user = u =>
    /\ UserMax > 0 => Cardinality(RecentBy(u)) < UserMax
    /\ Cooldown => u \notin cooling

\* ... and what the transaction has counted, as it holds the handle's lock.
TargetHasRoom ==
  TargetMax > 0 =>
    \A r \in Request, h \in Handle : Recording(r) /\ cmd[r].handle = h =>
      Cardinality(RecentOf(h)) < TargetMax

CapsInv == UsersTakeTurns /\ UserMayNominate /\ TargetHasRoom /\ CapsHold

\* The events within the window can be counted.
LEMMA RecentCounted ==
  ASSUME TypeOK
  PROVE  /\ \A h \in Handle : IsFiniteSet(RecentOf(h)) /\ Cardinality(RecentOf(h)) \in Nat
         /\ \A u \in User : IsFiniteSet(RecentBy(u)) /\ Cardinality(RecentBy(u)) \in Nat
<1>1. IsFiniteSet(Recent)
  <2>1. expired + 1 \in Int /\ Len(events) \in Int
    BY DEF TypeOK
  <2> QED BY <2>1, FS_Interval DEF Recent
<1>2. \A S \in SUBSET Recent : IsFiniteSet(S) /\ Cardinality(S) \in Nat
  BY <1>1, FS_Subset, FS_CardinalityType
<1> QED BY <1>2 DEF RecentOf, RecentBy

\* A step that records nothing and lets a command on only after its checks keeps
\* the caps.
LEMMA CapsKept ==
  ASSUME IInv, CapsInv, UsersTakeTurns',
         \A h \in Handle : RecentOf(h)' \subseteq RecentOf(h),
         \A u \in User : RecentBy(u)' \subseteq RecentBy(u),
         cooling' \subseteq cooling,
         \A r \in Request : Passed(r)' =>
           /\ cmd'[r].user = cmd[r].user
           /\ Passed(r) \/ ~Violates(cmd[r].user, cmd[r].handle),
         \A r \in Request : Recording(r)' =>
           /\ cmd'[r].handle = cmd[r].handle
           /\ Recording(r) \/ ~(TargetMax > 0 /\ Cardinality(RecentOf(cmd[r].handle)) >= TargetMax)
  PROVE  CapsInv'
<1> USE NominationsAssumption
<1>1. /\ \A h \in Handle : Cardinality(RecentOf(h)') <= Cardinality(RecentOf(h))
      /\ \A u \in User : Cardinality(RecentBy(u)') <= Cardinality(RecentBy(u))
      /\ \A h \in Handle : Cardinality(RecentOf(h)') \in Nat /\ Cardinality(RecentOf(h)) \in Nat
      /\ \A u \in User : Cardinality(RecentBy(u)') \in Nat /\ Cardinality(RecentBy(u)) \in Nat
  BY RecentCounted, FS_Subset, FS_CardinalityType DEF IInv
<1>2. UserMayNominate'
  <2> SUFFICES ASSUME NEW r \in Request, NEW u \in User, Passed(r)', cmd'[r].user = u
               PROVE  /\ UserMax > 0 => Cardinality(RecentBy(u)') < UserMax
                      /\ Cooldown => u \notin cooling'
    BY DEF UserMayNominate
  <2>1. cmd[r].user = u
    OBVIOUS
  <2>2. /\ UserMax > 0 => Cardinality(RecentBy(u)) < UserMax
        /\ Cooldown => u \notin cooling
    <3>1. CASE Passed(r)
      BY <2>1, <3>1 DEF CapsInv, UserMayNominate
    <3>2. CASE ~Violates(u, cmd[r].handle)
      BY <1>1, <3>2 DEF Violates
    <3> QED BY <2>1, <3>1, <3>2
  <2> QED BY <1>1, <2>2
<1>3. TargetHasRoom'
  <2> SUFFICES ASSUME TargetMax > 0, NEW r \in Request, NEW h \in Handle, Recording(r)', cmd'[r].handle = h
               PROVE  Cardinality(RecentOf(h)') < TargetMax
    BY DEF TargetHasRoom
  <2>1. cmd[r].handle = h
    OBVIOUS
  <2>2. Cardinality(RecentOf(h)) < TargetMax
    BY <1>1, <2>1 DEF CapsInv, TargetHasRoom
  <2> QED BY <1>1, <2>2
<1>4. CapsHold'
  <2>1. ASSUME TargetMax > 0, NEW h \in Handle PROVE Cardinality(RecentOf(h)') <= TargetMax
    BY <1>1, <2>1 DEF CapsInv, CapsHold, TargetCapHolds
  <2>2. ASSUME UserMax > 0, NEW u \in User PROVE Cardinality(RecentBy(u)') <= UserMax
    BY <1>1, <2>2 DEF CapsInv, CapsHold, UserCapHolds
  <2> QED BY <2>1, <2>2 DEF CapsHold, TargetCapHolds, UserCapHolds
<1> QED BY <1>2, <1>3, <1>4 DEF CapsInv

\* Recording counts for one user and one handle, and no other command that is
\* past its checks is of that user, or holds the lock of that handle.
LEMMA RecordKeepsCaps ==
  ASSUME IInv, CapsInv, NEW r \in Request, Record(r)
  PROVE  CapsInv' /\ (Cooldown => events'[Len(events')].user \notin cooling)
                  /\ Len(events') = Len(events) + 1
<1> USE NominationsAssumption
<1>0. PICK h \in Handle, u \in User : cmd[r].handle = h /\ cmd[r].user = u
  BY RecordedRow
<1>1. /\ cmd[r].pc = "write" /\ events' = Append(events, [handle |-> h, user |-> u])
      /\ cooling' \subseteq cooling \cup {u} /\ (~Cooldown => cooling' = cooling)
      /\ expired' = expired
      /\ \A q \in Request \ {r} : cmd'[q] = cmd[q]
      /\ cmd'[r].pc = "reply" /\ cmd'[r].user = u
  <2>1. /\ cmd[r].pc = "write" /\ events' = Append(events, [handle |-> h, user |-> u])
        /\ cooling' \subseteq cooling \cup {u} /\ (~Cooldown => cooling' = cooling)
        /\ expired' = expired
    BY <1>0 DEF Record
  <2>2. cmd' = [cmd EXCEPT ![r] = [cmd[r] EXCEPT !.pc = "reply"]] /\ cmd[r] \in Command
    BY DEF Record, At, IInv, TypeOK
  <2>3. cmd'[r].pc = "reply" /\ cmd'[r].user = u /\ \A q \in Request \ {r} : cmd'[q] = cmd[q]
    BY <1>0, <2>2 DEF Command, IInv, TypeOK
  <2> QED BY <2>1, <2>3
<1> DEFINE n == Len(events)
<1>2. /\ events \in Seq(Event) /\ n \in Nat /\ expired \in 0..n /\ Len(events') = n + 1
      /\ events'[n + 1].handle = h /\ events'[n + 1].user = u
      /\ \A i \in 1..n : events'[i] = events[i]
      /\ DOMAIN events = 1..n /\ DOMAIN events' = 1..(n + 1)
  BY <1>1 DEF IInv, TypeOK
<1>3. Recent' = Recent \cup {n + 1} /\ n + 1 \notin Recent /\ Recent \subseteq 1..n
  BY <1>1, <1>2 DEF Recent
<1>4. /\ RecentOf(h)' = RecentOf(h) \cup {n + 1} /\ n + 1 \notin RecentOf(h)
      /\ \A g \in Handle : g # h => RecentOf(g)' = RecentOf(g)
  BY <1>2, <1>3 DEF RecentOf, EventsOf
<1>5. /\ RecentBy(u)' = RecentBy(u) \cup {n + 1} /\ n + 1 \notin RecentBy(u)
      /\ \A v \in User : v # u => RecentBy(v)' = RecentBy(v)
  BY <1>2, <1>3 DEF RecentBy
<1>6. /\ Cardinality(RecentOf(h)') = Cardinality(RecentOf(h)) + 1
      /\ Cardinality(RecentBy(u)') = Cardinality(RecentBy(u)) + 1
      /\ Cardinality(RecentOf(h)) \in Nat /\ Cardinality(RecentBy(u)) \in Nat
  <2>1. IsFiniteSet(RecentOf(h)) /\ IsFiniteSet(RecentBy(u))
        /\ Cardinality(RecentOf(h)) \in Nat /\ Cardinality(RecentBy(u)) \in Nat
    BY RecentCounted DEF IInv
  <2>2. Cardinality(RecentOf(h) \cup {n + 1}) = Cardinality(RecentOf(h)) + 1
    BY <1>4, <2>1, FS_AddElement
  <2>3. Cardinality(RecentBy(u) \cup {n + 1}) = Cardinality(RecentBy(u)) + 1
    BY <1>5, <2>1, FS_AddElement
  <2> QED BY <1>4, <1>5, <2>1, <2>2, <2>3
<1>7. Open(r) /\ Passed(r) /\ Recording(r)
  BY <1>1 DEF Open, Passed, Recording
<1>8. UsersTakeTurns'
  BY <1>0, <1>1, <1>7 DEF CapsInv, UsersTakeTurns, Open
<1>9. UserMayNominate'
  <2> SUFFICES ASSUME NEW q \in Request, NEW v \in User, Passed(q)', cmd'[q].user = v
               PROVE  /\ UserMax > 0 => Cardinality(RecentBy(v)') < UserMax
                      /\ Cooldown => v \notin cooling'
    BY DEF UserMayNominate
  <2>1. q # r /\ cmd[q].user = v /\ Passed(q) /\ Open(q)
    BY <1>1 DEF Passed, Open
  <2>2. v # u
    BY <1>0, <1>7, <2>1 DEF CapsInv, UsersTakeTurns
  <2> QED BY <1>1, <1>5, <2>1, <2>2 DEF CapsInv, UserMayNominate
<1>10. TargetHasRoom'
  <2> SUFFICES ASSUME TargetMax > 0, NEW q \in Request, NEW g \in Handle, Recording(q)', cmd'[q].handle = g
               PROVE  Cardinality(RecentOf(g)') < TargetMax
    BY DEF TargetHasRoom
  <2>1. q # r /\ cmd[q].handle = g /\ Recording(q)
    BY <1>1 DEF Recording
  <2>2. g # h
    BY <1>0, <1>7, <2>1 DEF IInv, TargetLocksExclude
  <2> QED BY <1>4, <2>1, <2>2 DEF CapsInv, TargetHasRoom
<1>11. TargetCapHolds'
  <2> SUFFICES ASSUME TargetMax > 0, NEW g \in Handle PROVE Cardinality(RecentOf(g)') <= TargetMax
    BY DEF TargetCapHolds
  <2>1. CASE g = h
    <3>1. Cardinality(RecentOf(h)) < TargetMax
      BY <1>0, <1>7 DEF CapsInv, TargetHasRoom
    <3> QED BY <1>6, <2>1, <3>1
  <2>2. CASE g # h
    BY <1>4, <2>2 DEF CapsInv, CapsHold, TargetCapHolds
  <2> QED BY <2>1, <2>2
<1>12. UserCapHolds'
  <2> SUFFICES ASSUME UserMax > 0, NEW v \in User PROVE Cardinality(RecentBy(v)') <= UserMax
    BY DEF UserCapHolds
  <2>1. CASE v = u
    <3>1. Cardinality(RecentBy(u)) < UserMax
      BY <1>0, <1>7 DEF CapsInv, UserMayNominate
    <3> QED BY <1>6, <2>1, <3>1
  <2>2. CASE v # u
    BY <1>5, <2>2 DEF CapsInv, CapsHold, UserCapHolds
  <2> QED BY <2>1, <2>2
<1>13. Cooldown => u \notin cooling
  BY <1>0, <1>7 DEF CapsInv, UserMayNominate
<1> QED BY <1>2, <1>8, <1>9, <1>10, <1>11, <1>12, <1>13 DEF CapsInv, CapsHold

\* A step of one command that records nothing: it ends, or goes on past the
\* checks it has made.
LEMMA CommandKeepsCaps ==
  ASSUME IInv, CapsInv, NEW r \in Request, NEW c,
         cmd' = [cmd EXCEPT ![r] = c], UNCHANGED <<events, expired, cooling>>,
         \/ c.pc \in {"idle", "enqueue"}
         \/ c.pc = "abuse" /\ ~InProgress(c.user)
         \/ /\ Open(r) /\ c.pc \in {"citizen", "begin", "select", "write"}
            /\ c.user = cmd[r].user /\ c.handle = cmd[r].handle
            /\ Passed(r) \/ ~Violates(cmd[r].user, cmd[r].handle)
            /\ c.pc \in {"select", "write"} =>
                 \/ Recording(r)
                 \/ ~(TargetMax > 0 /\ Cardinality(RecentOf(cmd[r].handle)) >= TargetMax)
  PROVE  CapsInv'
<1>1. cmd'[r] = c /\ \A q \in Request \ {r} : cmd'[q] = cmd[q]
  BY DEF IInv, TypeOK
<1>2. \A q \in Request \ {r} : (Open(q)' <=> Open(q)) /\ (Passed(q)' <=> Passed(q))
                               /\ (Recording(q)' <=> Recording(q))
  BY <1>1 DEF Open, Passed, Recording
<1>3. UsersTakeTurns'
  <2> SUFFICES ASSUME NEW p \in Request, NEW q \in Request, Open(p)', Open(q)',
                      cmd'[p].user = cmd'[q].user, p # q
               PROVE  FALSE
    BY DEF UsersTakeTurns
  <2>1. CASE p # r /\ q # r
    BY <1>1, <1>2, <2>1 DEF CapsInv, UsersTakeTurns
  <2>2. ASSUME NEW t \in Request, t # r, Open(t)', Open(r)', cmd'[t].user = cmd'[r].user PROVE FALSE
    <3>1. cmd[t].user = c.user /\ Open(t)
      BY <1>1, <1>2, <2>2
    <3>2. c.pc \notin {"idle", "enqueue"}
      BY <1>1, <2>2 DEF Open
    <3>3. CASE c.pc = "abuse" /\ ~InProgress(c.user)
      BY <3>1, <3>3 DEF InProgress, Open
    <3>4. CASE Open(r) /\ c.user = cmd[r].user
      BY <2>2, <3>1, <3>4 DEF CapsInv, UsersTakeTurns
    <3> QED BY <3>2, <3>3, <3>4
  <2> QED BY <2>1, <2>2
<1>4. /\ \A h \in Handle : RecentOf(h)' \subseteq RecentOf(h)
      /\ \A u \in User : RecentBy(u)' \subseteq RecentBy(u)
      /\ cooling' \subseteq cooling
  BY DEF RecentOf, RecentBy, EventsOf, Recent
<1>5. \A q \in Request : Passed(q)' =>
        cmd'[q].user = cmd[q].user /\ (Passed(q) \/ ~Violates(cmd[q].user, cmd[q].handle))
  BY <1>1, <1>2 DEF Passed
<1>6. \A q \in Request : Recording(q)' =>
        /\ cmd'[q].handle = cmd[q].handle
        /\ Recording(q) \/ ~(TargetMax > 0 /\ Cardinality(RecentOf(cmd[q].handle)) >= TargetMax)
  BY <1>1, <1>2 DEF Recording
<1> QED BY <1>3, <1>4, <1>5, <1>6, CapsKept

\* Every step of /nominate-player but the recording
LEMMA CommandStepKeepsCaps ==
  ASSUME IInv, CapsInv, NEW r \in Request,
         AntiAbuse(r) \/ CitizenCheck(r) \/ BeginRecord(r) \/ SelectRow(r) \/ Reply(r)
           \/ EnqueueCall(r) \/ CommandFails(r)
  PROVE  CapsInv'
<1>1. UNCHANGED <<events, expired, cooling>>
  BY DEF AntiAbuse, CitizenCheck, BeginRecord, SelectRow, Reply, EnqueueCall,
     CommandFails
<1>2. cmd[r] \in Command
  BY DEF IInv, TypeOK
<1>3. CASE Ends(r) \/ At(r, "enqueue")
  <2>1. PICK c : cmd' = [cmd EXCEPT ![r] = c] /\ (c = IdleCommand \/ c = [cmd[r] EXCEPT !.pc = "enqueue"])
    BY <1>3 DEF Ends, At
  <2>2. c.pc \in {"idle", "enqueue"}
    BY <1>2, <2>1 DEF IdleCommand, Command
  <2> QED BY <1>1, <2>1, <2>2, CommandKeepsCaps
<1>4. ASSUME NEW pc \in {"citizen", "begin", "select", "write"}, NEW seen,
             cmd' = [cmd EXCEPT ![r] = [cmd[r] EXCEPT !.pc = pc, !.seen = seen]],
             Open(r), Passed(r) \/ ~Violates(cmd[r].user, cmd[r].handle),
             pc \in {"select", "write"} =>
               \/ Recording(r)
               \/ ~(TargetMax > 0 /\ Cardinality(RecentOf(cmd[r].handle)) >= TargetMax)
      PROVE  CapsInv'
  <2> DEFINE c == [cmd[r] EXCEPT !.pc = pc, !.seen = seen]
  <2>1. c.pc = pc /\ c.user = cmd[r].user /\ c.handle = cmd[r].handle
    BY <1>2 DEF Command
  <2>2. cmd' = [cmd EXCEPT ![r] = c]
    BY <1>4
  <2> HIDE DEF c
  <2> QED BY <1>1, <1>4, <2>1, <2>2, CommandKeepsCaps
<1>5. ASSUME NEW pc, At(r, pc)
      PROVE  cmd' = [cmd EXCEPT ![r] = [cmd[r] EXCEPT !.pc = pc, !.seen = cmd[r].seen]]
  <2>1. [cmd[r] EXCEPT !.pc = pc] = [cmd[r] EXCEPT !.pc = pc, !.seen = cmd[r].seen]
    BY <1>2 DEF Command
  <2> QED BY <1>5, <2>1 DEF At
<1>6. CASE AntiAbuse(r) /\ ~Ends(r)
  <2>1. cmd[r].pc = "abuse" /\ ~Violates(cmd[r].user, cmd[r].handle) /\ At(r, "citizen")
    BY <1>6 DEF AntiAbuse
  <2> QED BY <1>4, <1>5, <2>1 DEF Open
<1>7. CASE CitizenCheck(r) /\ ~Ends(r)
  <2>1. cmd[r].pc = "citizen" /\ At(r, "begin")
    BY <1>7 DEF CitizenCheck
  <2> QED BY <1>4, <1>5, <2>1 DEF Open, Passed
<1>8. CASE BeginRecord(r) /\ ~Ends(r)
  <2>1. /\ cmd[r].pc = "begin" /\ At(r, "select")
        /\ ~(TargetMax > 0 /\ Cardinality(RecentOf(cmd[r].handle)) >= TargetMax)
    BY <1>8 DEF BeginRecord
  <2> QED BY <1>4, <1>5, <2>1 DEF Open, Passed
<1>9. CASE SelectRow(r)
  <2>1. /\ cmd[r].pc = "select"
        /\ cmd' = [cmd EXCEPT ![r] = [cmd[r] EXCEPT !.pc = "write", !.seen = row[cmd[r].handle].state]]
    BY <1>9 DEF SelectRow
  <2> QED BY <1>4, <2>1 DEF Open, Passed, Recording
<1>10. (Reply(r) => At(r, "enqueue")) /\ (EnqueueCall(r) \/ CommandFails(r) => Ends(r))
  BY DEF Reply, EnqueueCall, CommandFails
<1> QED BY <1>3, <1>6, <1>7, <1>8, <1>9, <1>10

\* Every step keeps the caps.
LEMMA StepKeepsCaps == ASSUME IInv, CapsInv, [Next]_vars PROVE CapsInv'
<1>1. ASSUME NEW r \in Request, NEW u \in User, NEW h \in Handle, Submit(r, u, h) PROVE CapsInv'
  <2> DEFINE c == [pc |-> "abuse", user |-> u, handle |-> h, seen |-> "absent"]
  <2>1. /\ cmd' = [cmd EXCEPT ![r] = c] /\ ~InProgress(u) /\ UNCHANGED <<events, expired, cooling>>
        /\ c.pc = "abuse" /\ c.user = u
    BY <1>1 DEF Submit
  <2> HIDE DEF c
  <2> QED BY <2>1, CommandKeepsCaps
<1>2. ASSUME NEW r \in Request, CommandStep(r) \/ EnqueueCall(r) \/ CommandFails(r) PROVE CapsInv'
  BY <1>2, CommandStepKeepsCaps, RecordKeepsCaps DEF CommandStep
<1>3. ASSUME UNCHANGED <<events, expired, cooling, cmd>> PROVE CapsInv'
  BY <1>3 DEF CapsInv, UsersTakeTurns, UserMayNominate, TargetHasRoom, CapsHold,
     TargetCapHolds,
     UserCapHolds, Open, Passed, Recording, RecentOf, RecentBy, EventsOf, Recent
<1>4. CASE (\E h \in Handle, code \in Code : StoreCheck(h, code))
           \/ (\E a \in Admin : ReviewStep(a)) \/ (\E h \in Handle : Tell(h)) \/ UNCHANGED vars
  <2>1. UNCHANGED <<events, expired, cooling, cmd>>
    BY <1>4 DEF StoreCheck, ReviewStep, ReviewOne, ProcessAnyway, ReviewAll, ConfirmAll,
       Mark,
       Answered, Tell, ReviewEnds, vars
  <2> QED BY <1>3, <2>1
<1>5. ASSUME UNCHANGED events, expired' \in {expired, expired + 1}, cooling' \subseteq cooling,
             cmd' = cmd \/ \A r \in Request : cmd'[r].pc = "idle"
      PROVE  CapsInv'
  <2>1. UsersTakeTurns'
    BY <1>5 DEF CapsInv, UsersTakeTurns, Open
  <2>2. Recent' \subseteq Recent
    <3>1. expired \in Nat /\ Len(events) \in Nat
      BY DEF IInv, TypeOK
    <3> QED BY <1>5, <3>1 DEF Recent
  <2>3. /\ \A h \in Handle : RecentOf(h)' \subseteq RecentOf(h)
        /\ \A u \in User : RecentBy(u)' \subseteq RecentBy(u)
    BY <1>5, <2>2 DEF RecentOf, RecentBy, EventsOf
  <2>4. \A r \in Request : (Passed(r)' => Passed(r) /\ cmd' = cmd)
                           /\ (Recording(r)' => Recording(r) /\ cmd' = cmd)
    BY <1>5 DEF Passed, Recording
  <2> QED BY <1>5, <2>1, <2>3, <2>4, CapsKept
<1>6. CASE OldestEventExpires \/ (\E u \in User : CooldownEnds(u)) \/ Restart
  <2>1. /\ UNCHANGED events /\ expired' \in {expired, expired + 1} /\ cooling' \subseteq cooling
        /\ cmd' = cmd \/ \A r \in Request : cmd'[r].pc = "idle"
    BY <1>6 DEF OldestEventExpires, CooldownEnds, Restart, IdleCommand
  <2> QED BY <1>5, <2>1
<1> QED BY <1>1, <1>2, <1>4, <1>6 DEF Next

\* No event, no command, no cool-down.
LEMMA CapsStart == Init => CapsInv
<1> SUFFICES ASSUME Init PROVE CapsInv
  OBVIOUS
<1>1. events = <<>> /\ \A r \in Request : cmd[r].pc = "idle"
  BY DEF Init, IdleCommand
<1>2. \A h \in Handle : RecentOf(h) = {}
  BY <1>1 DEF RecentOf, EventsOf
<1>3. \A u \in User : RecentBy(u) = {}
  <2>1. expired = 0 /\ Len(events) = 0
    BY <1>1 DEF Init
  <2>2. Recent = {}
    BY <2>1 DEF Recent
  <2> QED BY <2>2 DEF RecentBy
<1>4. CapsHold
  BY <1>2, <1>3, FS_EmptySet, NominationsAssumption DEF CapsHold, TargetCapHolds,
     UserCapHolds
<1> QED BY <1>1, <1>4 DEF CapsInv, UsersTakeTurns, UserMayNominate, TargetHasRoom, Open,
           Passed, Recording

\* The caps and the checks hold in every behaviour.
LEMMA CapsInductive == Spec => []CapsInv
BY CapsStart, StepKeepsCaps, Inductive, PTL DEF Spec

\* Both daily caps hold through any overlap of commands: the user's although it
\* is checked outside the transaction, as a user has one command at a time.
THEOREM CapsAreKept == Spec => []CapsHold
<1>1. CapsInv => CapsHold
  BY DEF CapsInv
<1> QED BY <1>1, CapsInductive, PTL

\* A nomination is recorded only when its user's cool-down is over, although it
\* was looked at several steps before.
THEOREM CooldownIsKept == Spec => CooldownHolds
<1> DEFINE Waits == Cooldown /\ Len(events') > Len(events) => events'[Len(events')].user \notin cooling
<1>1. IInv /\ CapsInv /\ [Next]_vars => [Waits]_vars
  <2> SUFFICES ASSUME IInv, CapsInv, [Next]_vars PROVE Waits
    OBVIOUS
  <2>1. CASE \E r \in Request : Record(r)
    BY <2>1, RecordKeepsCaps
  <2>2. CASE events' = events
    <3>1. Len(events) \in Nat
      BY DEF IInv, TypeOK
    <3> QED BY <2>2, <3>1
  <2>3. (\E r \in Request : Record(r)) \/ events' = events
    BY DEF Next, vars, CommandStep, ReviewStep, Submit, AntiAbuse, CitizenCheck,
       BeginRecord,
       SelectRow, Reply, EnqueueCall, CommandFails, ReviewOne, ProcessAnyway, ReviewAll,
       ConfirmAll, Mark, Answered, Tell, ReviewEnds, OldestEventExpires, CooldownEnds, Restart, StoreCheck
  <2> QED BY <2>1, <2>2, <2>3
<1>2. CooldownHolds <=> [][Waits]_vars
  BY DEF CooldownHolds
<1> HIDE DEF Waits
<1> QED BY <1>1, <1>2, Inductive, CapsInductive, PTL DEF Spec
=============================================================================
