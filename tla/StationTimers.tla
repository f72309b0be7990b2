--------------------------- MODULE StationTimers ---------------------------
(***************************************************************************)
(* /station-timer: the timers of one guild and the cron worker that        *)
(* announces the due ones.                                                 *)
(*                                                                         *)
(*   domain/station-timer/station-timer.repository.ts    statements        *)
(*   services/station-timer/station-timer.service.ts     delivery          *)
(*   jobs/discord/station-timer.job.ts                   the cron tick     *)
(*                                                                         *)
(* node-cron starts a tick whether or not the last one has ended, so       *)
(* several deliveries (Tick) run side by side.  The claim and the reset    *)
(* take none of the advisory locks the commands take.                      *)
(***************************************************************************)
EXTENDS Naturals, FiniteSets

CONSTANTS
  User,        \* members of the guild
  Null,        \* no user
  Tick,        \* cron ticks under way at a time
  MaxTimers,   \* bound: timers created in a behaviour
  MaxUser,     \* STATION_TIMER_MAX_ACTIVE_PER_USER
  MaxGuild,    \* STATION_TIMER_MAX_ACTIVE_PER_GUILD
  Limit,       \* timers claimed by one tick
  MaxFaults,   \* bound: statements that throw, and crashes
  Crashes      \* may the process die in the middle of a delivery?

ASSUME TimersAssumption ==
  /\ IsFiniteSet(User) /\ Null \notin User
  /\ MaxTimers \in Nat /\ MaxFaults \in Nat
  /\ MaxUser \in Nat \ {0} /\ MaxGuild \in Nat \ {0} /\ Limit \in Nat \ {0}
  /\ Crashes \in BOOLEAN

VARIABLES
  timers,    \* station_timers
  start,     \* users inside createStationTimer: the slot chosen, 0 when outside
  tick,      \* the deliveries
  told,      \* how often a timer's expiry was announced
  faults

vars == <<timers, start, tick, told, faults>>

Id == 1..MaxTimers
Slot == 1..MaxUser

Timer == [status : {"absent", "active", "delivering", "stopped", "completed"},
          user : User \cup {Null}, slot : 0..MaxUser, due : BOOLEAN]

Delivery == [pc : {"idle", "next", "notified", "failed"},
             claimed : SUBSET Id,    \* dueTimers not yet processed
             timer : 0..MaxTimers]   \* the one being processed

AbsentTimer == [status |-> "absent", user |-> Null, slot |-> 0, due |-> FALSE]
IdleDelivery == [pc |-> "idle", claimed |-> {}, timer |-> 0]

TypeOK ==
  /\ timers \in [Id -> Timer]
  /\ start \in [User -> 0..MaxUser]
  /\ tick \in [Tick -> Delivery]
  /\ told \in [Id -> Nat]
  /\ faults \in 0..MaxFaults

Init ==
  /\ timers = [i \in Id |-> AbsentTimer]
  /\ start = [u \in User |-> 0]
  /\ tick = [p \in Tick |-> IdleDelivery]
  /\ told = [i \in Id |-> 0]
  /\ faults = 0

-----------------------------------------------------------------------------

Active == {i \in Id : timers[i].status = "active"}
ActiveOf(u) == {i \in Active : timers[i].user = u}
FreeSlots(u) == {s \in Slot : \A i \in ActiveOf(u) : timers[i].slot # s}

\* The unique index over (guild, user, slot) of the active rows
SlotTaken(u, slot) == slot \notin FreeSlots(u)

\* The advisory lock on the guild: one createStationTimer at a time.
UnlockedGuild == TRUE
GuildFree == \A u \in User : start[u] = 0

UnsettledDue ==
  {i \in Id : timers[i].status \in {"active", "delivering"} /\ timers[i].due}
Due == {i \in Active : timers[i].due}
InHand(p) == tick[p].claimed \cup ({tick[p].timer} \ {0})

Fault == faults < MaxFaults /\ faults' = faults + 1

-----------------------------------------------------------------------------
(* The commands *)

\* createStationTimer up to the INSERT: both counts and the lowest free slot.
\* At a cap the call returns without a change.
CreateReads(u) ==
  /\ start[u] = 0
  /\ GuildFree
  /\ \E i \in Id : timers[i].status = "absent"
  /\ Cardinality(ActiveOf(u)) < MaxUser
  /\ Cardinality(Active) < MaxGuild
  /\ \E slot \in FreeSlots(u) :
       /\ \A s \in FreeSlots(u) : slot <= s
       /\ start' = [start EXCEPT ![u] = slot]
  /\ UNCHANGED <<timers, tick, told, faults>>

CreateInserts(u) ==
  /\ start[u] # 0
  /\ ~SlotTaken(u, start[u])
  /\ \E i \in Id :
       /\ timers[i].status = "absent"
       /\ \A j \in Id : j < i => timers[j].status # "absent"
       /\ timers' = [timers EXCEPT ![i] =
            [status |-> "active", user |-> u, slot |-> start[u], due |-> FALSE]]
  /\ start' = [start EXCEPT ![u] = 0]
  /\ UNCHANGED <<tick, told, faults>>

\* A reset has put a timer back on the chosen slot: the INSERT throws.
CreateRefused(u) ==
  /\ start[u] # 0
  /\ SlotTaken(u, start[u])
  /\ start' = [start EXCEPT ![u] = 0]
  /\ UNCHANGED <<timers, tick, told, faults>>

\* stopActiveStationTimerByUserSlot, under the advisory lock on the user
Stop(u, slot) ==
  /\ start[u] = 0
  /\ \E i \in ActiveOf(u) :
       /\ timers[i].slot = slot
       /\ timers' = [timers EXCEPT ![i].status = "stopped"]
  /\ UNCHANGED <<start, tick, told, faults>>

BecomesDue(i) ==
  /\ timers[i].status = "active"
  /\ ~timers[i].due
  /\ timers' = [timers EXCEPT ![i].due = TRUE]
  /\ UNCHANGED <<start, tick, told, faults>>

-----------------------------------------------------------------------------
(* processDueStationTimers *)

Claim(p, S) ==
  /\ tick[p].pc = "idle"
  /\ S # {} /\ S \subseteq Due
  /\ Cardinality(S) = Limit \/ (Cardinality(S) < Limit /\ S = Due)
  /\ timers' = [i \in Id |->
        IF i \in S THEN [timers[i] EXCEPT !.status = "delivering"] ELSE timers[i]]
  /\ tick' = [tick EXCEPT ![p] = [pc |-> "next", claimed |-> S, timer |-> 0]]
  /\ UNCHANGED <<start, told, faults>>

\* The direct message and the voice channel's message.  Both swallow their
\* errors: whether they arrive makes no difference to what follows.
Notify(p) ==
  /\ tick[p].pc = "next"
  /\ \E i \in tick[p].claimed :
       /\ tick' = [tick EXCEPT ![p] =
            [pc |-> "notified", claimed |-> @.claimed \ {i}, timer |-> i]]
       /\ told' = [told EXCEPT ![i] = @ + 1]
  /\ UNCHANGED <<timers, start, faults>>

StopAfterOne(p) == tick' = [tick EXCEPT ![p] = IdleDelivery]
Proceed(p) ==
  tick' = [tick EXCEPT ![p] = IF @.claimed = {} THEN IdleDelivery
                              ELSE [@ EXCEPT !.pc = "next", !.timer = 0]]

SetStatus(i, status) == timers' = [timers EXCEPT ![i].status = status]

\* completeStationTimer
Complete(p) ==
  /\ tick[p].pc = "notified"
  /\ SetStatus(tick[p].timer, "completed")
  /\ Proceed(p)
  /\ UNCHANGED <<start, told, faults>>

\* It throws, and may have been committed all the same.
CompleteThrows(p) ==
  /\ tick[p].pc = "notified"
  /\ Fault
  /\ UNCHANGED timers \/ SetStatus(tick[p].timer, "completed")
  /\ tick' = [tick EXCEPT ![p].pc = "failed"]
  /\ UNCHANGED <<start, told>>

\* resetStationTimerToActive: only a row that is still being delivered ...
AnyRow(i) == timers[i].status # "absent"
Resettable(i) == timers[i].status = "delivering"

Reset(p) ==
  LET t == timers[tick[p].timer]
  IN  /\ tick[p].pc = "failed"
      /\ IF Resettable(tick[p].timer)
           THEN ~SlotTaken(t.user, t.slot) /\ SetStatus(tick[p].timer, "active")
           ELSE UNCHANGED timers
      /\ Proceed(p)
      /\ UNCHANGED <<start, told, faults>>

\* ... and the unique index refuses it when the user has reused the slot.  The
\* error is logged and the row stays as it is.
ResetRefused(p) ==
  LET t == timers[tick[p].timer]
  IN  /\ tick[p].pc = "failed"
      /\ Resettable(tick[p].timer) /\ SlotTaken(t.user, t.slot)
      /\ Proceed(p)
      /\ UNCHANGED <<timers, start, told, faults>>

ResetThrows(p) ==
  /\ tick[p].pc = "failed"
  /\ Fault
  /\ Proceed(p)
  /\ UNCHANGED <<timers, start, told>>

\* The process dies: every delivery is forgotten, open transactions roll back.
Crash ==
  /\ Crashes /\ Fault
  /\ tick' = [p \in Tick |-> IdleDelivery]
  /\ start' = [u \in User |-> 0]
  /\ UNCHANGED <<timers, told>>

-----------------------------------------------------------------------------

DeliveryStep(p) ==
  \/ \E S \in SUBSET Id : Claim(p, S)
  \/ Notify(p)
  \/ Complete(p)
  \/ Reset(p)
  \/ ResetRefused(p)

Next ==
  \/ \E u \in User : CreateReads(u)
  \/ \E u \in User : CreateInserts(u)
  \/ \E u \in User : CreateRefused(u)
  \/ \E u \in User, slot \in Slot : Stop(u, slot)
  \/ \E i \in Id : BecomesDue(i)
  \/ \E p \in Tick : DeliveryStep(p)
  \/ \E p \in Tick : CompleteThrows(p)
  \/ \E p \in Tick : ResetThrows(p)
  \/ Crash

Spec == Init /\ [][Next]_vars

\* The cron ticks on, sends and statements return, and time passes.
FairSpec ==
  /\ Spec
  /\ \A p \in Tick : WF_vars(DeliveryStep(p))
  /\ \A i \in Id : WF_vars(BecomesDue(i))

-----------------------------------------------------------------------------
(* Properties *)

\* The slots a user stops timers by are unambiguous, and MAX_ACTIVE_PER_USER
\* holds, even when a reset brings a timer back behind the commands' back.
UserSlotsHold ==
  \A u \in User :
    /\ \A i, j \in ActiveOf(u) : timers[i].slot = timers[j].slot => i = j
    /\ Cardinality(ActiveOf(u)) <= MaxUser

\* MAX_ACTIVE_PER_GUILD holds as long as no completion has failed: members who
\* start timers together cannot pass it, whatever stops and claims do meanwhile.
\* (A reset does not count the guild's timers.)
GuildCapHolds == faults = 0 => Cardinality(Active) <= MaxGuild

\* Both limits hold through any overlap of commands, ticks and resets.
LimitsHold == UserSlotsHold /\ GuildCapHolds

\* Overlapping ticks never work on the same timer, and what a tick has claimed
\* is out of reach of /station-timer stop until the tick is done with it.
ClaimsAreExclusive ==
  /\ \A p, q \in Tick : p # q => InHand(p) \cap InHand(q) = {}
  /\ \A p \in Tick, i \in Id : i \in tick[p].claimed => timers[i].status = "delivering"

\* A completed timer is never started or announced again, although a completion
\* whose reply was lost is followed by a reset.
CompletedIsFinal ==
  [][\A i \in Id : timers[i].status = "completed" =>
       timers'[i] = timers[i] /\ told'[i] = told[i]]_vars

\* As long as nothing has failed every timer ends, stopped by its user or
\* announced and completed, however many of them share a tick.
TimersEndUnlessFaulty ==
  \A i \in Id : timers[i].status \in {"active", "delivering"}
                  ~> timers[i].status \in {"stopped", "completed"} \/ faults > 0

\* Every timer ends, also when storing a completion fails and is made good by
\* the reset.
TimersEnd ==
  \A i \in Id : timers[i].status \in {"active", "delivering"}
                  ~> timers[i].status \in {"stopped", "completed"}
=============================================================================
