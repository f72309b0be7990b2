----------------------------- MODULE TimersProofs ---------------------------
(***************************************************************************)
(* The two components that keep time for a guild.                          *)
(*                                                                         *)
(* Station timers, for any members, ticks and limits, any overlap of       *)
(* commands, deliveries, failed statements and crashes: no timer is in the *)
(* hands of two deliveries, the limits on active timers hold, and a        *)
(* completed timer stays completed.                                        *)
(*                                                                         *)
(* The executive hangar (Hangar), for any durations, any drift and any     *)
(* time: what the bot derives from a change stored any number of cycles    *)
(* ago is what the site says now, and the change it announces is ahead and *)
(* comes as announced.                                                     *)
(***************************************************************************)
EXTENDS StationTimers, Integers, FiniteSetTheorems, TLAPS

\* The hangar's parameters and state
CONSTANTS Minute, Site, Epoch, Configs, Minutes, Request, MaxNow
VARIABLES now, row, pending, synced, follows

Hangar == INSTANCE ExecHangar

-----------------------------------------------------------------------------
(* Station timers.  The invariants                                         *)

\* A row that exists belongs to a member and has one of the slots.
RowsAreOwned ==
  \A i \in Id : timers[i].status # "absent" =>
    timers[i].user \in User /\ timers[i].slot \in Slot

\* No two active timers of a member share a slot: the unique index.
SlotsAreDistinct ==
  \A i, j \in Active :
    timers[i].user = timers[j].user /\ timers[i].slot = timers[j].slot => i = j

\* The timer a delivery has just announced is still "delivering", or already
\* completed by a statement that threw after its commit; and the delivery does
\* not have it twice.
HeldTimersAreOut ==
  \A p \in Tick :
    /\ tick[p].pc \in {"notified", "failed"} => tick[p].timer # 0
    /\ tick[p].timer # 0 =>
         /\ timers[tick[p].timer].status \in {"delivering", "completed"}
         /\ tick[p].timer \notin tick[p].claimed

\* Inside createStationTimer there is one member at a time, who found room in
\* the guild; and without a fault there is no reset that could take the room.
RoomIsKept ==
  /\ \A u, v \in User : start[u] # 0 /\ start[v] # 0 => u = v
  /\ faults = 0 =>
       /\ \A p \in Tick : tick[p].pc # "failed"
       /\ \A u \in User : start[u] # 0 => Cardinality(Active) < MaxGuild

\* The inductive invariant.  DeliveriesInv does not need the rest.
DeliveriesInv == TypeOK /\ ClaimsAreExclusive /\ HeldTimersAreOut
IInv == DeliveriesInv /\ RowsAreOwned /\ SlotsAreDistinct /\ RoomIsKept /\ GuildCapHolds

-----------------------------------------------------------------------------
(* What the steps of a delivery do to the rows and to the delivery *)

Status == {"absent", "active", "delivering", "stopped", "completed"}

\* Storing a status changes one row, and nothing else of it.
LEMMA SetStatusFacts ==
  ASSUME TypeOK, NEW i \in Id, NEW s \in Status, SetStatus(i, s)
  PROVE  /\ timers' \in [Id -> Timer]
         /\ \A j \in Id : j # i => timers'[j] = timers[j]
         /\ timers'[i].status = s
         /\ timers'[i].user = timers[i].user /\ timers'[i].slot = timers[i].slot
<1>1. timers \in [Id -> Timer]
  BY DEF TypeOK
<1>2. timers' = [timers EXCEPT ![i].status = s]
  BY DEF SetStatus
<1>3. [timers[i] EXCEPT !.status = s] \in Timer
  BY <1>1 DEF Timer, Status
<1>4. timers'[i] = [timers[i] EXCEPT !.status = s]
  BY <1>1, <1>2
<1>5. /\ timers'[i].status = s
      /\ timers'[i].user = timers[i].user /\ timers'[i].slot = timers[i].slot
  BY <1>1, <1>4 DEF Timer
<1> QED BY <1>1, <1>2, <1>3, <1>4, <1>5

\* A delivery that proceeds lets go of the timer it announced, and keeps the
\* claimed ones.
LEMMA ProceedFacts ==
  ASSUME TypeOK, NEW p \in Tick, Proceed(p)
  PROVE  /\ tick' \in [Tick -> Delivery]
         /\ \A q \in Tick : q # p => tick'[q] = tick[q]
         /\ tick'[p].claimed = tick[p].claimed
         /\ tick'[p].timer = 0
         /\ tick'[p].pc \in {"idle", "next"}
<1>1. tick \in [Tick -> Delivery] /\ tick[p] \in Delivery
  BY DEF TypeOK
<1>2. 0 \in 0..MaxTimers
  BY TimersAssumption
<1> DEFINE new == IF tick[p].claimed = {} THEN IdleDelivery
                  ELSE [tick[p] EXCEPT !.pc = "next", !.timer = 0]
<1>3. tick' = [tick EXCEPT ![p] = new]
  BY DEF Proceed
<1>4. /\ new \in Delivery
      /\ new.claimed = tick[p].claimed /\ new.timer = 0 /\ new.pc \in {"idle", "next"}
  <2>1. CASE tick[p].claimed = {}
    BY <1>2, <2>1 DEF Delivery, IdleDelivery
  <2>2. CASE tick[p].claimed # {}
    BY <1>1, <1>2, <2>2 DEF Delivery
  <2> QED BY <2>1, <2>2
<1>5. tick'[p] = new
  BY <1>1, <1>3
<1> QED
  <2> HIDE DEF new
  <2> QED BY <1>1, <1>3, <1>4, <1>5

\* Timers are numbered from one; no timer is 0.
LEMMA IdFacts == 0 \notin Id /\ Id = (0..MaxTimers) \ {0} /\ IsFiniteSet(Id)
<1>1. MaxTimers \in Nat
  BY TimersAssumption
<1>2. IsFiniteSet(1..MaxTimers)
  BY <1>1, FS_Interval
<1> QED BY <1>1, <1>2 DEF Id

-----------------------------------------------------------------------------
(* Type correctness *)

\* The type invariant is inductive by itself.
LEMMA TypeInductive == TypeOK /\ [Next]_vars => TypeOK'
<1> SUFFICES ASSUME TypeOK, [Next]_vars PROVE TypeOK'
  OBVIOUS
<1>a. /\ timers \in [Id -> Timer] /\ start \in [User -> 0..MaxUser]
      /\ tick \in [Tick -> Delivery] /\ told \in [Id -> Nat]
      /\ faults \in 0..MaxFaults
  BY DEF TypeOK
<1>b. MaxTimers \in Nat /\ MaxUser \in Nat /\ MaxFaults \in Nat
  BY TimersAssumption
<1>c. IdleDelivery \in Delivery
  BY <1>b DEF IdleDelivery, Delivery
<1>d. Fault => faults' \in 0..MaxFaults
  BY <1>a, <1>b DEF Fault
<1>1. ASSUME NEW u \in User, CreateReads(u) PROVE TypeOK'
  <2>1. PICK slot \in FreeSlots(u) : start' = [start EXCEPT ![u] = slot]
    BY <1>1 DEF CreateReads
  <2>2. slot \in 0..MaxUser
    BY <1>b DEF FreeSlots, Slot
  <2> QED BY <1>1, <1>a, <2>1, <2>2 DEF CreateReads, TypeOK
<1>2. ASSUME NEW u \in User, CreateInserts(u) PROVE TypeOK'
  <2>1. PICK i \in Id : timers' = [timers EXCEPT ![i] =
            [status |-> "active", user |-> u, slot |-> start[u], due |-> FALSE]]
    BY <1>2 DEF CreateInserts
  <2>2. [status |-> "active", user |-> u, slot |-> start[u], due |-> FALSE] \in Timer
    BY <1>a DEF Timer
  <2>3. timers' \in [Id -> Timer]
    BY <1>a, <2>1, <2>2
  <2>4. start' \in [User -> 0..MaxUser]
    BY <1>2, <1>a, <1>b DEF CreateInserts
  <2> QED BY <1>2, <1>a, <2>3, <2>4 DEF CreateInserts, TypeOK
<1>3. ASSUME NEW u \in User, CreateRefused(u) PROVE TypeOK'
  BY <1>3, <1>a, <1>b DEF CreateRefused, TypeOK
<1>4. ASSUME NEW u \in User, NEW slot \in Slot, Stop(u, slot) PROVE TypeOK'
  <2>1. PICK i \in ActiveOf(u) : SetStatus(i, "stopped")
    BY <1>4 DEF Stop, SetStatus
  <2>2. i \in Id
    BY DEF ActiveOf, Active
  <2>3. timers' \in [Id -> Timer]
    BY <2>1, <2>2, SetStatusFacts DEF Status
  <2> QED BY <1>4, <1>a, <2>3 DEF Stop, TypeOK
<1>5. ASSUME NEW i \in Id, BecomesDue(i) PROVE TypeOK'
  <2>1. [timers[i] EXCEPT !.due = TRUE] \in Timer
    BY <1>a DEF Timer
  <2>2. timers' = [timers EXCEPT ![i] = [timers[i] EXCEPT !.due = TRUE]]
    BY <1>5 DEF BecomesDue
  <2>3. timers' \in [Id -> Timer]
    BY <1>a, <2>1, <2>2
  <2> QED BY <1>5, <1>a, <2>3 DEF BecomesDue, TypeOK
<1>6. ASSUME NEW p \in Tick, NEW S \in SUBSET Id, Claim(p, S) PROVE TypeOK'
  <2>1. \A i \in Id : [timers[i] EXCEPT !.status = "delivering"] \in Timer
    BY <1>a DEF Timer
  <2>2. timers' \in [Id -> Timer]
    BY <1>6, <1>a, <2>1 DEF Claim
  <2>3. [pc |-> "next", claimed |-> S, timer |-> 0] \in Delivery
    BY <1>b DEF Delivery
  <2>4. tick' \in [Tick -> Delivery]
    BY <1>6, <1>a, <2>3 DEF Claim
  <2> QED BY <1>6, <1>a, <2>2, <2>4 DEF Claim, TypeOK
<1>7. ASSUME NEW p \in Tick, Notify(p) PROVE TypeOK'
  <2>1. PICK i \in tick[p].claimed :
          /\ tick' = [tick EXCEPT ![p] =
               [pc |-> "notified", claimed |-> tick[p].claimed \ {i}, timer |-> i]]
          /\ told' = [told EXCEPT ![i] = told[i] + 1]
    BY <1>7 DEF Notify
  <2>2. tick[p].claimed \subseteq Id
    BY <1>a DEF Delivery
  <2>3. i \in Id /\ i \in 0..MaxTimers
    BY <2>2, IdFacts
  <2>4. [pc |-> "notified", claimed |-> tick[p].claimed \ {i}, timer |-> i] \in Delivery
    BY <2>2, <2>3 DEF Delivery
  <2>5. tick' \in [Tick -> Delivery]
    BY <1>a, <2>1, <2>4
  <2>6. told' \in [Id -> Nat]
    BY <1>a, <2>1, <2>3
  <2> QED BY <1>7, <1>a, <2>5, <2>6 DEF Notify, TypeOK
<1>8. ASSUME NEW p \in Tick, NEW s \in Status, SetStatus(tick[p].timer, s)
      PROVE  timers' \in [Id -> Timer]
  <2>1. CASE tick[p].timer \in Id
    BY <1>8, <2>1, SetStatusFacts
  <2>2. CASE tick[p].timer \notin Id
    BY <1>8, <1>a, <2>2 DEF SetStatus
  <2> QED BY <2>1, <2>2
<1>9. ASSUME NEW p \in Tick, Complete(p) PROVE TypeOK'
  BY <1>8, <1>9, <1>a, ProceedFacts DEF Complete, TypeOK, Status
<1>10. ASSUME NEW p \in Tick, CompleteThrows(p) PROVE TypeOK'
  <2>1. timers' \in [Id -> Timer]
    BY <1>8, <1>10, <1>a DEF CompleteThrows, Status
  <2>2. [tick[p] EXCEPT !.pc = "failed"] \in Delivery
    BY <1>a DEF Delivery
  <2>3. tick' = [tick EXCEPT ![p] = [tick[p] EXCEPT !.pc = "failed"]]
    BY <1>10 DEF CompleteThrows
  <2>4. tick' \in [Tick -> Delivery]
    BY <1>a, <2>2, <2>3
  <2> QED BY <1>10, <1>a, <1>d, <2>1, <2>4 DEF CompleteThrows, TypeOK
<1>11. ASSUME NEW p \in Tick, Reset(p) PROVE TypeOK'
  <2>1. timers' \in [Id -> Timer]
    BY <1>8, <1>11, <1>a DEF Reset, Status
  <2> QED BY <1>11, <1>a, <2>1, ProceedFacts DEF Reset, TypeOK
<1>12. ASSUME NEW p \in Tick, ResetRefused(p) \/ ResetThrows(p) PROVE TypeOK'
  BY <1>12, <1>a, <1>d, ProceedFacts DEF ResetRefused, ResetThrows, TypeOK
<1>13. ASSUME Crash PROVE TypeOK'
  BY <1>13, <1>a, <1>b, <1>c, <1>d DEF Crash, TypeOK
<1>14. ASSUME UNCHANGED vars PROVE TypeOK'
  BY <1>14 DEF vars, TypeOK
<1> QED
  BY <1>1, <1>2, <1>3, <1>4, <1>5, <1>6, <1>7, <1>9, <1>10, <1>11, <1>12, <1>13, <1>14
  DEF Next, DeliveryStep

\* The type invariant holds initially.
LEMMA TypeInitial == Init => TypeOK
<1>1. MaxTimers \in Nat /\ MaxUser \in Nat /\ MaxFaults \in Nat
  BY TimersAssumption
<1>2. AbsentTimer \in Timer
  BY <1>1 DEF AbsentTimer, Timer
<1>3. IdleDelivery \in Delivery
  BY <1>1 DEF IdleDelivery, Delivery
<1> QED BY <1>1, <1>2, <1>3 DEF Init, TypeOK

-----------------------------------------------------------------------------
(* Deliveries do not share timers *)

\* A step in which deliveries at most let go of timers, and the timers they
\* keep stay as they are or become completed, keeps the deliveries apart.
LEMMA HandsKeep ==
  ASSUME DeliveriesInv, TypeOK',
         \A p \in Tick :
           /\ tick'[p].claimed \subseteq tick[p].claimed
           /\ tick'[p].timer \in {0, tick[p].timer}
           /\ tick'[p].pc \in {"notified", "failed"} => tick'[p].timer # 0
           /\ \A i \in tick'[p].claimed : timers'[i].status = timers[i].status
           /\ tick'[p].timer # 0 =>
                timers'[tick'[p].timer].status \in {timers[tick'[p].timer].status, "completed"}
  PROVE  DeliveriesInv'
<1>1. \A p \in Tick : InHand(p)' \subseteq InHand(p)
  BY DEF InHand
<1>2. ClaimsAreExclusive'
  BY <1>1 DEF DeliveriesInv, ClaimsAreExclusive
<1>3. HeldTimersAreOut'
  BY DEF DeliveriesInv, HeldTimersAreOut
<1> QED BY <1>2, <1>3 DEF DeliveriesInv

\* What is claimed or held by a delivery is "delivering" or completed.
LEMMA HandsAreOut ==
  ASSUME DeliveriesInv, NEW p \in Tick, NEW i \in InHand(p)
  PROVE  i \in Id /\ timers[i].status \in {"delivering", "completed"}
<1>1. tick[p] \in Delivery
  BY DEF DeliveriesInv, TypeOK
<1>2. tick[p].claimed \subseteq Id /\ tick[p].timer \in 0..MaxTimers
  BY <1>1 DEF Delivery
<1> QED BY <1>2, IdFacts DEF InHand, DeliveriesInv, ClaimsAreExclusive, HeldTimersAreOut

\* A step that touches no delivery, and no timer that is in the hands of one,
\* keeps the deliveries apart.
LEMMA CommandsKeepHands ==
  ASSUME DeliveriesInv, TypeOK', tick' = tick,
         \A i \in Id : timers'[i] = timers[i]
                         \/ timers[i].status \notin {"delivering", "completed"}
  PROVE  DeliveriesInv'
<1>1. ASSUME NEW p \in Tick, NEW i \in InHand(p) PROVE timers'[i] = timers[i]
  BY <1>1, HandsAreOut
<1>2. \A p \in Tick : \A i \in tick[p].claimed : timers'[i] = timers[i]
  BY <1>1 DEF InHand
<1>3. \A p \in Tick : tick[p].timer # 0 => timers'[tick[p].timer] = timers[tick[p].timer]
  BY <1>1 DEF InHand
<1> QED BY <1>2, <1>3, HandsKeep DEF DeliveriesInv, HeldTimersAreOut

\* A delivery that lets go of the timer it announced may store its status: no
\* other delivery has that timer, and this one does not have it twice.
LEMMA LettingGoKeepsHands ==
  ASSUME DeliveriesInv, TypeOK', NEW p \in Tick, Proceed(p), tick[p].timer # 0,
         \A i \in Id : i # tick[p].timer => timers'[i] = timers[i]
  PROVE  DeliveriesInv'
<1> DEFINE t == tick[p].timer
<1>1. TypeOK
  BY DEF DeliveriesInv
<1>2. t \in InHand(p) /\ t \notin tick[p].claimed
  BY DEF InHand, DeliveriesInv, HeldTimersAreOut
<1>3. ASSUME NEW q \in Tick, NEW i \in InHand(q), i \in tick'[q].claimed \/ i = tick'[q].timer
      PROVE  timers'[i] = timers[i]
  <2>1. i \in Id
    BY <1>3, HandsAreOut
  <2>2. CASE q = p
    BY <1>1, <1>2, <1>3, <2>1, <2>2, ProceedFacts, IdFacts
  <2>3. CASE q # p
    BY <1>2, <1>3, <2>1, <2>3 DEF DeliveriesInv, ClaimsAreExclusive
  <2> QED BY <2>2, <2>3
<1>4. \A q \in Tick :
        /\ tick'[q].claimed = tick[q].claimed
        /\ tick'[q].timer \in {0, tick[q].timer}
        /\ tick'[q].pc \in {"notified", "failed"} => tick'[q].timer # 0
  <2> TAKE q \in Tick
  <2>1. CASE q = p
    BY <1>1, <2>1, ProceedFacts
  <2>2. CASE q # p
    BY <1>1, <2>2, ProceedFacts DEF DeliveriesInv, HeldTimersAreOut
  <2> QED BY <2>1, <2>2
<1>5. \A q \in Tick :
        /\ \A i \in tick'[q].claimed : timers'[i] = timers[i]
        /\ tick'[q].timer # 0 => timers'[tick'[q].timer] = timers[tick'[q].timer]
  BY <1>3, <1>4 DEF InHand
<1> HIDE DEF t
<1> QED BY <1>4, <1>5, HandsKeep

\* A claim takes timers that no delivery has.
LEMMA ClaimKeepsHands ==
  ASSUME DeliveriesInv, TypeOK', NEW p \in Tick, NEW S \in SUBSET Id, Claim(p, S)
  PROVE  DeliveriesInv'
<1>1. tick \in [Tick -> Delivery] /\ timers \in [Id -> Timer]
  BY DEF DeliveriesInv, TypeOK
<1>2. /\ tick'[p] = [pc |-> "next", claimed |-> S, timer |-> 0]
      /\ \A q \in Tick : q # p => tick'[q] = tick[q]
  BY <1>1 DEF Claim
<1>3. \A i \in S : timers[i].status = "active" /\ timers'[i].status = "delivering"
  <2> TAKE i \in S
  <2>1. timers'[i] = [timers[i] EXCEPT !.status = "delivering"]
    BY DEF Claim
  <2> QED BY <1>1, <2>1 DEF Claim, Due, Active, Timer
<1>4. \A i \in Id : i \notin S => timers'[i] = timers[i]
  BY DEF Claim
<1>5. ASSUME NEW q \in Tick, q # p
      PROVE  InHand(q) \cap S = {} /\ \A i \in InHand(q) : timers'[i] = timers[i]
  BY <1>3, <1>4, HandsAreOut
<1>6. InHand(p)' = S /\ \A q \in Tick : q # p => InHand(q)' = InHand(q)
  BY <1>2 DEF InHand
<1>7. ClaimsAreExclusive'
  <2>1. \A q, r \in Tick : q # r => InHand(q)' \cap InHand(r)' = {}
    BY <1>5, <1>6 DEF DeliveriesInv, ClaimsAreExclusive
  <2>2. ASSUME NEW q \in Tick, NEW i \in Id, i \in tick'[q].claimed
        PROVE  timers'[i].status = "delivering"
    <3>1. CASE q = p
      BY <1>2, <1>3, <2>2, <3>1
    <3>2. CASE q # p
      BY <1>2, <1>5, <2>2, <3>2 DEF InHand, DeliveriesInv, ClaimsAreExclusive
    <3> QED BY <3>1, <3>2
  <2> QED BY <2>1, <2>2 DEF ClaimsAreExclusive
<1>8. HeldTimersAreOut'
  <2> SUFFICES ASSUME NEW q \in Tick
               PROVE  /\ tick'[q].pc \in {"notified", "failed"} => tick'[q].timer # 0
                      /\ tick'[q].timer # 0 =>
                           /\ timers'[tick'[q].timer].status \in {"delivering", "completed"}
                           /\ tick'[q].timer \notin tick'[q].claimed
    BY DEF HeldTimersAreOut
  <2>1. CASE q = p
    BY <1>2, <2>1
  <2>2. CASE q # p
    BY <1>2, <1>5, <2>2 DEF InHand, DeliveriesInv, HeldTimersAreOut
  <2> QED BY <2>1, <2>2
<1> QED BY <1>7, <1>8 DEF DeliveriesInv

\* A delivery announces a timer it has claimed.
LEMMA NotifyKeepsHands ==
  ASSUME DeliveriesInv, TypeOK', NEW p \in Tick, Notify(p)
  PROVE  DeliveriesInv'
<1>1. tick \in [Tick -> Delivery]
  BY DEF DeliveriesInv, TypeOK
<1>2. PICK i \in tick[p].claimed :
        tick' = [tick EXCEPT ![p] =
          [pc |-> "notified", claimed |-> tick[p].claimed \ {i}, timer |-> i]]
  BY DEF Notify
<1>3. /\ tick'[p] = [pc |-> "notified", claimed |-> tick[p].claimed \ {i}, timer |-> i]
      /\ \A q \in Tick : q # p => tick'[q] = tick[q]
  BY <1>1, <1>2
<1>4. i \in Id /\ i # 0 /\ timers' = timers /\ timers[i].status = "delivering"
  BY <1>1, IdFacts DEF Delivery, Notify, DeliveriesInv, ClaimsAreExclusive
<1>5. \A q \in Tick : InHand(q)' \subseteq InHand(q) /\ tick'[q].claimed \subseteq tick[q].claimed
  <2> TAKE q \in Tick
  <2>1. CASE q = p
    BY <1>3, <2>1 DEF InHand
  <2>2. CASE q # p
    BY <1>3, <2>2 DEF InHand
  <2> QED BY <2>1, <2>2
<1>6. ClaimsAreExclusive'
  BY <1>4, <1>5 DEF DeliveriesInv, ClaimsAreExclusive
<1>7. HeldTimersAreOut'
  BY <1>3, <1>4 DEF DeliveriesInv, HeldTimersAreOut
<1> QED BY <1>6, <1>7 DEF DeliveriesInv

\* No step lets two deliveries have a timer.
LEMMA DeliveriesInductive == DeliveriesInv /\ [Next]_vars => DeliveriesInv'
<1> SUFFICES ASSUME DeliveriesInv, [Next]_vars PROVE DeliveriesInv'
  OBVIOUS
<1>a. TypeOK /\ TypeOK'
  BY TypeInductive DEF DeliveriesInv
<1>b. timers \in [Id -> Timer] /\ tick \in [Tick -> Delivery]
  BY <1>a DEF TypeOK
<1>1. ASSUME NEW u \in User, CreateReads(u) \/ CreateRefused(u) PROVE DeliveriesInv'
  BY <1>a, <1>1, CommandsKeepHands DEF CreateReads, CreateRefused
<1>2. ASSUME NEW u \in User, CreateInserts(u) PROVE DeliveriesInv'
  <2>1. PICK i \in Id :
          /\ timers[i].status = "absent"
          /\ timers' = [timers EXCEPT ![i] =
               [status |-> "active", user |-> u, slot |-> start[u], due |-> FALSE]]
    BY <1>2 DEF CreateInserts
  <2>2. \A j \in Id : j # i => timers'[j] = timers[j]
    BY <1>b, <2>1
  <2> QED BY <1>a, <1>2, <2>1, <2>2, CommandsKeepHands DEF CreateInserts
<1>3. ASSUME NEW u \in User, NEW slot \in Slot, Stop(u, slot) PROVE DeliveriesInv'
  <2>1. PICK i \in ActiveOf(u) : SetStatus(i, "stopped")
    BY <1>3 DEF Stop, SetStatus
  <2>2. i \in Id /\ timers[i].status = "active"
    BY DEF ActiveOf, Active
  <2>3. \A j \in Id : j # i => timers'[j] = timers[j]
    BY <1>a, <2>1, <2>2, SetStatusFacts DEF Status
  <2> QED BY <1>a, <1>3, <2>2, <2>3, CommandsKeepHands DEF Stop
<1>4. ASSUME NEW i \in Id, BecomesDue(i) PROVE DeliveriesInv'
  <2>1. timers[i].status = "active" /\ \A j \in Id : j # i => timers'[j] = timers[j]
    BY <1>b, <1>4 DEF BecomesDue
  <2> QED BY <1>a, <1>4, <2>1, CommandsKeepHands DEF BecomesDue
<1>5. ASSUME NEW p \in Tick, NEW S \in SUBSET Id, Claim(p, S) PROVE DeliveriesInv'
  BY <1>a, <1>5, ClaimKeepsHands
<1>6. ASSUME NEW p \in Tick, Notify(p) PROVE DeliveriesInv'
  BY <1>a, <1>6, NotifyKeepsHands
<1>7. ASSUME NEW p \in Tick, tick[p].pc \in {"notified", "failed"}
      PROVE  tick[p].timer \in Id
  BY <1>b, <1>7, HandsAreOut DEF InHand, DeliveriesInv, HeldTimersAreOut
<1>8. ASSUME NEW p \in Tick, NEW s \in Status, tick[p].timer \in Id,
             SetStatus(tick[p].timer, s)
      PROVE  /\ \A i \in Id : i # tick[p].timer => timers'[i] = timers[i]
             /\ timers'[tick[p].timer].status = s
  BY <1>a, <1>8, SetStatusFacts
<1>9. ASSUME NEW p \in Tick, Complete(p) PROVE DeliveriesInv'
  BY <1>a, <1>7, <1>8, <1>9, IdFacts, LettingGoKeepsHands DEF Complete, Status
<1>10. ASSUME NEW p \in Tick, CompleteThrows(p) PROVE DeliveriesInv'
  <2> DEFINE t == tick[p].timer
  <2>1. t \in Id /\ t # 0
    BY <1>7, <1>10, IdFacts DEF CompleteThrows
  <2>2. \A i \in Id : timers'[i] = timers[i] \/ (i = t /\ timers'[i].status = "completed")
    BY <1>8, <1>10, <2>1 DEF CompleteThrows, Status
  <2>3. /\ tick'[p].claimed = tick[p].claimed /\ tick'[p].timer = t
        /\ \A q \in Tick : q # p => tick'[q] = tick[q]
    BY <1>b, <1>10 DEF CompleteThrows, Delivery
  <2>4. \A q \in Tick : tick'[q].claimed = tick[q].claimed /\ tick'[q].timer = tick[q].timer
    BY <2>3
  <2>5. ASSUME NEW q \in Tick, NEW i \in tick[q].claimed PROVE timers'[i] = timers[i]
    <3>1. i \in Id /\ i # t
      BY <1>b, <2>1 DEF Delivery, InHand, DeliveriesInv, ClaimsAreExclusive,
         HeldTimersAreOut
    <3> QED BY <2>2, <3>1
  <2>6. \A q \in Tick : tick[q].timer # 0 =>
          timers'[tick[q].timer].status \in {timers[tick[q].timer].status, "completed"}
    <3> SUFFICES ASSUME NEW q \in Tick, tick[q].timer # 0
                 PROVE  timers'[tick[q].timer].status
                          \in {timers[tick[q].timer].status, "completed"}
      OBVIOUS
    <3>1. tick[q].timer \in Id
      BY HandsAreOut DEF InHand
    <3> QED BY <2>2, <3>1
  <2>7. \A q \in Tick : tick'[q].pc \in {"notified", "failed"} => tick'[q].timer # 0
    <3> TAKE q \in Tick
    <3>1. CASE q = p
      BY <2>1, <2>3, <3>1
    <3>2. CASE q # p
      BY <2>3, <3>2 DEF DeliveriesInv, HeldTimersAreOut
    <3> QED BY <3>1, <3>2
  <2> HIDE DEF t
  <2> QED BY <1>a, <2>4, <2>5, <2>6, <2>7, HandsKeep
<1>11. ASSUME NEW p \in Tick, Reset(p) PROVE DeliveriesInv'
  BY <1>a, <1>7, <1>8, <1>11, IdFacts, LettingGoKeepsHands DEF Reset, Status
<1>12. ASSUME NEW p \in Tick, ResetRefused(p) \/ ResetThrows(p) PROVE DeliveriesInv'
  BY <1>a, <1>7, <1>12, IdFacts, LettingGoKeepsHands DEF ResetRefused, ResetThrows
<1>13. ASSUME Crash PROVE DeliveriesInv'
  BY <1>a, <1>13, HandsKeep DEF Crash, IdleDelivery
<1>14. ASSUME UNCHANGED vars PROVE DeliveriesInv'
  BY <1>a, <1>14, CommandsKeepHands DEF vars
<1> QED
  BY <1>1, <1>2, <1>3, <1>4, <1>5, <1>6, <1>9, <1>10, <1>11, <1>12, <1>13, <1>14
  DEF Next, DeliveryStep

\* The invariant on deliveries holds in every reachable state.
LEMMA DeliveriesHold == Spec => []DeliveriesInv
<1>1. Init => DeliveriesInv
  BY TypeInitial DEF Init, DeliveriesInv, ClaimsAreExclusive, HeldTimersAreOut, InHand,
     IdleDelivery
<1> QED BY <1>1, DeliveriesInductive, PTL DEF Spec

\* Whatever the ticks, statements that fail and crashes do: no two deliveries
\* work on the same timer, and a claimed timer is out of reach of the commands.
THEOREM DeliveriesStayApart == Spec => []ClaimsAreExclusive
<1>1. DeliveriesInv => ClaimsAreExclusive
  BY DEF DeliveriesInv
<1> QED BY <1>1, DeliveriesHold, PTL

\* A completed timer is never started or announced again: whoever could change
\* it has it in hand, and a reset only touches what is still being delivered.
THEOREM CompletedStayCompleted == Spec => CompletedIsFinal
<1>1. ASSUME DeliveriesInv, [Next]_vars, NEW i \in Id, timers[i].status = "completed"
      PROVE  timers'[i] = timers[i] /\ told'[i] = told[i]
  <2>a. /\ timers \in [Id -> Timer] /\ tick \in [Tick -> Delivery] /\ told \in [Id -> Nat]
        /\ TypeOK
    BY <1>1 DEF DeliveriesInv, TypeOK
  <2>b. ASSUME NEW j, SetStatus(j, "completed") PROVE timers'[i] = timers[i]
    <3>1. CASE j = i
      <4>1. timers'[i] = [timers[i] EXCEPT !.status = "completed"]
        BY <2>a, <2>b, <3>1 DEF SetStatus
      <4> QED BY <1>1, <2>a, <4>1 DEF Timer
    <3>2. CASE j # i
      BY <2>a, <2>b, <3>2 DEF SetStatus
    <3> QED BY <3>1, <3>2
  <2>1. ASSUME NEW u \in User, CreateReads(u) \/ CreateRefused(u)
        PROVE  timers'[i] = timers[i] /\ told'[i] = told[i]
    BY <2>1 DEF CreateReads, CreateRefused
  <2>2. ASSUME NEW u \in User, CreateInserts(u)
        PROVE  timers'[i] = timers[i] /\ told'[i] = told[i]
    BY <1>1, <2>2, <2>a DEF CreateInserts
  <2>3. ASSUME NEW u \in User, NEW slot \in Slot, Stop(u, slot)
        PROVE  timers'[i] = timers[i] /\ told'[i] = told[i]
    BY <1>1, <2>3, <2>a DEF Stop, ActiveOf, Active
  <2>4. ASSUME NEW j \in Id, BecomesDue(j)
        PROVE  timers'[i] = timers[i] /\ told'[i] = told[i]
    BY <1>1, <2>4, <2>a DEF BecomesDue
  <2>5. ASSUME NEW p \in Tick, NEW S \in SUBSET Id, Claim(p, S)
        PROVE  timers'[i] = timers[i] /\ told'[i] = told[i]
    BY <1>1, <2>5, <2>a DEF Claim, Due, Active
  <2>6. ASSUME NEW p \in Tick, Notify(p)
        PROVE  timers'[i] = timers[i] /\ told'[i] = told[i]
    <3>1. i \notin tick[p].claimed
      BY <1>1 DEF DeliveriesInv, ClaimsAreExclusive
    <3> QED BY <2>6, <2>a, <3>1 DEF Notify
  <2>7. ASSUME NEW p \in Tick, Complete(p) \/ CompleteThrows(p)
        PROVE  timers'[i] = timers[i] /\ told'[i] = told[i]
    BY <2>7, <2>b DEF Complete, CompleteThrows
  <2>8. ASSUME NEW p \in Tick, Reset(p)
        PROVE  timers'[i] = timers[i] /\ told'[i] = told[i]
    BY <1>1, <2>8, <2>a DEF Reset, Resettable, SetStatus
  <2>9. ASSUME NEW p \in Tick, ResetRefused(p) \/ ResetThrows(p)
        PROVE  timers'[i] = timers[i] /\ told'[i] = told[i]
    BY <2>9 DEF ResetRefused, ResetThrows
  <2>10. CASE Crash \/ UNCHANGED vars
    BY <2>10 DEF Crash, vars
  <2> QED
    BY <1>1, <2>1, <2>2, <2>3, <2>4, <2>5, <2>6, <2>7, <2>8, <2>9, <2>10
    DEF Next, DeliveryStep
<1>2. DeliveriesInv /\ [Next]_vars =>
        [\A i \in Id : timers[i].status = "completed" =>
           timers'[i] = timers[i] /\ told'[i] = told[i]]_vars
  BY <1>1
<1> QED BY <1>2, DeliveriesHold, PTL DEF Spec, CompletedIsFinal

-----------------------------------------------------------------------------
(* The limits *)

\* A step that starts no timer: rows keep their owner and slot, and no row
\* becomes active or vanishes.
RowsShrink ==
  \A i \in Id :
    /\ timers'[i].user = timers[i].user /\ timers'[i].slot = timers[i].slot
    /\ timers'[i].status = "active" => timers[i].status = "active"
    /\ timers'[i].status # "absent" => timers[i].status # "absent"

\* Timers become active by an INSERT or by a reset, and not otherwise.
LEMMA WhatStartsTimers ==
  ASSUME DeliveriesInv, [Next]_vars
  PROVE  \/ RowsShrink
         \/ \E u \in User : CreateInserts(u)
         \/ \E p \in Tick : /\ Reset(p) /\ Resettable(tick[p].timer)
                            /\ tick[p].timer \in Id
<1>a. TypeOK /\ timers \in [Id -> Timer]
  BY DEF DeliveriesInv, TypeOK
<1>b. UNCHANGED timers => RowsShrink
  BY DEF RowsShrink
<1>c. ASSUME NEW i \in Id, NEW s \in {"stopped", "completed"}, SetStatus(i, s),
             timers[i].status # "absent"
      PROVE  RowsShrink
  <2>1. /\ \A j \in Id : j # i => timers'[j] = timers[j]
        /\ timers'[i].status = s
        /\ timers'[i].user = timers[i].user /\ timers'[i].slot = timers[i].slot
    BY <1>a, <1>c, SetStatusFacts DEF Status
  <2> QED BY <1>c, <2>1 DEF RowsShrink
<1>d. ASSUME NEW p \in Tick, tick[p].pc \in {"notified", "failed"}
      PROVE  tick[p].timer \in Id /\ timers[tick[p].timer].status # "absent"
  BY <1>d, HandsAreOut DEF InHand, DeliveriesInv, HeldTimersAreOut
<1>1. ASSUME NEW u \in User, CreateReads(u) \/ CreateRefused(u) PROVE RowsShrink
  BY <1>1, <1>b DEF CreateReads, CreateRefused
<1>2. ASSUME NEW u \in User, NEW slot \in Slot, Stop(u, slot) PROVE RowsShrink
  BY <1>2, <1>c DEF Stop, SetStatus, ActiveOf, Active
<1>3. ASSUME NEW i \in Id, BecomesDue(i) PROVE RowsShrink
  <2>1. /\ timers'[i] = [timers[i] EXCEPT !.due = TRUE]
        /\ \A j \in Id : j # i => timers'[j] = timers[j]
    BY <1>a, <1>3 DEF BecomesDue
  <2> QED BY <1>a, <2>1 DEF RowsShrink, Timer
<1>4. ASSUME NEW p \in Tick, NEW S \in SUBSET Id, Claim(p, S) PROVE RowsShrink
  <2>1. \A i \in Id : \/ timers'[i] = timers[i]
                      \/ /\ timers'[i] = [timers[i] EXCEPT !.status = "delivering"]
                         /\ timers[i].status = "active"
    BY <1>4 DEF Claim, Due, Active
  <2> QED BY <1>a, <2>1 DEF RowsShrink, Timer
<1>5. ASSUME NEW p \in Tick, Notify(p) \/ ResetRefused(p) \/ ResetThrows(p) PROVE RowsShrink
  BY <1>5, <1>b DEF Notify, ResetRefused, ResetThrows
<1>6. ASSUME NEW p \in Tick, Complete(p) \/ CompleteThrows(p) PROVE RowsShrink
  BY <1>6, <1>b, <1>c, <1>d DEF Complete, CompleteThrows
<1>7. ASSUME NEW p \in Tick, Reset(p)
      PROVE  RowsShrink \/ (Resettable(tick[p].timer) /\ tick[p].timer \in Id)
  BY <1>7, <1>b, <1>d DEF Reset
<1>8. CASE Crash \/ UNCHANGED vars
  BY <1>8, <1>b DEF Crash, vars
<1> QED
  BY <1>1, <1>2, <1>3, <1>4, <1>5, <1>6, <1>7, <1>8 DEF Next, DeliveryStep

\* The INSERT starts one timer, on a slot its member does not use.
LEMMA InsertFacts ==
  ASSUME TypeOK, NEW u \in User, CreateInserts(u)
  PROVE  \E i \in Id :
           /\ timers[i].status = "absent"
           /\ timers'[i].status = "active"
           /\ timers'[i].user = u /\ timers'[i].slot \in FreeSlots(u)
           /\ \A j \in Id : j # i => timers'[j] = timers[j]
<1>1. PICK i \in Id :
        /\ timers[i].status = "absent"
        /\ timers' = [timers EXCEPT ![i] =
             [status |-> "active", user |-> u, slot |-> start[u], due |-> FALSE]]
  BY DEF CreateInserts
<1>2. timers \in [Id -> Timer] /\ start[u] \in FreeSlots(u)
  BY DEF TypeOK, CreateInserts, SlotTaken
<1> QED BY <1>1, <1>2

\* A reset brings one timer back, to a slot its member does not use.
LEMMA ResetFacts ==
  ASSUME DeliveriesInv, NEW p \in Tick, Reset(p), Resettable(tick[p].timer),
         tick[p].timer \in Id
  PROVE  LET i == tick[p].timer
         IN  /\ timers[i].status = "delivering"
             /\ timers'[i].status = "active"
             /\ timers'[i].user = timers[i].user /\ timers'[i].slot = timers[i].slot
             /\ timers[i].slot \in FreeSlots(timers[i].user)
             /\ \A j \in Id : j # i => timers'[j] = timers[j]
<1>1. SetStatus(tick[p].timer, "active") /\ TypeOK
  BY DEF Reset, DeliveriesInv
<1> QED BY <1>1, SetStatusFacts DEF Status, Reset, Resettable, SlotTaken

\* Starting timer i for a member, on one of the member's free slots, keeps the
\* slots apart.
LEMMA StartKeepsSlots ==
  ASSUME RowsAreOwned, SlotsAreDistinct, NEW i \in Id, timers[i].status # "active",
         timers'[i].user \in User, timers'[i].slot \in FreeSlots(timers'[i].user),
         \A j \in Id : j # i => timers'[j] = timers[j]
  PROVE  RowsAreOwned' /\ SlotsAreDistinct'
<1>1. RowsAreOwned'
  BY DEF RowsAreOwned, FreeSlots
<1>2. ASSUME NEW j \in Id, NEW k \in Id, j # k,
             timers'[j].status = "active", timers'[k].status = "active",
             timers'[j].user = timers'[k].user, timers'[j].slot = timers'[k].slot
      PROVE  FALSE
  <2>1. CASE j # i /\ k # i
    BY <1>2, <2>1 DEF SlotsAreDistinct, Active
  <2>2. CASE j = i \/ k = i
    BY <1>2, <2>2 DEF FreeSlots, ActiveOf, Active
  <2> QED BY <2>1, <2>2
<1> QED BY <1>1, <1>2 DEF SlotsAreDistinct, Active

\* No step makes two active timers of a member share a slot.
LEMMA SlotsInductive ==
  ASSUME DeliveriesInv, RowsAreOwned, SlotsAreDistinct, [Next]_vars
  PROVE  RowsAreOwned' /\ SlotsAreDistinct'
<1>1. CASE RowsShrink
  BY <1>1 DEF RowsShrink, RowsAreOwned, SlotsAreDistinct, Active
<1>2. ASSUME NEW u \in User, CreateInserts(u) PROVE RowsAreOwned' /\ SlotsAreDistinct'
  BY <1>2, InsertFacts, StartKeepsSlots DEF DeliveriesInv
<1>3. ASSUME NEW p \in Tick, Reset(p), Resettable(tick[p].timer), tick[p].timer \in Id
      PROVE  RowsAreOwned' /\ SlotsAreDistinct'
  <2>1. timers[tick[p].timer].user \in User
    BY <1>3 DEF RowsAreOwned, Resettable
  <2> QED BY <1>3, <2>1, ResetFacts, StartKeepsSlots
<1> QED BY <1>1, <1>2, <1>3, WhatStartsTimers

\* Distinct slots bound a member's active timers by the number of slots.
LEMMA SlotsBoundTimers ==
  ASSUME RowsAreOwned, SlotsAreDistinct
  PROVE  UserSlotsHold
<1> SUFFICES ASSUME NEW u \in User PROVE Cardinality(ActiveOf(u)) <= MaxUser
  BY DEF UserSlotsHold, SlotsAreDistinct, ActiveOf
<1> DEFINE slotOf == [i \in ActiveOf(u) |-> timers[i].slot]
<1>1. slotOf \in [ActiveOf(u) -> Slot]
  BY DEF RowsAreOwned, ActiveOf, Active
<1>2. \A i, j \in ActiveOf(u) : slotOf[i] = slotOf[j] => i = j
  BY DEF SlotsAreDistinct, ActiveOf
<1>3. slotOf \in Injection(ActiveOf(u), Slot)
  BY <1>1, <1>2 DEF Injection, IsInjective
<1>4. IsFiniteSet(Slot) /\ Cardinality(Slot) = MaxUser
  BY TimersAssumption, FS_Interval DEF Slot
<1> HIDE DEF slotOf
<1> QED BY <1>3, <1>4, FS_Injection

\* The active timers are finitely many, and not more after a step that starts
\* none.
LEMMA ActiveIsFinite ==
  /\ IsFiniteSet(Active) /\ Cardinality(Active) \in Nat
  /\ IsFiniteSet(Active') /\ Cardinality(Active') \in Nat
  /\ RowsShrink => Cardinality(Active') <= Cardinality(Active)
<1>1. Active \subseteq Id /\ Active' \subseteq Id
  BY DEF Active
<1>2. IsFiniteSet(Active) /\ IsFiniteSet(Active')
  BY <1>1, IdFacts, FS_Subset
<1>3. RowsShrink => Active' \subseteq Active
  BY DEF RowsShrink, Active
<1> QED BY <1>2, <1>3, FS_Subset, FS_CardinalityType

\* Whoever is inside createStationTimer stays alone there with room in the
\* guild, as long as nothing fails; and the guild's limit holds.
LEMMA RoomInductive ==
  ASSUME DeliveriesInv, RoomIsKept, GuildCapHolds, [Next]_vars
  PROVE  RoomIsKept' /\ GuildCapHolds'
<1> DEFINE OneInside == \A u, v \in User : start[u] # 0 /\ start[v] # 0 => u = v
           NoneFailed == \A p \in Tick : tick[p].pc # "failed"
           Room == \A u \in User : start[u] # 0 => Cardinality(Active) < MaxGuild
<1>a. /\ TypeOK /\ faults \in Nat /\ MaxGuild \in Nat
      /\ start \in [User -> 0..MaxUser] /\ tick \in [Tick -> Delivery]
  BY TimersAssumption DEF DeliveriesInv, TypeOK
<1>b. Cardinality(Active) \in Nat /\ Cardinality(Active') \in Nat
  BY ActiveIsFinite
<1>c. SUFFICES /\ OneInside'
               /\ faults' = 0 => NoneFailed' /\ Room' /\ Cardinality(Active') <= MaxGuild
  BY DEF RoomIsKept, GuildCapHolds
<1>d. /\ OneInside
      /\ faults = 0 => NoneFailed /\ Room /\ Cardinality(Active) <= MaxGuild
  BY DEF RoomIsKept, GuildCapHolds
\* A step that starts nothing and lets nobody in, without a fault
<1>e. ASSUME RowsShrink, faults' = faults, \A u \in User : start'[u] \in {0, start[u]},
             faults = 0 => NoneFailed'
      PROVE  /\ OneInside'
             /\ faults' = 0 => NoneFailed' /\ Room' /\ Cardinality(Active') <= MaxGuild
  <2>1. Cardinality(Active') <= Cardinality(Active)
    BY <1>e, ActiveIsFinite
  <2> QED BY <1>a, <1>b, <1>d, <1>e, <2>1
<1>f. UNCHANGED timers => RowsShrink
  BY DEF RowsShrink
<1>g. \A p \in Tick : Proceed(p) /\ NoneFailed => NoneFailed'
  <2> SUFFICES ASSUME NEW p \in Tick, Proceed(p), NoneFailed, NEW q \in Tick
               PROVE  tick'[q].pc # "failed"
    OBVIOUS
  <2>1. CASE q = p
    BY <1>a, <2>1, ProceedFacts
  <2>2. CASE q # p
    BY <1>a, <2>2, ProceedFacts
  <2> QED BY <2>1, <2>2
\* Any other step that lets nobody in
<1>h. ASSUME RowsShrink, faults' = faults, start' = start, faults = 0 => NoneFailed'
      PROVE  /\ OneInside'
             /\ faults' = 0 => NoneFailed' /\ Room' /\ Cardinality(Active') <= MaxGuild
  BY <1>e, <1>h
<1>i. ASSUME faults' = faults + 1, \A u \in User : start'[u] \in {0, start[u]}
      PROVE  /\ OneInside'
             /\ faults' = 0 => NoneFailed' /\ Room' /\ Cardinality(Active') <= MaxGuild
  BY <1>a, <1>d, <1>i
<1>1. ASSUME NEW u \in User, CreateReads(u)
      PROVE  /\ OneInside'
             /\ faults' = 0 => NoneFailed' /\ Room' /\ Cardinality(Active') <= MaxGuild
  <2>1. \A v \in User : v # u => start'[v] = 0
    BY <1>1, <1>a DEF CreateReads, GuildFree
  <2>2. /\ Active' = Active /\ faults' = faults /\ tick' = tick
        /\ Cardinality(Active) < MaxGuild
    BY <1>1 DEF CreateReads, Active
  <2> QED BY <1>a, <1>b, <1>d, <2>1, <2>2
<1>2. ASSUME NEW u \in User, CreateInserts(u)
      PROVE  /\ OneInside'
             /\ faults' = 0 => NoneFailed' /\ Room' /\ Cardinality(Active') <= MaxGuild
  <2>1. \A v \in User : start'[v] = 0
    BY <1>2, <1>a, <1>d DEF CreateInserts
  <2>2. PICK i \in Id : /\ timers'[i].status = "active"
                        /\ \A j \in Id : j # i => timers'[j] = timers[j]
    BY <1>2, <1>a, InsertFacts
  <2>3. Active' \subseteq Active \cup {i}
    BY <2>2 DEF Active
  <2>4. IsFiniteSet(Active \cup {i}) /\ Cardinality(Active \cup {i}) <= Cardinality(Active) + 1
    <3>1. IsFiniteSet(Active)
      BY ActiveIsFinite
    <3>2. \/ Cardinality(Active \cup {i}) = Cardinality(Active)
          \/ Cardinality(Active \cup {i}) = Cardinality(Active) + 1
      BY <3>1, FS_AddElement
    <3>3. IsFiniteSet(Active \cup {i})
      BY <3>1, FS_AddElement
    <3> QED BY <1>b, <3>2, <3>3
  <2>5. Cardinality(Active') <= Cardinality(Active \cup {i})
    BY <2>3, <2>4, FS_Subset
  <2>6. Cardinality(Active \cup {i}) \in Nat
    BY <2>4, FS_CardinalityType
  <2>7. Cardinality(Active') <= Cardinality(Active) + 1
    BY <1>b, <2>4, <2>5, <2>6
  <2>8. faults' = faults /\ tick' = tick /\ start[u] # 0
    BY <1>2 DEF CreateInserts
  <2> QED BY <1>a, <1>b, <1>d, <2>1, <2>7, <2>8
<1>3. ASSUME NEW p \in Tick, Reset(p), Resettable(tick[p].timer)
      PROVE  /\ OneInside'
             /\ faults' = 0 => NoneFailed' /\ Room' /\ Cardinality(Active') <= MaxGuild
  BY <1>3, <1>d DEF Reset
<1>4. ASSUME RowsShrink
      PROVE  /\ OneInside'
             /\ faults' = 0 => NoneFailed' /\ Room' /\ Cardinality(Active') <= MaxGuild
  <2> USE <1>4
  <2>1. ASSUME NEW u \in User, CreateRefused(u)
        PROVE  /\ OneInside'
               /\ faults' = 0 => NoneFailed' /\ Room' /\ Cardinality(Active') <= MaxGuild
    BY <1>a, <1>d, <1>e, <2>1 DEF CreateRefused
  <2>2. ASSUME NEW u \in User, NEW slot \in Slot, Stop(u, slot)
        PROVE  faults' = faults /\ start' = start /\ tick' = tick
    BY <2>2 DEF Stop
  <2>3. ASSUME NEW i \in Id, BecomesDue(i)
        PROVE  faults' = faults /\ start' = start /\ tick' = tick
    BY <2>3 DEF BecomesDue
  <2>4. ASSUME NEW p \in Tick, NEW S \in SUBSET Id, Claim(p, S)
        PROVE  faults' = faults /\ start' = start /\ (faults = 0 => NoneFailed')
    BY <2>4, <1>a, <1>d DEF Claim
  <2>5. ASSUME NEW p \in Tick, Notify(p)
        PROVE  faults' = faults /\ start' = start /\ (faults = 0 => NoneFailed')
    BY <2>5, <1>a, <1>d DEF Notify
  <2>6. ASSUME NEW p \in Tick, Complete(p) \/ Reset(p) \/ ResetRefused(p)
        PROVE  faults' = faults /\ start' = start /\ (faults = 0 => NoneFailed')
    BY <2>6, <1>d, <1>g DEF Complete, Reset, ResetRefused
  <2>7. ASSUME NEW p \in Tick, CompleteThrows(p) \/ ResetThrows(p)
        PROVE  faults' = faults + 1 /\ start' = start
    BY <2>7 DEF CompleteThrows, ResetThrows, Fault
  <2>8. ASSUME Crash
        PROVE  faults' = faults + 1 /\ \A u \in User : start'[u] = 0
    BY <2>8 DEF Crash, Fault
  <2>9. ASSUME UNCHANGED vars
        PROVE  faults' = faults /\ start' = start /\ tick' = tick
    BY <2>9 DEF vars
  <2> QED
    BY <1>1, <1>2, <1>d, <1>h, <1>i, <2>1, <2>2, <2>3, <2>4, <2>5, <2>6, <2>7, <2>8,
       <2>9
    DEF Next, DeliveryStep
<1> HIDE DEF OneInside, NoneFailed, Room
<1> QED BY <1>2, <1>3, <1>4, WhatStartsTimers

\* The inductive invariant holds in every reachable state.
LEMMA TimersInv == Spec => []IInv
<1>1. Init => IInv
  <2> SUFFICES ASSUME Init PROVE IInv
    OBVIOUS
  <2>1. Active = {} /\ Cardinality(Active) = 0 /\ MaxGuild \in Nat
    BY FS_EmptySet, TimersAssumption DEF Init, AbsentTimer, Active
  <2>2. DeliveriesInv
    BY TypeInitial DEF Init, DeliveriesInv, ClaimsAreExclusive, HeldTimersAreOut,
       InHand,
       IdleDelivery
  <2> QED BY <2>1, <2>2 DEF Init, IInv, AbsentTimer, IdleDelivery, RowsAreOwned,
              SlotsAreDistinct, RoomIsKept, GuildCapHolds
<1>2. IInv /\ [Next]_vars => IInv'
  BY DeliveriesInductive, SlotsInductive, RoomInductive DEF IInv
<1> QED BY <1>1, <1>2, PTL DEF Spec

\* Both limits on active timers hold: a member's through any resets, because a
\* reset needs a free slot; the guild's as long as no statement has failed.
THEOREM TimerLimitsHold == Spec => []LimitsHold
<1>1. IInv => LimitsHold
  BY SlotsBoundTimers DEF IInv, LimitsHold
<1> QED BY <1>1, TimersInv, PTL

-----------------------------------------------------------------------------
(* The executive hangar.  Quotients and remainders                         *)

\* The law of division
LEMMA Division ==
  ASSUME NEW x \in Int, NEW n \in Nat \ {0}
  PROVE  /\ x \div n \in Int
         /\ x % n \in 0..n-1
         /\ x = n * (x \div n) + (x % n)
  OBVIOUS

\* A multiple of n strictly between -n and n is zero.
LEMMA SmallMultiple ==
  ASSUME NEW k \in Int, NEW n \in Nat \ {0}, k * n < n, k * n > -n
  PROVE  k = 0
<1>1. k >= 1 => k * n >= n
  OBVIOUS
<1>2. k <= -1 => k * n <= -n
  OBVIOUS
<1> QED BY <1>1, <1>2

\* A number lies in one cycle only.
LEMMA OneCycle ==
  ASSUME NEW n \in Nat \ {0}, NEW j \in Int, NEW k \in Int,
         NEW r \in 0..n-1, NEW s \in 0..n-1,
         n * j + r = n * k + s
  PROVE  j = k /\ r = s
<1>1. (j - k) * n = s - r
  <2>1. (j - k) * n = n * j - n * k
    OBVIOUS
  <2> QED BY <2>1
<1>2. (j - k) * n < n /\ (j - k) * n > -n
  BY <1>1
<1> DEFINE d == j - k
<1>3. d \in Int /\ d * n < n /\ d * n > -n
  BY <1>2
<1> HIDE DEF d
<1>4. d = 0
  BY <1>3, SmallMultiple
<1>5. j = k
  BY <1>4 DEF d
<1> QED BY <1>5

\* The remainder is the place within the cycle.
LEMMA Remainder ==
  ASSUME NEW n \in Nat \ {0}, NEW k \in Int, NEW r \in 0..n-1
  PROVE  (n * k + r) % n = r
<1> DEFINE x == n * k + r
<1>1. x \in Int
  OBVIOUS
<1> HIDE DEF x
<1> DEFINE q == x \div n
           s == x % n
<1>2. q \in Int /\ s \in 0..n-1 /\ x = n * q + s
  BY <1>1, Division
<1> HIDE DEF q, s
<1>3. n * k + r = n * q + s
  BY <1>2 DEF x
<1>4. r = s
  BY <1>2, <1>3, OneCycle
<1> QED BY <1>4 DEF s, x

\* The site's two remainders come to one, also before its epoch.
LEMMA Normalized ==
  ASSUME NEW n \in Nat \ {0}, NEW k \in Int, NEW r \in 0..n-1
  PROVE  Hangar!Rem(Hangar!Rem(n * k + r, n) + n, n) = r
<1> DEFINE x == n * k + r
<1>1. x \in Int
  OBVIOUS
<1>2. CASE x >= 0
  <2>1. Hangar!Rem(x, n) = r
    BY <1>2, Remainder DEF Hangar!Rem
  <2>2. r + n = n * 1 + r
    OBVIOUS
  <2>3. Hangar!Rem(r + n, n) = r
    BY <2>2, Remainder DEF Hangar!Rem
  <2> QED BY <2>1, <2>3
<1>3. CASE x < 0 /\ r = 0
  <2>1. -x = n * (-k) + 0
    BY <1>3
  <2>2. (-x) % n = 0
    BY <2>1, Remainder
  <2>3. Hangar!Rem(x, n) = 0
    BY <1>1, <1>3, <2>2 DEF Hangar!Rem
  <2>4. 0 + n = n * 1 + 0
    OBVIOUS
  <2>5. Hangar!Rem(0 + n, n) = 0
    BY <2>4, Remainder DEF Hangar!Rem
  <2> QED BY <2>3, <2>5, <1>3
<1>4. CASE x < 0 /\ r # 0
  <2>1. -x = n * (-k - 1) + (n - r)
    <3>1. n * (-k - 1) = -(n * k) - n
      OBVIOUS
    <3> QED BY <3>1
  <2>2. (-x) % n = n - r
    <3>1. n - r \in 0..n-1 /\ -k - 1 \in Int
      BY <1>4
    <3> QED BY <2>1, <3>1, Remainder
  <2>3. Hangar!Rem(x, n) = -(n - r)
    BY <1>1, <1>4, <2>2 DEF Hangar!Rem
  <2>4. -(n - r) + n = n * 0 + r
    OBVIOUS
  <2>5. Hangar!Rem(-(n - r) + n, n) = r
    BY <2>4, Remainder DEF Hangar!Rem
  <2> QED BY <2>3, <2>5
<1> HIDE DEF x
<1>5. x < 0 \/ x >= 0
  BY <1>1
<1> QED BY <1>2, <1>3, <1>4, <1>5 DEF x

-----------------------------------------------------------------------------
(* Durations and statuses                                                  *)

\* The drift is shared out without a remainder and without a negative share.
LEMMA DurationsFit ==
  ASSUME Minute \in Nat \ {0}, NEW c, Hangar!Valid(c)
  PROVE  /\ Hangar!Total(c) \in Nat \ {0}
         /\ \A s \in Hangar!State : Hangar!Duration(c, s) \in 0..Hangar!Total(c)
         /\ \A s \in Hangar!State :
              Hangar!Duration(c, s) + Hangar!Duration(c, Hangar!Opposite(s)) = Hangar!Total(c)
<1> DEFINE o == c.open
           w == c.open + c.closed
           T == Hangar!Total(c)
<1>1. o \in Nat \ {0} /\ w \in Nat \ {0} /\ o < w /\ c.offset \in Int
  BY DEF Hangar!Valid
<1>2. w * Minute \in Nat
  BY <1>1
<1>3. T = w * Minute + c.offset /\ c.offset > -(w * Minute)
  BY DEF Hangar!Total, Hangar!Valid
<1>4. T \in Nat \ {0}
  BY <1>1, <1>2, <1>3
<1> DEFINE x == 2 * (T * o) + w
           q == Hangar!OpenTime(c)
<1>5. q = x \div (2 * w)
  BY DEF Hangar!OpenTime, Hangar!Rounded
<1> HIDE DEF o, w, T, q
<1>6. T * o \in Nat /\ w * T \in Nat
  BY <1>1, <1>4
<1>7. T * o <= w * T
  <2>1. T * (w - o) >= 0 /\ T * (w - o) = w * T - T * o
    BY <1>1, <1>4
  <2> QED BY <2>1, <1>6
<1>8. PICK r \in 0..(2 * w - 1) : q \in Int /\ x = (2 * w) * q + r
  <2>1. x \in Int /\ 2 * w \in Nat \ {0}
    BY <1>1, <1>6
  <2> HIDE DEF x
  <2> QED BY <2>1, <1>5, Division
<1>9. q \in 0..T
  <2>1. q >= T + 1 => (2 * w) * q >= 2 * (w * T) + 2 * w
    <3> SUFFICES ASSUME q >= T + 1 PROVE (2 * w) * q >= 2 * (w * T) + 2 * w
      OBVIOUS
    <3>1. (2 * w) * (q - (T + 1)) >= 0
      BY <1>1, <1>4, <1>8
    <3>2. (2 * w) * (q - (T + 1)) = (2 * w) * q - (2 * (w * T) + 2 * w)
      BY <1>1, <1>4, <1>8
    <3>3. (2 * w) * q \in Int
      BY <1>1, <1>8
    <3> QED BY <3>1, <3>2, <3>3, <1>6, <1>1
  <2>2. q <= -1 => (2 * w) * q <= -(2 * w)
    BY <1>1, <1>8
  <2>3. (2 * w) * q \in Int
    BY <1>1, <1>8
  <2>4. ~(q >= T + 1)
    BY <2>1, <2>3, <1>1, <1>6, <1>7, <1>8
  <2>5. ~(q <= -1)
    BY <2>2, <2>3, <1>1, <1>6, <1>8
  <2> QED BY <2>4, <2>5, <1>4, <1>8
<1>10. \A s \in Hangar!State :
         /\ Hangar!Duration(c, s) \in {q, T - q}
         /\ Hangar!Duration(c, s) + Hangar!Duration(c, Hangar!Opposite(s)) = T
  BY <1>4, <1>9 DEF Hangar!State, Hangar!Duration, Hangar!Opposite, q, T
<1> QED BY <1>4, <1>9, <1>10 DEF T

\* A row that holds a change
IsChange(r) == r.state \in Hangar!State /\ r.nextAt \in Int /\ Hangar!Valid(r.config)

\* Time t lies in the k-th cycle from the change of r on, in its first or in its
\* second state, and d says so.
At(r, t, k, d) ==
  LET first == Hangar!Opposite(r.state)
      begin == r.nextAt + Hangar!Total(r.config) * k
      half == begin + Hangar!Duration(r.config, first)
      end == begin + Hangar!Total(r.config)
  IN  \/ /\ begin <= t /\ t < half
         /\ d = [state |-> first, nextAt |-> half]
      \/ /\ half <= t /\ t < end
         /\ d = [state |-> r.state, nextAt |-> end]

\* From the stored change on, the derived status is the one of the cycle that
\* the time lies in.
LEMMA StatusAfter ==
  ASSUME Minute \in Nat \ {0}, NEW r, IsChange(r), NEW t \in Int, t >= r.nextAt
  PROVE  \E k \in Nat : At(r, t, k, Hangar!Status(r, t))
<1> DEFINE first == Hangar!Opposite(r.state)
           T == Hangar!Total(r.config)
           F == Hangar!Duration(r.config, first)
           S == Hangar!Duration(r.config, r.state)
           n == r.nextAt
<1>1. T \in Nat \ {0} /\ F \in 0..T /\ S \in 0..T /\ F + S = T /\ n \in Int
  BY DurationsFit DEF IsChange, Hangar!State, Hangar!Opposite
<1>2. CASE t - n < F
  <2>1. Hangar!Status(r, t) = [state |-> first, nextAt |-> n + F]
    BY <1>2, <1>1 DEF Hangar!Status
  <2>2. At(r, t, 0, Hangar!Status(r, t))
    <3> HIDE DEF first, F, S, n
    <3>1. n + T * 0 = n
      BY <1>1
    <3> QED BY <2>1, <3>1, <1>1, <1>2 DEF At, first, F, n
  <2> QED BY <2>2
<1>3. CASE t - n >= F
  <2> DEFINE later == (t - n) - F
             q == later \div T
             offset == later % T
             base == n + F + (later - offset)
  <2>1. later \in Nat
    BY <1>1, <1>3
  <2>2. q \in Int /\ offset \in 0..T-1 /\ later = T * q + offset
    <3>1. later \in Int /\ T \in Nat \ {0}
      BY <1>1, <2>1
    <3> HIDE DEF later, T, F, S, first, n
    <3> QED BY <3>1, Division
  <2>3. Hangar!Status(r, t) = IF offset < S THEN [state |-> r.state, nextAt |-> base + S]
                       ELSE [state |-> first, nextAt |-> base + S + F]
    BY <1>3, <1>1 DEF Hangar!Status
  <2> HIDE DEF q, offset, F, S, first, n, T
  <2>4. q \in Nat
    <3>1. q <= -1 => T * q <= -T
      BY <1>1, <2>2
    <3>2. T * q \in Int
      BY <1>1, <2>2
    <3> QED BY <3>1, <3>2, <1>1, <2>1, <2>2
  <2>5. T * q \in Int /\ T * (q + 1) = T * q + T
    BY <1>1, <2>2
  <2>6. base = n + F + T * q
    BY <1>1, <2>1, <2>2, <2>5
  <2>7. t = n + F + T * q + offset
    BY <1>1, <2>2, <2>5
  <2>8. CASE offset < S
    <3>1. Hangar!Status(r, t) = [state |-> r.state, nextAt |-> n + T * q + T]
      BY <2>3, <2>6, <2>8, <1>1, <2>5
    <3>2. At(r, t, q, Hangar!Status(r, t))
      BY <3>1, <2>5, <2>7, <2>8, <1>1, <2>2 DEF At, first, F, n, T
    <3> QED BY <3>2, <2>4
  <2>9. CASE offset >= S
    <3>1. Hangar!Status(r, t) = [state |-> first, nextAt |-> n + T * (q + 1) + F]
      BY <2>3, <2>6, <2>9, <1>1, <2>5, <2>2
    <3>2. n + T * (q + 1) <= t /\ t < n + T * (q + 1) + F
      BY <2>5, <2>7, <2>9, <1>1, <2>2
    <3>3. At(r, t, q + 1, Hangar!Status(r, t))
      BY <3>1, <3>2 DEF At, first, F, n, T
    <3> QED BY <3>3, <2>4
  <2> QED BY <2>8, <2>9, <1>1, <2>2
<1> QED BY <1>2, <1>3, <1>1

\* A time has one status.
LEMMA OneStatus ==
  ASSUME Minute \in Nat \ {0}, NEW r, IsChange(r), NEW t \in Int,
         NEW j \in Int, NEW k \in Int, NEW d, NEW e,
         At(r, t, j, d), At(r, t, k, e)
  PROVE  d = e
<1> DEFINE T == Hangar!Total(r.config)
           F == Hangar!Duration(r.config, Hangar!Opposite(r.state))
           n == r.nextAt
<1>1. T \in Nat \ {0} /\ F \in 0..T /\ n \in Int
  BY DurationsFit DEF IsChange, Hangar!State, Hangar!Opposite
<1>2. T * j \in Int /\ T * k \in Int
  BY <1>1
<1>3. n + T * j <= t /\ t < n + T * j + T /\ n + T * k <= t /\ t < n + T * k + T
  BY <1>1, <1>2 DEF At
<1> HIDE DEF T, F, n
<1> DEFINE a == t - n - T * j
           b == t - n - T * k
<1>4. a \in 0..T-1 /\ b \in 0..T-1 /\ T * j + a = T * k + b
  BY <1>1, <1>2, <1>3
<1> HIDE DEF a, b
<1>5. j = k
  BY <1>1, <1>4, OneCycle
<1> QED BY <1>1, <1>2, <1>5 DEF At, T, F, n

-----------------------------------------------------------------------------
(* The site                                                                *)

\* The site's schedule as a row: its epoch is an opening.
SiteRow == [state |-> "CLOSED", nextAt |-> Epoch, config |-> Site]

\* The site's status is the one of the cycle the time lies in.
LEMMA SiteStatusIs ==
  ASSUME Hangar!HangarAssumption, NEW t \in Int
  PROVE  \E k \in Int : At(SiteRow, t, k, Hangar!SiteStatus(t))
<1> DEFINE T == Hangar!Total(Site)
           O == Hangar!OpenTime(Site)
           x == t - Epoch
           k == x \div T
           p == x % T
<1>1. T \in Nat \ {0} /\ O \in 0..T /\ Hangar!Duration(Site, "OPEN") = O /\ Epoch \in Int
  BY DurationsFit DEF Hangar!HangarAssumption, Hangar!State, Hangar!Duration
<1>2. x \in Int
  BY <1>1
<1>3. k \in Int /\ p \in 0..T-1 /\ x = T * k + p
  <2> HIDE DEF x, T
  <2> QED BY <1>1, <1>2, Division
<1>4. Hangar!Rem(Hangar!Rem(x, T) + T, T) = p
  <2> HIDE DEF k, p, x, T
  <2> QED BY <1>1, <1>3, Normalized
<1>5. Hangar!SiteStatus(t) = IF p < O THEN [state |-> "OPEN", nextAt |-> t + (O - p)]
                      ELSE [state |-> "CLOSED", nextAt |-> t + (T - p)]
  BY <1>4 DEF Hangar!SiteStatus
<1>6. At(SiteRow, t, k, Hangar!SiteStatus(t)) <=>
        \/ /\ Epoch + T * k <= t /\ t < Epoch + T * k + O
           /\ Hangar!SiteStatus(t) = [state |-> "OPEN", nextAt |-> Epoch + T * k + O]
        \/ /\ Epoch + T * k + O <= t /\ t < Epoch + T * k + T
           /\ Hangar!SiteStatus(t) = [state |-> "CLOSED", nextAt |-> Epoch + T * k + T]
  BY <1>1 DEF At, SiteRow, Hangar!Opposite
<1>7. t = Epoch + x /\ x = T * k + p
  BY <1>1, <1>3
<1> HIDE DEF k, p, x, T, O
<1>8. T * k \in Int
  BY <1>1, <1>3
<1>9. t + (O - p) = Epoch + T * k + O /\ t + (T - p) = Epoch + T * k + T
  BY <1>1, <1>2, <1>3, <1>7, <1>8
<1>10. CASE p < O
  BY <1>10, <1>1, <1>2, <1>3, <1>5, <1>6, <1>7, <1>8, <1>9
<1>11. CASE p >= O
  BY <1>11, <1>1, <1>2, <1>3, <1>5, <1>6, <1>7, <1>8, <1>9
<1> QED BY <1>1, <1>3, <1>10, <1>11

\* Row or patch r holds a change of the site's schedule that was the next one at
\* time t or earlier.
OnSchedule(r, t) ==
  /\ r.state \in Hangar!State /\ r.nextAt \in Int /\ r.config = Site
  /\ \E k \in Int :
       r.nextAt = Epoch + Hangar!Total(Site) * k
                  + (IF r.state = "OPEN" THEN Hangar!OpenTime(Site) ELSE 0)
  /\ r.nextAt - Hangar!Duration(Site, r.state) <= t

\* Whoever is on schedule derives what the site says.
LEMMA OnScheduleFollows ==
  ASSUME Hangar!HangarAssumption, NEW t \in Int, NEW r, OnSchedule(r, t)
  PROVE  Hangar!Status(r, t) = Hangar!SiteStatus(t)
<1> DEFINE T == Hangar!Total(Site)
           O == Hangar!OpenTime(Site)
           n == r.nextAt
           d == Hangar!Status(r, t)
<1>1. /\ T \in Nat \ {0} /\ O \in 0..T /\ Epoch \in Int /\ Minute \in Nat \ {0}
      /\ Hangar!Duration(Site, "OPEN") = O /\ Hangar!Duration(Site, "CLOSED") = T - O
  BY DurationsFit DEF Hangar!HangarAssumption, Hangar!State, Hangar!Duration
<1>2. PICK m \in Int : n = Epoch + T * m + (IF r.state = "OPEN" THEN O ELSE 0)
  BY DEF OnSchedule
<1>3. /\ IsChange(r) /\ IsChange(SiteRow)
      /\ r.config = Site /\ r.state \in Hangar!State /\ n \in Int
      /\ n - Hangar!Duration(Site, r.state) <= t
  BY DEF OnSchedule, IsChange, SiteRow, Hangar!State, Hangar!HangarAssumption
<1>4. ASSUME NEW j \in Int, NEW a \in Int, a = Epoch + T * j,
             \/ /\ a <= t /\ t < a + O
                /\ d = [state |-> "OPEN", nextAt |-> a + O]
             \/ /\ a + O <= t /\ t < a + T
                /\ d = [state |-> "CLOSED", nextAt |-> a + T]
      PROVE  \E i \in Int : At(SiteRow, t, i, d)
  <2>1. At(SiteRow, t, j, d)
    BY <1>1, <1>4 DEF At, SiteRow, Hangar!Opposite
  <2> QED BY <2>1
<1>5. \E j \in Int : At(SiteRow, t, j, d)
  <2>1. CASE t < n
    <3>1. d = [state |-> r.state, nextAt |-> n]
      BY <2>1 DEF Hangar!Status
    <3> HIDE DEF T, O, n, d
    <3>2. T * (m - 1) = T * m - T /\ T * m \in Int
      BY <1>1
    <3>3. CASE r.state = "OPEN"
      <4>1. n - O \in Int /\ n - O = Epoch + T * m
        BY <3>2, <3>3, <1>1, <1>2, <1>3
      <4>2. n - O <= t /\ t < (n - O) + O
        BY <3>3, <2>1, <1>1, <1>3
      <4>3. d = [state |-> "OPEN", nextAt |-> (n - O) + O]
        BY <3>1, <3>3, <1>1, <1>3
      <4> QED BY <4>1, <4>2, <4>3, <1>4
    <3>4. CASE r.state = "CLOSED"
      <4>1. n - T \in Int /\ n - T = Epoch + T * (m - 1) /\ m - 1 \in Int
        BY <3>2, <3>4, <1>1, <1>2, <1>3
      <4>2. (n - T) + O <= t /\ t < (n - T) + T
        BY <3>4, <2>1, <1>1, <1>3
      <4>3. d = [state |-> "CLOSED", nextAt |-> (n - T) + T]
        BY <3>1, <3>4, <1>1, <1>3
      <4> QED BY <4>1, <4>2, <4>3, <1>4
    <3> QED BY <3>3, <3>4, <1>3 DEF Hangar!State
  <2>2. CASE t >= n
    <3>1. PICK k \in Nat : At(r, t, k, d)
      BY <2>2, <1>1, <1>3, StatusAfter
    <3>2. CASE r.state = "CLOSED"
      <4>1. \/ /\ n + T * k <= t /\ t < n + T * k + O
               /\ d = [state |-> "OPEN", nextAt |-> n + T * k + O]
            \/ /\ n + T * k + O <= t /\ t < n + T * k + T
               /\ d = [state |-> "CLOSED", nextAt |-> n + T * k + T]
        BY <3>1, <3>2, <1>1, <1>3 DEF At, Hangar!Opposite
      <4> HIDE DEF T, O, n, d
      <4>2. T * (m + k) = T * m + T * k /\ T * m \in Int /\ T * k \in Int
        BY <1>1
      <4>3. n = Epoch + T * m
        BY <1>1, <1>2, <3>2, <4>2
      <4>4. m + k \in Int /\ n + T * k \in Int /\ n + T * k = Epoch + T * (m + k)
        BY <4>2, <4>3, <1>1
      <4> QED BY <4>1, <4>4, <1>4
    <3>3. CASE r.state = "OPEN"
      <4>1. \/ /\ n + T * k <= t /\ t < n + T * k + (T - O)
               /\ d = [state |-> "CLOSED", nextAt |-> n + T * k + (T - O)]
            \/ /\ n + T * k + (T - O) <= t /\ t < n + T * k + T
               /\ d = [state |-> "OPEN", nextAt |-> n + T * k + T]
        BY <3>1, <3>3, <1>1, <1>3 DEF At, Hangar!Opposite
      <4> HIDE DEF T, O, n, d
      <4>2. /\ T * (m + k) = T * m + T * k /\ T * m \in Int /\ T * k \in Int
            /\ T * (m + k + 1) = T * m + T * k + T
        BY <1>1
      <4>3. n = Epoch + T * m + O
        BY <1>1, <1>2, <3>3, <4>2
      <4> DEFINE a == Epoch + T * (m + k)
                 b == Epoch + T * (m + k + 1)
      <4>4. /\ m + k \in Int /\ m + k + 1 \in Int /\ a \in Int /\ b \in Int
            /\ n + T * k = a + O /\ n + T * k + (T - O) = a + T
            /\ a + T = b /\ n + T * k + T = b + O
        BY <4>2, <4>3, <1>1
      <4>5. \/ /\ a + O <= t /\ t < a + T
               /\ d = [state |-> "CLOSED", nextAt |-> a + T]
            \/ /\ b <= t /\ t < b + O
               /\ d = [state |-> "OPEN", nextAt |-> b + O]
        BY <4>1, <4>4
      <4>6. a = Epoch + T * (m + k) /\ b = Epoch + T * (m + k + 1)
        OBVIOUS
      <4> HIDE DEF a, b
      <4> QED BY <4>4, <4>5, <4>6, <1>4
    <3> QED BY <3>2, <3>3, <1>3 DEF Hangar!State
  <2> QED BY <2>1, <2>2, <1>3
<1> QED BY <1>5, <1>1, <1>3, SiteStatusIs, OneStatus

-----------------------------------------------------------------------------
(* The row and its writers                                                 *)

Config == [open : Nat \ {0}, closed : Nat \ {0}, offset : Int]
Row == [state : Hangar!State \cup {Hangar!None}, nextAt : Int, config : Config]
Kind == {Hangar!None, "resync", "manual", "config"}
Patch == [kind : Kind, state : Hangar!State \cup {Hangar!None}, nextAt : Int, config : Config]

\* The row holds a change or none, with durations that are valid.
RowOK ==
  /\ now \in Int
  /\ row \in Row
  /\ Hangar!Valid(row.config)
  /\ follows \in BOOLEAN

\* A patch is valid, and on schedule if it stems from the site.
PatchOK(p, t) ==
  /\ p \in Patch
  /\ Hangar!Valid(p.config)
  /\ p.kind = Hangar!None => p = Hangar!Nothing
  /\ p.kind \in {"resync", "manual"} => p.state \in Hangar!State
  /\ p.kind = "resync" => OnSchedule(p, t)

PatchesOK ==
  /\ pending \in [Request -> Patch]
  /\ \A q \in Request : PatchOK(pending[q], now)

\* The inductive invariant
HangarInv ==
  /\ RowOK
  /\ PatchesOK
  /\ follows => OnSchedule(row, now)

\* Time takes nothing off the schedule.
LEMMA ScheduleLasts ==
  ASSUME Hangar!HangarAssumption, NEW r, NEW t \in Int, NEW u \in Int, t <= u, OnSchedule(r, t)
  PROVE  OnSchedule(r, u)
<1>1. r.nextAt - Hangar!Duration(Site, r.state) \in Int
  BY DurationsFit DEF OnSchedule, Hangar!HangarAssumption
<1> QED BY <1>1 DEF OnSchedule

\* What the site says of a time is on schedule at that time.
LEMMA SiteIsOnSchedule ==
  ASSUME Hangar!HangarAssumption, NEW t \in Int, NEW r,
         r.state = Hangar!SiteStatus(t).state, r.nextAt = Hangar!SiteStatus(t).nextAt,
         r.config = Site
  PROVE  OnSchedule(r, t)
<1> DEFINE T == Hangar!Total(Site)
           O == Hangar!OpenTime(Site)
<1>1. /\ T \in Nat \ {0} /\ O \in 0..T /\ Epoch \in Int
      /\ Hangar!Duration(Site, "OPEN") = O /\ Hangar!Duration(Site, "CLOSED") = T - O
  BY DurationsFit DEF Hangar!HangarAssumption, Hangar!State, Hangar!Duration
<1>2. PICK k \in Int : At(SiteRow, t, k, Hangar!SiteStatus(t))
  BY SiteStatusIs
<1> DEFINE d == Hangar!SiteStatus(t)
<1>3. \/ /\ Epoch + T * k <= t /\ t < Epoch + T * k + O
         /\ d = [state |-> "OPEN", nextAt |-> Epoch + T * k + O]
      \/ /\ Epoch + T * k + O <= t /\ t < Epoch + T * k + T
         /\ d = [state |-> "CLOSED", nextAt |-> Epoch + T * k + T]
  BY <1>1, <1>2 DEF At, SiteRow, Hangar!Opposite
<1>4. r.state = d.state /\ r.nextAt = d.nextAt
  OBVIOUS
<1> HIDE DEF d
<1>5. \/ /\ Epoch + T * k <= t
         /\ r.state = "OPEN" /\ r.nextAt = Epoch + T * k + O
      \/ /\ Epoch + T * k + O <= t
         /\ r.state = "CLOSED" /\ r.nextAt = Epoch + T * k + T
  BY <1>3, <1>4
<1> DEFINE shift == IF r.state = "OPEN" THEN O ELSE 0
<1>6. T * k \in Int /\ T * (k + 1) = T * k + T
  BY <1>1
<1>7. /\ r.state \in Hangar!State /\ r.nextAt \in Int /\ r.config = Site
      /\ r.nextAt - Hangar!Duration(Site, r.state) <= t
      /\ \E i \in Int : r.nextAt = Epoch + T * i + shift
  <2>1. CASE r.state = "OPEN"
    <3> HIDE DEF T, O
    <3>1. /\ r.nextAt = Epoch + T * k + O /\ Epoch + T * k <= t
          /\ Hangar!Duration(Site, r.state) = O
      BY <1>1, <1>5, <2>1
    <3>2. r.nextAt = Epoch + T * k + shift
      BY <2>1, <3>1
    <3> QED BY <2>1, <3>1, <3>2, <1>1, <1>6 DEF Hangar!State
  <2>2. CASE r.state = "CLOSED"
    <3> HIDE DEF T, O
    <3>1. /\ r.nextAt = Epoch + T * k + T /\ Epoch + T * k + O <= t
          /\ Hangar!Duration(Site, r.state) = T - O
      BY <1>1, <1>5, <2>2
    <3>2. k + 1 \in Int /\ r.nextAt = Epoch + T * (k + 1) + shift
      BY <2>2, <3>1, <1>1, <1>6
    <3>3. r.nextAt \in Int /\ r.nextAt - (T - O) <= t
      BY <3>1, <1>1, <1>6
    <3> QED BY <2>2, <3>1, <3>2, <3>3 DEF Hangar!State
  <2> QED BY <1>5, <2>1, <2>2
<1> QED BY <1>7 DEF OnSchedule

\* No patch, and the row of a new database
LEMMA NothingIsOK ==
  ASSUME Hangar!HangarAssumption, NEW t \in Int
  PROVE  PatchOK(Hangar!Nothing, t) /\ Hangar!Default \in Config /\ Hangar!Valid(Hangar!Default)
<1>1. Hangar!Valid(Hangar!Default) /\ Hangar!Default \in Config
  <2>1. (60 + 120) * Minute \in Nat \ {0}
    BY DEF Hangar!HangarAssumption
  <2> QED BY <2>1 DEF Hangar!Valid, Hangar!Default, Config
<1>2. /\ Hangar!Nothing \in Patch /\ Hangar!Nothing.config = Hangar!Default
      /\ Hangar!Nothing.kind = "none"
  BY <1>1 DEF Hangar!Nothing, Patch, Kind, Hangar!None
<1> QED BY <1>1, <1>2 DEF PatchOK

\* The inductive invariant holds initially.
LEMMA HangarInitial == ASSUME Hangar!HangarAssumption, Hangar!Init PROVE HangarInv
<1>1. /\ row = [state |-> Hangar!None, nextAt |-> 0, config |-> Hangar!Default]
      /\ pending = [q \in Request |-> Hangar!Nothing]
      /\ now = 0 /\ follows = FALSE
  BY DEF Hangar!Init
<1>2. PatchOK(Hangar!Nothing, now) /\ Hangar!Default \in Config /\ Hangar!Valid(Hangar!Default)
  BY <1>1, NothingIsOK
<1>3. row \in Row /\ row.config = Hangar!Default
  BY <1>1, <1>2 DEF Row
<1>4. RowOK
  <2>1. Hangar!Valid(row.config)
    BY <1>2, <1>3
  <2>2. now \in Int
    BY <1>1, SMT
  <2>3. follows \in BOOLEAN
    BY <1>1, Zenon
  <2> QED BY <1>3, <2>1, <2>2, <2>3 DEF RowOK
<1>5. PatchesOK
  <2>1. Hangar!Nothing \in Patch
    BY <1>2 DEF PatchOK
  <2> QED BY <1>1, <1>2, <2>1 DEF PatchesOK
<1> QED BY <1>1, <1>4, <1>5 DEF HangarInv

\* A valid patch in the place of a request's preserves the patches.
LEMMA OnePatch ==
  ASSUME PatchesOK, NEW q \in Request, NEW p, PatchOK(p, now),
         pending' = [pending EXCEPT ![q] = p], now' = now
  PROVE  PatchesOK'
<1>1. p \in Patch
  BY DEF PatchOK
<1>2. pending' \in [Request -> Patch]
  BY <1>1 DEF PatchesOK
<1>3. ASSUME NEW s \in Request PROVE PatchOK(pending'[s], now')
  <2>1. CASE s = q
    BY <2>1 DEF PatchesOK
  <2>2. CASE s # q
    BY <2>2 DEF PatchesOK
  <2> QED BY <2>1, <2>2
<1> QED BY <1>2, <1>3 DEF PatchesOK

\* A request that prepares a valid patch preserves the invariant.
LEMMA PrepareInv ==
  ASSUME HangarInv, NEW q \in Request, NEW kind, NEW status, NEW config,
         Hangar!Prepare(q, kind, status, config),
         PatchOK([kind |-> kind, state |-> status.state,
                  nextAt |-> status.nextAt, config |-> config], now)
  PROVE  HangarInv'
<1>1. PatchesOK'
  BY OnePatch DEF Hangar!Prepare, HangarInv
<1> QED BY <1>1 DEF HangarInv, Hangar!Prepare, RowOK, OnSchedule

\* A resync prepares what is on schedule when the command comes in.
LEMMA ResyncInv ==
  ASSUME Hangar!HangarAssumption, HangarInv, NEW q \in Request, Hangar!Resync(q)
  PROVE  HangarInv'
<1> DEFINE d == Hangar!SiteStatus(now)
           p == [kind |-> "resync", state |-> d.state, nextAt |-> d.nextAt, config |-> Site]
<1>1. now \in Int /\ Hangar!Valid(Site) /\ Site \in Config
  BY DEF HangarInv, RowOK, Hangar!HangarAssumption, Hangar!Valid, Config
<1>2. OnSchedule(p, now)
  BY <1>1, SiteIsOnSchedule
<1>3. d.state \in Hangar!State /\ d.nextAt \in Int
  BY <1>2 DEF OnSchedule
<1> HIDE DEF d
<1>4. PatchOK(p, now)
  BY <1>1, <1>2, <1>3 DEF PatchOK, Patch, Kind, Hangar!None
<1> QED BY <1>4, PrepareInv DEF Hangar!Resync, d

\* A manual change is a change.
LEMMA ManualSyncInv ==
  ASSUME Hangar!HangarAssumption, HangarInv, NEW q \in Request, NEW s \in Hangar!State,
         NEW minutes \in Minutes,
         Hangar!ManualSync(q, s, minutes)
  PROVE  HangarInv'
<1> DEFINE status == [state |-> Hangar!Opposite(s), nextAt |-> now + minutes * Minute]
           p == [kind |-> "manual", state |-> status.state,
                 nextAt |-> status.nextAt, config |-> Hangar!Default]
<1>1. now \in Int /\ minutes * Minute \in Int
  BY DEF HangarInv, RowOK, Hangar!HangarAssumption
<1>2. Hangar!Default \in Config /\ Hangar!Valid(Hangar!Default)
  BY <1>1, NothingIsOK
<1>3. PatchOK(p, now)
  BY <1>1, <1>2 DEF PatchOK, Patch, Kind, Hangar!None, Hangar!State, Hangar!Opposite
<1> QED BY <1>3, PrepareInv DEF Hangar!ManualSync

\* New durations are valid.
LEMMA ConfigureInv ==
  ASSUME Hangar!HangarAssumption, HangarInv, NEW q \in Request, NEW c \in Configs,
         Hangar!Configure(q, c)
  PROVE  HangarInv'
<1> DEFINE status == [state |-> Hangar!None, nextAt |-> 0]
           p == [kind |-> "config", state |-> status.state,
                 nextAt |-> status.nextAt, config |-> c]
<1>1. Hangar!Valid(c) /\ c \in Config
  BY DEF Hangar!HangarAssumption, Hangar!Valid, Config
<1>2. PatchOK(p, now)
  BY <1>1 DEF PatchOK, Patch, Kind, Hangar!None
<1> QED BY <1>2, PrepareInv DEF Hangar!Configure

\* Writing a patch preserves the invariant: a change of the site is still on
\* schedule, and the columns that the patch leaves alone are valid with the rest.
LEMMA WriteInv ==
  ASSUME Hangar!HangarAssumption, HangarInv, NEW q \in Request, Hangar!Write(q)
  PROVE  HangarInv'
<1> DEFINE p == pending[q]
<1>1. /\ PatchOK(p, now) /\ p \in Patch /\ Hangar!Valid(p.config)
      /\ row \in Row /\ Hangar!Valid(row.config) /\ now \in Int
  BY DEF HangarInv, PatchesOK, PatchOK, RowOK
<1>2. /\ p # Hangar!Nothing /\ row' = Hangar!Patched(p) /\ follows' = (p.kind = "resync")
      /\ now' = now /\ pending' = [pending EXCEPT ![q] = Hangar!Nothing]
  BY DEF Hangar!Write
<1>3. PatchesOK'
  BY <1>1, <1>2, NothingIsOK, OnePatch DEF HangarInv
<1>4. p.kind \in {"resync", "manual", "config"}
  BY <1>1, <1>2 DEF PatchOK, Patch, Kind
<1> HIDE DEF p
<1>5. row' \in Row /\ Hangar!Valid(row'.config)
  <2>1. CASE p.kind = "resync"
    BY <2>1, <1>1, <1>2 DEF Hangar!Patched, Patch, Row
  <2>2. CASE p.kind = "manual"
    BY <2>2, <1>1, <1>2 DEF Hangar!Patched, Patch, Row
  <2>3. CASE p.kind = "config"
    BY <2>3, <1>1, <1>2 DEF Hangar!Patched, Patch, Row
  <2> QED BY <1>4, <2>1, <2>2, <2>3
<1>6. follows' => OnSchedule(row, now)'
  <2> SUFFICES ASSUME p.kind = "resync" PROVE OnSchedule(row', now)
    BY <1>2 DEF OnSchedule
  <2>1. OnSchedule(p, now)
    BY <1>1 DEF PatchOK
  <2>2. row'.state = p.state /\ row'.nextAt = p.nextAt /\ row'.config = p.config
    BY <1>2 DEF Hangar!Patched
  <2> QED BY <2>1, <2>2 DEF OnSchedule
<1> QED BY <1>1, <1>2, <1>3, <1>5, <1>6 DEF HangarInv, RowOK

\* Time preserves the invariant.
LEMMA PassInv == ASSUME Hangar!HangarAssumption, HangarInv, Hangar!Pass PROVE HangarInv'
<1>1. now \in Int /\ now' \in Int /\ now <= now'
  BY DEF Hangar!Pass, HangarInv, RowOK, Hangar!HangarAssumption
<1>2. UNCHANGED <<row, pending, follows>>
  BY DEF Hangar!Pass
<1>3. follows' => OnSchedule(row, now)'
  <2>1. follows => OnSchedule(row, now')
    BY <1>1, ScheduleLasts DEF HangarInv
  <2> QED BY <1>2, <2>1 DEF OnSchedule
<1>4. ASSUME NEW q \in Request PROVE PatchOK(pending[q], now')
  <2>1. PatchOK(pending[q], now)
    BY DEF HangarInv, PatchesOK
  <2>2. pending[q].kind = "resync" => OnSchedule(pending[q], now')
    BY <2>1, <1>1, ScheduleLasts DEF PatchOK
  <2> QED BY <2>1, <2>2 DEF PatchOK
<1>5. PatchesOK'
  BY <1>2, <1>4 DEF HangarInv, PatchesOK
<1> QED BY <1>1, <1>2, <1>3, <1>5 DEF HangarInv, RowOK

\* Every step preserves the invariant.
LEMMA HangarStep ==
  ASSUME Hangar!HangarAssumption, HangarInv, [Hangar!Next]_(Hangar!vars)
  PROVE  HangarInv'
<1>1. ASSUME NEW q \in Request, Hangar!Fail(q) PROVE HangarInv'
  <2>1. PatchesOK'
    BY <1>1, NothingIsOK, OnePatch DEF Hangar!Fail, HangarInv, RowOK
  <2> QED BY <1>1, <2>1 DEF HangarInv, Hangar!Fail, RowOK, OnSchedule
<1>2. ASSUME Hangar!Restart PROVE HangarInv'
  <2>1. pending' = [q \in Request |-> Hangar!Nothing] /\ UNCHANGED <<now, row, follows>>
    BY <1>2 DEF Hangar!Restart
  <2>2. PatchOK(Hangar!Nothing, now) /\ Hangar!Nothing \in Patch
    BY NothingIsOK DEF HangarInv, RowOK, PatchOK
  <2>3. PatchesOK'
    BY <2>1, <2>2 DEF PatchesOK
  <2> QED BY <2>1, <2>3 DEF HangarInv, RowOK, OnSchedule
<1>3. CASE UNCHANGED Hangar!vars
  BY <1>3 DEF Hangar!vars, HangarInv, RowOK, PatchesOK, OnSchedule
<1> QED BY <1>1, <1>2, <1>3, ResyncInv, ManualSyncInv, ConfigureInv, WriteInv, PassInv
           DEF Hangar!Next

-----------------------------------------------------------------------------
(* Theorems *)

\* The invariant holds throughout.
LEMMA HangarInductive == ASSUME Hangar!HangarAssumption PROVE Hangar!Spec => []HangarInv
<1>1. Hangar!Init => HangarInv
  BY HangarInitial
<1>2. HangarInv /\ [Hangar!Next]_(Hangar!vars) => HangarInv'
  BY HangarStep
<1> QED BY <1>1, <1>2, PTL DEF Hangar!Spec

\* Whatever the site's durations and drift, the writers, the restarts and the
\* time that a resync takes: a row that stems from the site says what the site says.
THEOREM HangarFollowsSite ==
  ASSUME Hangar!HangarAssumption
  PROVE  Hangar!Spec => []Hangar!FollowsSite
<1>1. HangarInv => Hangar!FollowsSite
  BY OnScheduleFollows DEF HangarInv, RowOK, Hangar!FollowsSite
<1> QED BY <1>1, HangarInductive, PTL

\* The row holds a change once it has been initialized.
LEMMA RowIsChange ==
  ASSUME Hangar!HangarAssumption, HangarInv, Hangar!Initialized
  PROVE  IsChange(row) /\ Minute \in Nat \ {0} /\ now \in Int
BY DEF HangarInv, RowOK, Row, Hangar!Initialized, IsChange, Hangar!HangarAssumption

\* The announced change is ahead, for any durations and drift.
THEOREM HangarChangeIsAhead ==
  ASSUME Hangar!HangarAssumption
  PROVE  Hangar!Spec => []Hangar!ChangeIsAhead
<1>1. ASSUME HangarInv, Hangar!Initialized PROVE Hangar!Status(row, now).nextAt > now
  <2>1. IsChange(row) /\ Minute \in Nat \ {0} /\ now \in Int
    BY <1>1, RowIsChange
  <2>2. CASE now < row.nextAt
    BY <2>1, <2>2 DEF Hangar!Status, IsChange
  <2>3. CASE now >= row.nextAt
    <3>1. PICK k \in Nat : At(row, now, k, Hangar!Status(row, now))
      BY <2>1, <2>3, StatusAfter
    <3> QED BY <3>1, <2>1 DEF At, IsChange
  <2> QED BY <2>1, <2>2, <2>3 DEF IsChange
<1>2. HangarInv => Hangar!ChangeIsAhead
  BY <1>1 DEF Hangar!ChangeIsAhead
<1> QED BY <1>2, HangarInductive, PTL

\* A status lasts until the change it announces.
LEMMA StatusLasts ==
  ASSUME Minute \in Nat \ {0}, NEW r, IsChange(r), NEW t \in Int, NEW u \in Int,
         t <= u, u < Hangar!Status(r, t).nextAt
  PROVE  Hangar!Status(r, u) = Hangar!Status(r, t)
<1> DEFINE d == Hangar!Status(r, t)
<1>1. r.nextAt \in Int
  BY DEF IsChange
<1>2. CASE t < r.nextAt
  <2>1. Hangar!Status(r, t) = [state |-> r.state, nextAt |-> r.nextAt]
    BY <1>2 DEF Hangar!Status
  <2>2. u < r.nextAt
    BY <2>1
  <2> QED BY <2>1, <2>2 DEF Hangar!Status
<1>3. CASE t >= r.nextAt
  <2>1. PICK k \in Nat : At(r, t, k, d)
    BY <1>3, StatusAfter
  <2>2. PICK j \in Nat : At(r, u, j, Hangar!Status(r, u))
    BY <1>1, <1>3, StatusAfter
  <2>3. At(r, u, k, d)
    <3>1. /\ Hangar!Total(r.config) \in Nat \ {0}
          /\ Hangar!Duration(r.config, Hangar!Opposite(r.state)) \in 0..Hangar!Total(r.config)
      BY DurationsFit DEF IsChange, Hangar!State, Hangar!Opposite
    <3>2. Hangar!Total(r.config) * k \in Int
      BY <3>1
    <3>3. u < d.nextAt
      OBVIOUS
    <3> HIDE DEF d
    <3> QED BY <2>1, <3>1, <3>2, <3>3, <1>1 DEF At
  <2>4. j \in Int /\ k \in Int
    OBVIOUS
  <2> QED BY <2>2, <2>3, <2>4, OneStatus
<1> QED BY <1>1, <1>2, <1>3

\* The change comes as announced: the opposite state, for its whole duration.
LEMMA ChangeComes ==
  ASSUME Minute \in Nat \ {0}, NEW r, IsChange(r), NEW t \in Int,
         Hangar!Duration(r.config, Hangar!Opposite(Hangar!Status(r, t).state)) > 0
  PROVE  LET old == Hangar!Status(r, t)
             new == Hangar!Opposite(old.state)
         IN  Hangar!Status(r, old.nextAt) =
               [state |-> new, nextAt |-> old.nextAt + Hangar!Duration(r.config, new)]
<1> DEFINE d == Hangar!Status(r, t)
           u == d.nextAt
           T == Hangar!Total(r.config)
           first == Hangar!Opposite(r.state)
           F == Hangar!Duration(r.config, first)
           S == Hangar!Duration(r.config, r.state)
           n == r.nextAt
           new == Hangar!Opposite(d.state)
           e == [state |-> new, nextAt |-> u + Hangar!Duration(r.config, new)]
<1>1. /\ T \in Nat \ {0} /\ F \in 0..T /\ S \in 0..T /\ F + S = T /\ n \in Int
      /\ Hangar!Opposite(first) = r.state
  BY DurationsFit DEF IsChange, Hangar!State, Hangar!Opposite
<1>2. CASE t < n
  <2>1. d = [state |-> r.state, nextAt |-> n]
    BY <1>2 DEF Hangar!Status
  <2>2. u = n /\ new = first /\ F > 0
    BY <2>1
  <2>3. Hangar!Status(r, n) = [state |-> first, nextAt |-> n + F]
    <3>1. ~(n < n) /\ n - n < F
      BY <1>1, <2>2
    <3> QED BY <3>1 DEF Hangar!Status
  <2> QED BY <2>2, <2>3
<1>3. CASE t >= n
  <2>1. PICK k \in Nat : At(r, t, k, d)
    BY <1>3, StatusAfter
  <2>2. T * k \in Int /\ T * k >= 0 /\ T * (k + 1) = T * k + T
    BY <1>1
  <2>3. \/ d = [state |-> first, nextAt |-> n + T * k + F]
       \/ d = [state |-> r.state, nextAt |-> n + T * k + T]
    BY <2>1 DEF At
  <2>4. u \in Int /\ u >= n /\ \E j \in Nat : At(r, u, j, e)
    <3>1. CASE d = [state |-> first, nextAt |-> n + T * k + F]
      <4>1. d.state = first /\ u = n + T * k + F
        BY <3>1
      <4>2. new = r.state /\ S > 0
        BY <4>1, <1>1
      <4>3. e = [state |-> r.state, nextAt |-> u + S]
        BY <4>2
      <4> HIDE DEF d, u, e, new, T, F, S, n
      <4>4. u + S = n + T * k + T /\ u \in Int /\ u >= n /\ u < n + T * k + T
        BY <4>1, <4>2, <1>1, <2>2
      <4>5. At(r, u, k, e)
        BY <4>1, <4>3, <4>4 DEF At, n, T, F, first
      <4> QED BY <4>4, <4>5
    <3>2. CASE d = [state |-> r.state, nextAt |-> n + T * k + T]
      <4>1. d.state = r.state /\ u = n + T * k + T
        BY <3>2
      <4>2. new = first /\ F > 0
        BY <4>1
      <4>3. e = [state |-> first, nextAt |-> u + F]
        BY <4>2
      <4> HIDE DEF d, u, e, new, T, F, S, n
      <4>4. u = n + T * (k + 1) /\ u \in Int /\ u >= n /\ u < u + F /\ k + 1 \in Nat
        BY <4>1, <4>2, <1>1, <2>2
      <4>5. At(r, u, k + 1, e)
        BY <4>3, <4>4 DEF At, n, T, F, first
      <4> QED BY <4>4, <4>5
    <3> QED BY <2>3, <3>1, <3>2
  <2>5. PICK j \in Nat : At(r, u, j, e)
    BY <2>4
  <2>6. PICK i \in Nat : At(r, u, i, Hangar!Status(r, u))
    BY <2>4, StatusAfter
  <2>7. i \in Int /\ j \in Int
    OBVIOUS
  <2>8. Hangar!Status(r, u) = e
    <3> HIDE DEF u, e
    <3> QED BY <2>4, <2>5, <2>6, <2>7, OneStatus
  <2> QED BY <2>8
<1> QED BY <1>1, <1>2, <1>3

\* Until somebody writes the row, every change comes as announced: skipping cycles
\* comes to the same as going through them one by one.
THEOREM HangarChangesCome ==
  ASSUME Hangar!HangarAssumption
  PROVE  Hangar!Spec => Hangar!ChangesComeAsAnnounced
<1>2. ASSUME HangarInv, [Hangar!Next]_(Hangar!vars), Hangar!Initialized, row' = row
      PROVE  LET old == Hangar!Status(row, now)
                 new == Hangar!Opposite(old.state)
             IN  /\ now' < old.nextAt => Hangar!Status(row, now') = old
                 /\ now' = old.nextAt /\ Hangar!Duration(row.config, new) > 0 =>
                      Hangar!Status(row, now') =
                        [state |-> new, nextAt |-> old.nextAt + Hangar!Duration(row.config, new)]
  <2>1. IsChange(row) /\ Minute \in Nat \ {0} /\ now \in Int
    BY <1>2, RowIsChange
  <2>2. now' \in Int /\ now <= now'
    <3>1. now' \in now + 1 .. MaxNow \/ now' = now
      BY <1>2 DEF Hangar!Next, Hangar!Resync, Hangar!ManualSync, Hangar!Configure,
         Hangar!Prepare, Hangar!Write, Hangar!Fail, Hangar!Restart, Hangar!Pass,
         Hangar!vars
    <3> QED BY <2>1, <3>1 DEF Hangar!HangarAssumption
  <2> QED BY <2>1, <2>2, StatusLasts, ChangeComes
<1>3. HangarInv /\ [Hangar!Next]_(Hangar!vars) =>
        [Hangar!Initialized /\ row' = row =>
           LET old == Hangar!Status(row, now)
               new == Hangar!Opposite(old.state)
           IN  /\ now' < old.nextAt => Hangar!Status(row, now') = old
               /\ now' = old.nextAt /\ Hangar!Duration(row.config, new) > 0 =>
                    Hangar!Status(row, now') =
                      [state |-> new, nextAt |-> old.nextAt + Hangar!Duration(row.config, new)]]_(Hangar!vars)
  BY <1>2
<1> QED BY <1>3, HangarInductive, PTL DEF Hangar!Spec, Hangar!ChangesComeAsAnnounced
=============================================================================
