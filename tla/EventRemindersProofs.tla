------------------------ MODULE EventRemindersProofs ------------------------
(***************************************************************************)
(* For any start times, windows, ticks, moves of the event and failures:   *)
(* a reminder is repeated only after a failure or a cleaned claim, a claim *)
(* stands for a message that was or will be posted, and a schedule without *)
(* failures misses no window.                                              *)
(***************************************************************************)
EXTENDS EventReminders, FiniteSetTheorems, SequenceTheorems, TLAPS

\* Tick t has claimed key k and not dealt with it yet.
Holds(t, k) == tick[t].pc \in {"send", "release"} /\ Head(tick[t].todo) = k

\* A tick under way began within the retention.
TicksAreYoung ==
  \A t \in Tick : tick[t].pc # "idle" =>
    tick[t].now <= now /\ now < tick[t].now + Retention

\* What a tick holds it has claimed itself, so that the claim is not cleaned
\* under it, and nobody else holds it.
HoldersHaveClaims ==
  /\ \A t \in Tick, k \in Key : Holds(t, k) =>
       claims[k] # Never /\ tick[t].now <= claims[k]
  /\ \A t, u \in Tick, k \in Key : Holds(t, k) /\ Holds(u, k) => t = u

\* A message of key k may still be posted without another failure or cleaning.
MayBePosted(k) == claims[k] = Never \/ \E t \in Tick : Holds(t, k)
PostsAreOwed ==
  \A k \in Key :
    posts[k] + (IF MayBePosted(k) THEN 1 ELSE 0) <= 1 + faults + forgotten

\* Without a failure the schedule fires once per interval, an answer takes Delay
\* at most, and no claim is lost.
ScheduleIsKept ==
  /\ now <= due /\ due <= now + Interval
  /\ faults = 0 => lost = {}
  /\ faults = 0 => \A t \in Tick : Waiting(t) => now <= tick[t].now + Delay

\* A tick that is not under way, or waits for its answer, has nothing to handle
\* yet, and a claim is only taken back after a failure.
RunsAreRegular ==
  \A t \in Tick :
    /\ tick[t].pc \in {"idle", "fetch", "clock"} => tick[t].todo = <<>>
    /\ tick[t].pc = "release" => faults > 0

\* Tick t will read the clock while the window is open, and knows the start time
\* if it has its answer.
Coming(t, w) ==
  LET best == start - OffsetOf(w)
  IN  /\ Waiting(t)
      /\ best - Tolerance <= tick[t].now /\ tick[t].now + Delay <= best + Tolerance
      /\ tick[t].pc = "clock" => tick[t].start = start

\* A window whose last chance to fire is over has been seen by a tick, or will be.
InTodo(t, k) == \E i \in DOMAIN tick[t].todo : tick[t].todo[i] = k
Seen(k) == posts[k] > 0 \/ \E t \in Tick : InTodo(t, k)
WindowsAreSeen ==
  faults = 0 =>
    \A w \in Window :
      LET best == start - OffsetOf(w)
      IN  since <= best - Tolerance /\ due > best + Tolerance - Delay =>
            Seen(WindowKey(w)) \/ \E t \in Tick : Coming(t, w)

\* The inductive invariant.  What it says of the ledger does not need the rest.
LedgerInv ==
  /\ TypeOK
  /\ TicksAreYoung
  /\ HoldersHaveClaims
  /\ ClaimsAreKept
  /\ PostsAreOwed
IInv == LedgerInv /\ ScheduleIsKept /\ RunsAreRegular /\ WindowsAreSeen

-----------------------------------------------------------------------------
(* The reminders a tick has left to handle *)

\* The parameters of the model as the proofs use them.
LEMMA Parameters ==
  /\ Starts \subseteq Nat /\ Horizon \in Nat /\ Never \notin Nat
  /\ Tolerance \in Nat /\ Interval \in Nat /\ Interval > 0
  /\ Delay \in Nat /\ Interval + Delay <= 2 * Tolerance
  /\ Day \in Nat /\ Hours \in Nat /\ Day > Tolerance /\ Hours > Tolerance
  /\ Retention \in Nat /\ Retention > 0
  /\ MaxMoves \in Nat /\ MaxFaults \in Nat
  /\ 0 \in Moment /\ Moment \subseteq Nat
  BY EventAssumption DEF Moment

\* A window has a key of its own.
LEMMA WindowKeyFacts ==
  ASSUME NEW w \in Window
  PROVE  WindowKey(w) \in Key /\ OffsetOf(w) \in Nat /\ OffsetOf(w) > Tolerance
  BY Parameters DEF Window, Key, OffsetOf

\* The windows that are near, and no others, come up in a tick.
LEMMA WindowKeysFacts ==
  ASSUME NEW s, NEW t
  PROVE  /\ WindowKeys(s, t) \in Seq(Key)
         /\ \A w \in Window : Near(w, s, t) =>
              \E i \in DOMAIN WindowKeys(s, t) : WindowKeys(s, t)[i] = WindowKey(w)
<1> DEFINE a == IfNear("24h", s, t)
           b == IfNear("6h", s, t)
<1>1. WindowKey("24h") \in Key /\ WindowKey("6h") \in Key
  BY WindowKeyFacts DEF Window
<1>2. /\ a \in Seq(Key) /\ b \in Seq(Key)
      /\ Near("24h", s, t) => Len(a) = 1 /\ a[1] = WindowKey("24h")
      /\ Near("6h", s, t) => Len(b) = 1 /\ b[1] = WindowKey("6h")
  BY <1>1 DEF IfNear
<1>3. WindowKeys(s, t) = a \o b
  BY DEF WindowKeys
<1> HIDE DEF a, b
<1>4. /\ a \o b \in Seq(Key) /\ DOMAIN (a \o b) = 1..(Len(a) + Len(b))
      /\ \A i \in 1..Len(a) : (a \o b)[i] = a[i]
      /\ \A i \in 1..Len(b) : (a \o b)[Len(a) + i] = b[i]
      /\ Len(a) \in Nat /\ Len(b) \in Nat
  BY <1>2
<1>5. ASSUME Near("24h", s, t)
      PROVE  1 \in DOMAIN (a \o b) /\ (a \o b)[1] = WindowKey("24h")
  <2>1. Len(a) = 1 /\ a[1] = WindowKey("24h")
    BY <1>2, <1>5
  <2> QED BY <1>4, <2>1
<1>6. ASSUME Near("6h", s, t)
      PROVE  /\ Len(a) + 1 \in DOMAIN (a \o b)
             /\ (a \o b)[Len(a) + 1] = WindowKey("6h")
  <2>1. Len(b) = 1 /\ b[1] = WindowKey("6h")
    BY <1>2, <1>6
  <2> QED BY <1>4, <2>1
<1> QED BY <1>3, <1>4, <1>5, <1>6 DEF Window

\* A run that goes on with some reminders is about to claim the first of them,
\* or at its end.
LEMMA LeftFacts ==
  ASSUME NEW k \in Run, NEW todo \in Seq(Key), Starts # {}
  PROVE  /\ Left(k, todo) \in Run
         /\ Left(k, todo).todo = todo
         /\ Left(k, todo).pc \in {"idle", "claim"}
         /\ Left(k, todo).pc = "claim" => todo # <<>> /\ Left(k, todo).now = k.now
         /\ Left(k, todo).pc = "idle" => todo = <<>>
<1>1. CASE todo = <<>>
  <2>1. IdleRun \in Run
    BY Parameters DEF IdleRun, Run
  <2> QED BY <1>1, <2>1 DEF Left, IdleRun
<1>2. CASE todo # <<>>
  <2>1. Left(k, todo) = [pc |-> "claim", start |-> k.start, now |-> k.now, todo |-> todo]
    BY <1>2 DEF Left, Run
  <2> QED BY <1>2, <2>1 DEF Run
<1> QED BY <1>1, <1>2

\* The head of the reminders left is a key; the rest are reminders too.
LEMMA TodoFacts ==
  ASSUME NEW todo \in Seq(Key), todo # <<>>
  PROVE  /\ Head(todo) \in Key /\ Tail(todo) \in Seq(Key)
         /\ 1 \in DOMAIN todo /\ todo[1] = Head(todo)
         /\ \A i \in DOMAIN todo : i # 1 => i - 1 \in DOMAIN Tail(todo)
                                              /\ Tail(todo)[i - 1] = todo[i]
<1>1. Len(todo) \in Nat /\ Len(todo) > 0 /\ DOMAIN todo = 1..Len(todo)
  BY EmptySeq
<1>2. Head(todo) \in Key /\ Tail(todo) \in Seq(Key) /\ Head(todo) = todo[1]
  BY <1>1, HeadTailProperties
<1>3. Len(Tail(todo)) = Len(todo) - 1
  BY HeadTailProperties
<1> QED BY <1>1, <1>2, <1>3

\* The keys are finitely many, so that a cleaning can be counted.
LEMMA KeyFinite == IsFiniteSet(Key)
<1> DEFINE notices == {NoticeKey(s) : s \in Starts}
           noticeOf == [s \in Starts |-> NoticeKey(s)]
           windows == {WindowKey("24h")} \cup {WindowKey("6h")}
<1>1. noticeOf \in Surjection(Starts, notices)
  BY DEF Surjection
<1>2. IsFiniteSet(notices)
  BY <1>1, EventAssumption, FS_Surjection
<1>3. IsFiniteSet({WindowKey("24h")}) /\ IsFiniteSet({WindowKey("6h")})
  BY FS_Singleton
<1>4. IsFiniteSet(windows)
  BY <1>3, FS_Union
<1>5. Key = windows \cup notices
  BY DEF Key, Window
<1> HIDE DEF notices, windows
<1> QED BY <1>2, <1>4, <1>5, FS_Union

-----------------------------------------------------------------------------
(* Type correctness *)

\* A run of a tick, and what it is at when it handles a reminder.
LEMMA RunFacts ==
  ASSUME TypeOK, NEW t \in Tick
  PROVE  /\ tick[t] \in Run /\ tick[t].todo \in Seq(Key) /\ Starts # {}
         /\ tick[t].pc \in {"claim", "send", "release"} =>
              /\ tick[t].todo # <<>> /\ Head(tick[t].todo) \in Key
              /\ Tail(tick[t].todo) \in Seq(Key)
<1>1. tick[t] \in Run /\ Starts # {}
  BY DEF TypeOK
<1>2. tick[t].todo \in Seq(Key)
  BY <1>1 DEF Run
<1> QED BY <1>1, <1>2, TodoFacts DEF TypeOK

\* The tick turns to another step: its reminders and its clock stay.
LEMMA TurnFacts ==
  ASSUME TypeOK, NEW t \in Tick,
         NEW pc \in {"upsert", "send", "release"}, Turn(t, pc)
  PROVE  /\ tick' \in [Tick -> Run]
         /\ \A u \in Tick : u # t => tick'[u] = tick[u]
         /\ tick'[t].pc = pc
         /\ tick'[t].todo = tick[t].todo /\ tick'[t].now = tick[t].now
<1>1. tick \in [Tick -> Run]
  BY DEF TypeOK
<1>2. tick' = [tick EXCEPT ![t] = [tick[t] EXCEPT !.pc = pc]]
  BY DEF Turn
<1>3. [tick[t] EXCEPT !.pc = pc] \in Run
  BY <1>1 DEF Run
<1>4. tick'[t] = [tick[t] EXCEPT !.pc = pc]
  BY <1>1, <1>2
<1>5. tick'[t].pc = pc /\ tick'[t].todo = tick[t].todo /\ tick'[t].now = tick[t].now
  BY <1>1, <1>4 DEF Run
<1> QED BY <1>1, <1>2, <1>3, <1>5

\* The tick goes on with some reminders.
LEMMA GoesOnFacts ==
  ASSUME TypeOK, NEW t \in Tick, NEW todo \in Seq(Key),
         tick' = [tick EXCEPT ![t] = Left(tick[t], todo)]
  PROVE  /\ tick' \in [Tick -> Run]
         /\ \A u \in Tick : u # t => tick'[u] = tick[u]
         /\ tick'[t].todo = todo
         /\ tick'[t].pc \in {"idle", "claim"}
         /\ tick'[t].pc = "claim" => todo # <<>> /\ tick'[t].now = tick[t].now
         /\ tick'[t].pc = "idle" => todo = <<>>
<1>1. tick \in [Tick -> Run] /\ Starts # {} /\ tick[t] \in Run
  BY DEF TypeOK
<1>2. tick'[t] = Left(tick[t], todo)
  BY <1>1
<1> QED BY <1>1, <1>2, LeftFacts

\* The tick has dealt with a reminder.
LEMMA ProceedFacts ==
  ASSUME TypeOK, NEW t \in Tick, tick[t].pc \in {"claim", "send", "release"}, Proceed(t)
  PROVE  /\ tick' \in [Tick -> Run]
         /\ \A u \in Tick : u # t => tick'[u] = tick[u]
         /\ tick'[t].todo = Tail(tick[t].todo)
         /\ tick'[t].pc \in {"idle", "claim"}
         /\ tick'[t].pc = "claim" => tick'[t].todo # <<>> /\ tick'[t].now = tick[t].now
         /\ tick'[t].pc = "idle" => tick'[t].todo = <<>>
<1>1. Tail(tick[t].todo) \in Seq(Key)
  BY RunFacts
<1> QED BY <1>1, GoesOnFacts DEF Proceed

\* A tick that has not read the clock yet, or just has, changes nothing but itself.
Begins(t) == StartTick(t) \/ FetchEvent(t) \/ ReadClock(t) \/ FetchFails(t)

LEMMA BeginFacts ==
  ASSUME TypeOK, NEW t \in Tick, Begins(t)
  PROVE  /\ tick' \in [Tick -> Run]
         /\ \A u \in Tick : u # t => tick'[u] = tick[u]
         /\ tick[t].pc \in {"idle", "fetch", "clock"}
         /\ tick'[t].pc \in {"idle", "fetch", "clock", "state"}
         /\ tick'[t].pc # "idle" =>
              \/ tick'[t].now = now
              \/ tick[t].pc # "idle" /\ tick'[t].now = tick[t].now
         /\ tick'[t].pc \in {"idle", "fetch"} => tick'[t].todo = <<>>
         /\ tick'[t].pc = "clock" => tick'[t].todo = tick[t].todo
<1>1. tick \in [Tick -> Run] /\ tick[t] \in Run /\ now \in Moment /\ start \in Starts
  BY DEF TypeOK
<1>2. IdleRun \in Run /\ IdleRun.pc = "idle" /\ IdleRun.todo = <<>>
  BY <1>1, Parameters, EmptySeq DEF IdleRun, Run
<1>3. CASE StartTick(t)
  <2> DEFINE r == [IdleRun EXCEPT !.pc = "fetch", !.now = now]
  <2>1. r \in Run /\ r.pc = "fetch" /\ r.now = now /\ r.todo = <<>>
    BY <1>1, <1>2 DEF Run
  <2>2. tick' = [tick EXCEPT ![t] = r] /\ tick[t].pc = "idle"
    BY <1>3 DEF StartTick
  <2> HIDE DEF r
  <2> QED BY <1>1, <2>1, <2>2
<1>4. CASE FetchEvent(t)
  <2> DEFINE r == [tick[t] EXCEPT !.pc = "clock", !.start = start]
  <2>1. r \in Run /\ r.pc = "clock" /\ r.now = tick[t].now /\ r.todo = tick[t].todo
    BY <1>1 DEF Run
  <2>2. tick' = [tick EXCEPT ![t] = r] /\ tick[t].pc = "fetch"
    BY <1>4 DEF FetchEvent
  <2> HIDE DEF r
  <2> QED BY <1>1, <2>1, <2>2
<1>5. CASE ReadClock(t)
  <2> DEFINE s == tick[t].start
             r == [pc |-> "state", start |-> s, now |-> now, todo |-> WindowKeys(s, now)]
  <2>1. r \in Run /\ r.pc = "state" /\ r.now = now
    BY <1>1, WindowKeysFacts DEF Run
  <2>2. /\ tick' = [tick EXCEPT ![t] = r] \/ tick' = [tick EXCEPT ![t] = IdleRun]
        /\ tick[t].pc = "clock"
    BY <1>5 DEF ReadClock
  <2> HIDE DEF r
  <2> QED BY <1>1, <1>2, <2>1, <2>2
<1>6. CASE FetchFails(t)
  <2>1. tick' = [tick EXCEPT ![t] = IdleRun] /\ tick[t].pc \in {"fetch", "clock"}
    BY <1>6 DEF FetchFails
  <2> QED BY <1>1, <1>2, <2>1
<1> QED BY <1>3, <1>4, <1>5, <1>6 DEF Begins

\* What it leaves alone.
LEMMA BeginsOnly ==
  ASSUME NEW t \in Tick, Begins(t)
  PROVE  /\ UNCHANGED <<now, event, db, seen>>
         /\ faults' = faults \/ Fault
         /\ due' = due \/ (due' = now + Interval /\ faults' = faults)
  BY DEF Begins, StartTick, FetchEvent, ReadClock, FetchFails

\* What ReadState and Upsert leave to do.
LEMMA TodoBefore ==
  ASSUME NEW k \in Run
  PROVE  /\ k.todo \in Seq(Key)
         /\ WithoutNotice(k.todo) \in Seq(Key)
         /\ <<NoticeKey(k.start)>> \o k.todo \in Seq(Key)
<1>1. k.todo \in Seq(Key) /\ k.start \in Starts
  BY DEF Run
<1>2. NoticeKey(k.start) \in Key
  BY <1>1 DEF Key
<1>3. <<NoticeKey(k.start)>> \in Seq(Key)
  BY <1>2
<1>4. <<NoticeKey(k.start)>> \o k.todo \in Seq(Key)
  BY <1>1, <1>3, ConcatProperties
<1>5. WithoutNotice(k.todo) \in Seq(Key)
  BY <1>1, TodoFacts DEF WithoutNotice
<1> QED BY <1>1, <1>4, <1>5

\* The tick has a notice to handle first.
LEMMA NoticeRun ==
  ASSUME TypeOK, NEW t \in Tick,
         tick' = [tick EXCEPT ![t] = [tick[t] EXCEPT !.pc = "upsert",
                    !.todo = <<NoticeKey(tick[t].start)>> \o tick[t].todo]]
  PROVE  /\ tick' \in [Tick -> Run]
         /\ \A u \in Tick : u # t => tick'[u] = tick[u]
         /\ tick'[t].pc = "upsert" /\ tick'[t].now = tick[t].now
         /\ tick'[t].todo = <<NoticeKey(tick[t].start)>> \o tick[t].todo
<1> DEFINE all == <<NoticeKey(tick[t].start)>> \o tick[t].todo
           m == [tick[t] EXCEPT !.pc = "upsert"]
           r == [pc |-> "upsert", start |-> tick[t].start, now |-> tick[t].now,
                 todo |-> all]
<1>1. tick \in [Tick -> Run] /\ tick[t] \in Run
  BY DEF TypeOK
<1>2. all \in Seq(Key)
  BY <1>1, TodoBefore
<1>3. tick' = [tick EXCEPT ![t] = [m EXCEPT !.todo = all]]
  OBVIOUS
<1> HIDE DEF all
<1>4. m = [pc |-> "upsert", start |-> tick[t].start, now |-> tick[t].now,
           todo |-> tick[t].todo]
  BY <1>1 DEF Run
<1> HIDE DEF m
<1>5. [m EXCEPT !.todo = all] = r
  BY <1>4
<1>6. r \in Run /\ r.pc = "upsert" /\ r.now = tick[t].now /\ r.todo = all
  BY <1>1, <1>2 DEF Run
<1> HIDE DEF r
<1>7. tick' \in [Tick -> Run] /\ tick'[t] = r /\ \A u \in Tick : u # t => tick'[u] = tick[u]
  BY <1>1, <1>3, <1>5, <1>6
<1> QED BY <1>6, <1>7 DEF all

\* The type invariant is inductive by itself.
LEMMA TypeInductive == TypeOK /\ [Next]_vars => TypeOK'
<1> SUFFICES ASSUME TypeOK, [Next]_vars PROVE TypeOK'
  OBVIOUS
<1>a. /\ now \in Moment /\ now \in Nat /\ due \in Nat /\ since \in Moment /\ start \in Starts
      /\ moves \in 0..MaxMoves /\ faults \in 0..MaxFaults
      /\ claims \in [Key -> Moment \cup {Never}]
      /\ known \in Starts \cup {Never}
      /\ posts \in [Key -> Nat] /\ lost \subseteq Key /\ forgotten \in Nat
  BY Parameters DEF TypeOK
<1>b. /\ tick \in [Tick -> Run]
      /\ \A t \in Tick : tick[t].pc \in {"claim", "send", "release"} => tick[t].todo # <<>>
  BY DEF TypeOK
<1>c. Fault => faults' \in 0..MaxFaults
  BY <1>a, Parameters DEF Fault
\* The part of a step that changes ticks
<1> DEFINE TicksOK ==
      /\ tick \in [Tick -> Run]
      /\ \A t \in Tick : tick[t].pc \in {"claim", "send", "release"} => tick[t].todo # <<>>
<1>d. ASSUME NEW t \in Tick, tick' \in [Tick -> Run],
             \A u \in Tick : u # t => tick'[u] = tick[u],
             tick'[t].pc \in {"claim", "send", "release"} => tick'[t].todo # <<>>
      PROVE  TicksOK'
  BY <1>b, <1>d
<1>e. tick' = tick => TicksOK'
  BY <1>b
<1>f. ASSUME NEW t \in Tick, tick[t].pc \in {"claim", "send", "release"},
             Proceed(t) \/ Turn(t, "send") \/ Turn(t, "release")
      PROVE  TicksOK'
  BY <1>b, <1>d, <1>f, ProceedFacts, TurnFacts
<1>g. ASSUME NEW t \in Tick, NEW todo \in Seq(Key),
             tick' = [tick EXCEPT ![t] = Left(tick[t], todo)]
      PROVE  TicksOK'
  <2>1. /\ tick' \in [Tick -> Run]
        /\ \A u \in Tick : u # t => tick'[u] = tick[u]
        /\ tick'[t].pc \in {"claim", "send", "release"} => tick'[t].todo # <<>>
    BY <1>g, GoesOnFacts
  <2> HIDE DEF TicksOK
  <2> QED BY <1>d, <2>1
<1>h. \A t \in Tick : tick[t].pc \in {"claim", "send", "release"} =>
        Head(tick[t].todo) \in Key
  BY RunFacts
<1>1. ASSUME NEW t \in Tick, Begins(t) PROVE TypeOK'
  <2>1. TicksOK'
    BY <1>1, <1>d, BeginFacts
  <2>2. due' \in Nat /\ faults' \in 0..MaxFaults
    BY <1>1, <1>a, <1>c, BeginsOnly, Parameters
  <2> QED BY <1>1, <1>a, <2>1, <2>2, BeginsOnly DEF TypeOK, event, db, seen
<1>2. ASSUME SkipTick PROVE TypeOK'
  BY <1>2, <1>a, <1>b, <1>c, Parameters DEF SkipTick, TypeOK, event, db, seen
<1>3. ASSUME NEW t \in Tick, ReadState(t) PROVE TypeOK'
  <2>1. tick[t] \in Run
    BY <1>b
  <2>2. TicksOK'
    <3>1. CASE tick' = [tick EXCEPT ![t] = Left(tick[t], tick[t].todo)]
      BY <1>g, <2>1, <3>1, TodoBefore
    <3>2. CASE tick' = [tick EXCEPT ![t] = [tick[t] EXCEPT !.pc = "upsert"]]
      BY <1>d, <3>2, TurnFacts DEF Turn
    <3>3. CASE tick' = [tick EXCEPT ![t] = [tick[t] EXCEPT !.pc = "upsert",
                          !.todo = <<NoticeKey(tick[t].start)>> \o tick[t].todo]]
      BY <1>d, <3>3, NoticeRun
    <3> QED BY <1>3, <3>1, <3>2, <3>3 DEF ReadState
  <2> QED BY <1>3, <1>a, <1>c, <2>2 DEF ReadState, TypeOK, event, db, seen
<1>4. ASSUME NEW t \in Tick, Upsert(t) PROVE TypeOK'
  <2>1. tick[t] \in Run
    BY <1>b
  <2>2. TicksOK'
    BY <1>4, <1>g, <2>1, TodoBefore DEF Upsert
  <2>3. known' \in Starts \cup {Never}
    BY <1>4, <1>a, <2>1 DEF Upsert, Run
  <2> QED BY <1>4, <1>a, <1>c, <2>2, <2>3 DEF Upsert, TypeOK, event, seen
<1>5. ASSUME NEW t \in Tick, Claim(t) PROVE TypeOK'
  <2>1. TicksOK'
    BY <1>5, <1>f DEF Claim
  <2>2. claims' \in [Key -> Moment \cup {Never}]
    BY <1>5, <1>a, <1>h DEF Claim
  <2> QED BY <1>5, <1>a, <2>1, <2>2 DEF Claim, TypeOK, event, seen
<1>6. ASSUME NEW t \in Tick, ClaimFails(t) PROVE TypeOK'
  <2>1. TicksOK'
    BY <1>6, <1>f DEF ClaimFails
  <2>2. claims' \in [Key -> Moment \cup {Never}] /\ lost' \subseteq Key
    BY <1>6, <1>a, <1>h DEF ClaimFails
  <2> QED BY <1>6, <1>a, <1>c, <2>1, <2>2 DEF ClaimFails, TypeOK, event
<1>7. ASSUME NEW t \in Tick, Send(t) \/ SendFails(t) PROVE TypeOK'
  <2>1. TicksOK'
    BY <1>7, <1>f DEF Send, SendFails, AfterFailure
  <2>2. posts' \in [Key -> Nat]
    BY <1>7, <1>a, <1>h DEF Send, SendFails, Post
  <2>3. faults' \in 0..MaxFaults
    BY <1>7, <1>a, <1>c DEF Send, SendFails
  <2> QED BY <1>7, <1>a, <2>1, <2>2, <2>3 DEF Send, SendFails, TypeOK, event, db
<1>8. ASSUME NEW t \in Tick, Release(t) PROVE TypeOK'
  <2>1. TicksOK'
    BY <1>8, <1>f DEF Release
  <2>2. claims' \in [Key -> Moment \cup {Never}] /\ lost' \subseteq Key
    BY <1>8, <1>a, <1>h DEF Release
  <2> QED BY <1>8, <1>a, <1>c, <2>1, <2>2 DEF Release, TypeOK, event
<1>9. ASSUME Crash PROVE TypeOK'
  <2>1. IdleRun \in Run /\ IdleRun.pc = "idle"
    BY <1>a, Parameters, EmptySeq DEF IdleRun, Run
  <2>2. tick' = [t \in Tick |-> IdleRun]
    BY <1>9 DEF Crash
  <2>3. TicksOK'
    BY <2>1, <2>2
  <2>4. Held \subseteq Key
    BY <1>h DEF Held
  <2> QED BY <1>9, <1>a, <1>c, <2>3, <2>4 DEF Crash, TypeOK, event, db
<1>10. ASSUME NEW s \in Starts, Move(s) PROVE TypeOK'
  BY <1>10, <1>a, <1>b, Parameters DEF Move, TypeOK, db, seen
<1>11. ASSUME Advance PROVE TypeOK'
  <2>1. now' \in Moment
    BY <1>11, <1>a, Parameters DEF Advance, Moment
  <2> QED BY <1>11, <1>a, <1>b, <1>c, <2>1 DEF Advance, TypeOK, event, db, seen
<1>12. ASSUME Cleanup PROVE TypeOK'
  <2>1. IsFiniteSet(Expired)
    BY KeyFinite, FS_Subset DEF Expired
  <2>2. Cardinality(Expired) \in Nat
    BY <2>1, FS_CardinalityType
  <2>3. claims' \in [Key -> Moment \cup {Never}] /\ known' \in Starts \cup {Never}
    BY <1>12, <1>a DEF Cleanup
  <2> QED BY <1>12, <1>a, <1>b, <2>2, <2>3 DEF Cleanup, TypeOK, event
<1>13. ASSUME UNCHANGED vars PROVE TypeOK'
  BY <1>13, <1>a, <1>b DEF vars, TypeOK, event, db, seen
<1> QED
  BY <1>1, <1>2, <1>3, <1>4, <1>5, <1>6, <1>7, <1>8, <1>9, <1>10, <1>11, <1>12, <1>13
  DEF Next, TickStep, Begins

-----------------------------------------------------------------------------
(* The ledger *)

\* The keys in the hands of ticks, and the number a key counts for.
LEMMA LedgerFacts ==
  ASSUME TypeOK
  PROVE  /\ \A k : k \in Held <=> \E t \in Tick : Holds(t, k)
         /\ \A k : \A t \in Tick : Holds(t, k) => k \in Key
         /\ \A k \in Key : posts[k] \in Nat
         /\ now \in Nat /\ faults \in Nat /\ forgotten \in Nat
<1>1. \A k : k \in Held <=> \E t \in Tick : Holds(t, k)
  BY DEF Held, Holds
<1>2. \A k : \A t \in Tick : Holds(t, k) => k \in Key
  BY RunFacts DEF Holds
<1>3. /\ \A k \in Key : posts[k] \in Nat
      /\ now \in Nat /\ faults \in Nat /\ forgotten \in Nat
  BY Parameters DEF TypeOK
<1> QED BY <1>1, <1>2, <1>3

\* As long as the clock stands, a tick that goes on, stops or begins is young.
LEMMA YoungFrame ==
  ASSUME TypeOK, TicksAreYoung, now' = now,
         \A t \in Tick : tick'[t].pc # "idle" =>
           \/ tick'[t].now = now
           \/ tick[t].pc # "idle" /\ tick'[t].now = tick[t].now
  PROVE  TicksAreYoung'
<1>1. now \in Nat /\ Retention \in Nat /\ Retention > 0
  BY Parameters DEF TypeOK
<1> SUFFICES ASSUME NEW t \in Tick, tick'[t].pc # "idle"
             PROVE  tick'[t].now <= now' /\ now' < tick'[t].now + Retention
  BY DEF TicksAreYoung
<1>2. CASE tick'[t].now = now
  BY <1>1, <1>2
<1>3. CASE tick[t].pc # "idle" /\ tick'[t].now = tick[t].now
  BY <1>3 DEF TicksAreYoung
<1> QED BY <1>2, <1>3

\* A step after which the same ticks hold the same keys, with the same claims
\* and posts, keeps the ledger.
LEMMA QuietStep ==
  ASSUME LedgerInv, TypeOK', TicksAreYoung',
         claims' = claims, lost \subseteq lost', faults <= faults',
         forgotten' = forgotten,
         \A k \in Key : posts'[k] = posts[k],
         \A t \in Tick : \A k : Holds(t, k)' <=> Holds(t, k),
         \A t \in Tick : \A k : Holds(t, k) => tick'[t].now = tick[t].now
  PROVE  LedgerInv'
<1>a. TypeOK
  BY DEF LedgerInv
<1>1. HoldersHaveClaims'
  BY DEF LedgerInv, HoldersHaveClaims
<1>2. ASSUME NEW k \in Key, claims'[k] # Never
      PROVE  posts'[k] > 0 \/ k \in Held' \cup lost'
  BY <1>a, <1>2, LedgerFacts DEF LedgerInv, ClaimsAreKept, Held, Holds
<1>3. ASSUME NEW k \in Key
      PROVE  posts'[k] + (IF MayBePosted(k)' THEN 1 ELSE 0) <= 1 + faults' + forgotten'
  <2>1. MayBePosted(k)' = MayBePosted(k)
    BY DEF MayBePosted
  <2>2. posts[k] + (IF MayBePosted(k) THEN 1 ELSE 0) <= 1 + faults + forgotten
    BY DEF LedgerInv, PostsAreOwed
  <2>3. posts[k] \in Nat /\ faults \in Nat /\ forgotten \in Nat /\ faults' \in Nat
    BY <1>a, LedgerFacts, Parameters DEF TypeOK
  <2> QED BY <2>1, <2>2, <2>3
<1> QED BY <1>1, <1>2, <1>3 DEF LedgerInv, ClaimsAreKept, PostsAreOwed

\* A tick that goes on holds nothing any more; the others hold what they held.
LEMMA HoldsAfterProceed ==
  ASSUME TypeOK, NEW t \in Tick, tick[t].pc \in {"claim", "send", "release"}, Proceed(t)
  PROVE  /\ \A u \in Tick : \A k : Holds(u, k)' <=> u # t /\ Holds(u, k)
         /\ \A u \in Tick : u # t => tick'[u] = tick[u]
         /\ now' = now /\ TicksAreYoung => TicksAreYoung'
<1>1. /\ \A u \in Tick : u # t => tick'[u] = tick[u]
      /\ tick'[t].pc \in {"idle", "claim"}
      /\ tick'[t].pc = "claim" => tick'[t].now = tick[t].now
  BY ProceedFacts
<1>2. ASSUME NEW u \in Tick, NEW k PROVE Holds(u, k)' <=> u # t /\ Holds(u, k)
  <2>1. CASE u = t
    BY <1>1, <2>1 DEF Holds
  <2>2. CASE u # t
    BY <1>1, <2>2 DEF Holds
  <2> QED BY <2>1, <2>2
<1>3. \A u \in Tick : tick'[u].pc # "idle" =>
        tick[u].pc # "idle" /\ tick'[u].now = tick[u].now
  BY <1>1
<1>4. now' = now /\ TicksAreYoung => TicksAreYoung'
  BY <1>3, YoungFrame
<1> QED BY <1>1, <1>2, <1>4

\* A claim is granted to one tick, for a key that nobody holds.
LEMMA ClaimKeepsLedger ==
  ASSUME LedgerInv, TypeOK', NEW t \in Tick, Claim(t)
  PROVE  LedgerInv'
<1> DEFINE key == Head(tick[t].todo)
<1>a. /\ TypeOK /\ tick[t].pc = "claim" /\ key \in Key
      /\ claims \in [Key -> Moment \cup {Never}] /\ now \in Nat /\ Never \notin Nat
  BY RunFacts, Parameters DEF LedgerInv, Claim, TypeOK
<1>b. /\ now' = now /\ lost' = lost /\ posts' = posts /\ faults' = faults
      /\ forgotten' = forgotten
  BY DEF Claim, seen
<1>1. CASE ~Unclaimed(key)
  <2>1. Proceed(t) /\ claims' = claims
    BY <1>1 DEF Claim
  <2>2. \A u \in Tick : \A k : Holds(u, k)' <=> Holds(u, k)
    BY <1>a, <2>1, HoldsAfterProceed DEF Holds
  <2>3. \A u \in Tick : \A k : Holds(u, k) => tick'[u].now = tick[u].now
    BY <1>a, <2>1, <2>2, HoldsAfterProceed
  <2>4. TicksAreYoung'
    BY <1>a, <1>b, <2>1, HoldsAfterProceed DEF LedgerInv
  <2>5. faults <= faults' /\ lost \subseteq lost'
    BY <1>a, <1>b, LedgerFacts
  <2> QED BY <1>b, <2>1, <2>2, <2>3, <2>4, <2>5, QuietStep
<1>2. CASE Unclaimed(key)
  <2>1. claims' = [claims EXCEPT ![key] = now] /\ Turn(t, "send") /\ claims[key] = Never
    BY <1>2 DEF Claim, Unclaimed
  <2>2. /\ claims'[key] = now /\ now # Never
        /\ \A k \in Key : k # key => claims'[k] = claims[k]
    BY <1>a, <2>1
  <2>3. /\ \A u \in Tick : u # t => tick'[u] = tick[u]
        /\ tick'[t].pc = "send" /\ tick'[t].todo = tick[t].todo
        /\ tick'[t].now = tick[t].now
    BY <1>a, <2>1, TurnFacts
  <2>4. \A u \in Tick : ~Holds(u, key)
    BY <1>a, <2>1 DEF LedgerInv, HoldersHaveClaims
  <2>5. \A u \in Tick : \A k : Holds(u, k)' <=> (u = t /\ k = key) \/ Holds(u, k)
    <3> SUFFICES ASSUME NEW u \in Tick, NEW k
                 PROVE  Holds(u, k)' <=> (u = t /\ k = key) \/ Holds(u, k)
      OBVIOUS
    <3>1. CASE u = t
      BY <1>a, <2>3, <3>1 DEF Holds
    <3>2. CASE u # t
      BY <2>3, <3>2 DEF Holds
    <3> QED BY <3>1, <3>2
  <2>6. TicksAreYoung'
    BY <1>a, <1>b, <2>3, YoungFrame DEF LedgerInv
  <2>7. tick[t].now <= now
    BY <1>a DEF LedgerInv, TicksAreYoung
  <2> HIDE DEF key
  <2>8. HoldersHaveClaims'
    <3>1. ASSUME NEW u \in Tick, NEW k \in Key, Holds(u, k)'
          PROVE  claims'[k] # Never /\ tick'[u].now <= claims'[k]
      <4>1. CASE u = t /\ k = key
        BY <2>2, <2>3, <2>7, <4>1
      <4>2. CASE Holds(u, k)
        BY <1>a, <2>2, <2>3, <2>4, <4>2 DEF LedgerInv, HoldersHaveClaims
      <4> QED BY <2>5, <3>1, <4>1, <4>2
    <3>2. \A u, v \in Tick, k \in Key : Holds(u, k)' /\ Holds(v, k)' => u = v
      BY <2>4, <2>5 DEF LedgerInv, HoldersHaveClaims
    <3> QED BY <3>1, <3>2 DEF HoldersHaveClaims
  <2>9. ASSUME NEW k \in Key, claims'[k] # Never
        PROVE  posts'[k] > 0 \/ k \in Held' \cup lost'
    <3>1. k \in Held => k \in Held'
      BY <1>a, <2>5, LedgerFacts DEF Held, Holds
    <3>2. CASE k = key
      <4>1. Holds(t, k)'
        BY <2>5, <3>2
      <4> QED BY <4>1 DEF Held, Holds
    <3>3. CASE k # key
      BY <1>b, <2>2, <2>9, <3>1, <3>3 DEF LedgerInv, ClaimsAreKept
    <3> QED BY <3>2, <3>3
  <2>10. \A k \in Key : MayBePosted(k)' <=> MayBePosted(k)
    <3> SUFFICES ASSUME NEW k \in Key PROVE MayBePosted(k)' <=> MayBePosted(k)
      OBVIOUS
    <3>1. CASE k = key
      BY <2>1, <2>5, <3>1 DEF MayBePosted
    <3>2. CASE k # key
      BY <2>2, <2>5, <3>2 DEF MayBePosted
    <3> QED BY <3>1, <3>2
  <2>11. PostsAreOwed'
    BY <1>b, <2>10 DEF LedgerInv, PostsAreOwed
  <2> QED BY <2>6, <2>8, <2>9, <2>11 DEF LedgerInv, ClaimsAreKept
<1> QED BY <1>1, <1>2

\* A claim that cannot be used counts as lost if it was stored.
LEMMA ClaimFailsKeepsLedger ==
  ASSUME LedgerInv, TypeOK', NEW t \in Tick, ClaimFails(t)
  PROVE  LedgerInv'
<1> DEFINE key == Head(tick[t].todo)
<1>a. /\ TypeOK /\ tick[t].pc = "claim" /\ key \in Key
      /\ claims \in [Key -> Moment \cup {Never}] /\ now \in Nat /\ Never \notin Nat
      /\ faults \in Nat
  BY SMTT(60), RunFacts, Parameters DEF LedgerInv, ClaimFails, TypeOK
<1>b. /\ now' = now /\ posts' = posts /\ faults' = faults + 1 /\ forgotten' = forgotten
      /\ Proceed(t) /\ lost \subseteq lost'
  BY DEF ClaimFails, Fault
<1>1. /\ \A u \in Tick : \A k : Holds(u, k)' <=> Holds(u, k)
      /\ \A u \in Tick : \A k : Holds(u, k) => tick'[u].now = tick[u].now
      /\ TicksAreYoung'
  BY <1>a, <1>b, HoldsAfterProceed DEF Holds, LedgerInv
<1>2. CASE claims' = claims
  BY <1>a, <1>b, <1>1, <1>2, QuietStep
<1>3. CASE claims' # claims
  <2>1. /\ claims[key] = Never /\ claims' = [claims EXCEPT ![key] = now]
        /\ lost' = lost \cup {key}
    BY <1>3 DEF ClaimFails, Unclaimed
  <2> HIDE DEF key
  <2>2. /\ claims'[key] = now /\ now # Never
        /\ \A k \in Key : k # key => claims'[k] = claims[k]
    BY <1>a, <2>1
  <2>3. \A u \in Tick : ~Holds(u, key)
    BY <1>a, <2>1 DEF LedgerInv, HoldersHaveClaims
  <2>4. HoldersHaveClaims'
    BY <1>1, <2>2, <2>3 DEF LedgerInv, HoldersHaveClaims
  <2>5. ASSUME NEW k \in Key, claims'[k] # Never
        PROVE  posts'[k] > 0 \/ k \in Held' \cup lost'
    <3>1. CASE k = key
      BY <2>1, <3>1
    <3>2. CASE k # key
      <4>1. posts[k] > 0 \/ k \in Held \cup lost
        BY <2>2, <2>5, <3>2 DEF LedgerInv, ClaimsAreKept
      <4>2. k \in Held => k \in Held'
        BY <1>a, <1>1, LedgerFacts DEF Held, Holds
      <4> QED BY <1>b, <4>1, <4>2
    <3> QED BY <3>1, <3>2
  <2>6. \A k \in Key : MayBePosted(k)' => MayBePosted(k)
    <3> SUFFICES ASSUME NEW k \in Key, MayBePosted(k)' PROVE MayBePosted(k)
      OBVIOUS
    <3>1. CASE k = key
      BY <2>1, <3>1 DEF MayBePosted
    <3>2. CASE k # key
      BY <1>1, <2>2, <3>2 DEF MayBePosted
    <3> QED BY <3>1, <3>2
  <2>7. ASSUME NEW k \in Key
        PROVE  posts'[k] + (IF MayBePosted(k)' THEN 1 ELSE 0) <= 1 + faults' + forgotten'
    <3>1. posts[k] + (IF MayBePosted(k) THEN 1 ELSE 0) <= 1 + faults + forgotten
      BY DEF LedgerInv, PostsAreOwed
    <3>2. posts[k] \in Nat /\ forgotten \in Nat
      BY <1>a, LedgerFacts
    <3> QED BY <1>a, <1>b, <2>6, <3>1, <3>2
  <2> QED BY <1>1, <2>4, <2>5, <2>7 DEF LedgerInv, ClaimsAreKept, PostsAreOwed
<1> QED BY <1>2, <1>3

\* The one tick that holds a key posts it, and lets go of it.
LEMMA SendKeepsLedger ==
  ASSUME LedgerInv, TypeOK', NEW t \in Tick, Send(t)
  PROVE  LedgerInv'
<1> DEFINE key == Head(tick[t].todo)
<1>a. /\ TypeOK /\ tick[t].pc = "send" /\ key \in Key /\ posts \in [Key -> Nat]
      /\ faults \in Nat /\ forgotten \in Nat
  BY RunFacts, LedgerFacts DEF LedgerInv, Send, TypeOK
<1>b. /\ now' = now /\ claims' = claims /\ faults' = faults /\ forgotten' = forgotten
      /\ lost' = lost /\ Proceed(t) /\ posts' = [posts EXCEPT ![key] = posts[key] + 1]
  BY DEF Send, Post, db
<1>c. Holds(t, key)
  BY <1>a DEF Holds
<1> HIDE DEF key
<1>1. /\ \A u \in Tick : \A k : Holds(u, k)' <=> u # t /\ Holds(u, k)
      /\ \A u \in Tick : u # t => tick'[u] = tick[u]
      /\ TicksAreYoung'
  BY <1>a, <1>b, HoldsAfterProceed DEF LedgerInv
<1>2. posts'[key] = posts[key] + 1 /\ \A k \in Key : k # key => posts'[k] = posts[k]
  BY <1>a, <1>b
<1>3. HoldersHaveClaims'
  BY <1>1, <1>b DEF LedgerInv, HoldersHaveClaims
<1>4. ASSUME NEW k \in Key, claims'[k] # Never
      PROVE  posts'[k] > 0 \/ k \in Held' \cup lost'
  <2>1. CASE k = key
    BY <1>a, <1>2, <2>1
  <2>2. CASE k # key
    <3>1. posts[k] > 0 \/ k \in Held \cup lost
      BY <1>4, <1>b DEF LedgerInv, ClaimsAreKept
    <3>2. Holds(t, k) => k = key
      BY <1>c DEF Holds
    <3>3. k \in Held => k \in Held'
      BY <1>a, <1>1, <2>2, <3>2, LedgerFacts DEF Held, Holds
    <3> QED BY <1>b, <1>2, <2>2, <3>1, <3>3
  <2> QED BY <2>1, <2>2
<1>5. ASSUME NEW k \in Key, k = key PROVE ~MayBePosted(k)' /\ MayBePosted(k)
  <2>1. claims[k] # Never /\ \A u \in Tick : Holds(u, k) => u = t
    BY <1>a, <1>c, <1>5 DEF LedgerInv, HoldersHaveClaims
  <2>2. MayBePosted(k)
    BY <1>c, <1>5 DEF MayBePosted
  <2>3. claims'[k] # Never /\ \A u \in Tick : ~Holds(u, k)'
    BY <1>1, <1>b, <2>1
  <2> QED BY <2>2, <2>3 DEF MayBePosted
<1>6. \A k \in Key : MayBePosted(k)' => MayBePosted(k)
  BY <1>1, <1>b DEF MayBePosted
<1>7. ASSUME NEW k \in Key
      PROVE  posts'[k] + (IF MayBePosted(k)' THEN 1 ELSE 0) <= 1 + faults' + forgotten'
  <2>1. posts[k] + (IF MayBePosted(k) THEN 1 ELSE 0) <= 1 + faults + forgotten
    BY DEF LedgerInv, PostsAreOwed
  <2>2. posts[k] \in Nat
    BY <1>a
  <2>3. CASE k = key
    <3>1. ~MayBePosted(k)' /\ MayBePosted(k)
      BY <1>5, <2>3
    <3>2. posts'[k] = posts[k] + 1
      BY <1>2, <2>3
    <3> QED BY <1>a, <1>b, <2>1, <2>2, <3>1, <3>2
  <2>4. CASE k # key
    BY <1>a, <1>b, <1>2, <1>6, <2>1, <2>2, <2>4
  <2> QED BY <2>3, <2>4
<1> QED BY <1>1, <1>3, <1>4, <1>7 DEF LedgerInv, ClaimsAreKept, PostsAreOwed

\* A message whose sending failed may be there: the failure pays for it.
LEMMA SendFailsKeepsLedger ==
  ASSUME LedgerInv, TypeOK', NEW t \in Tick, SendFails(t)
  PROVE  LedgerInv'
<1> DEFINE key == Head(tick[t].todo)
<1>a. /\ TypeOK /\ tick[t].pc = "send" /\ key \in Key /\ posts \in [Key -> Nat]
      /\ faults \in Nat /\ forgotten \in Nat
  BY RunFacts, LedgerFacts DEF LedgerInv, SendFails, TypeOK
<1>b. /\ now' = now /\ claims' = claims /\ faults' = faults + 1 /\ forgotten' = forgotten
      /\ lost' = lost /\ Turn(t, "release")
      /\ posts' = [posts EXCEPT ![key] = posts[key] + 1] \/ posts' = posts
  BY DEF SendFails, AfterFailure, Post, db, Fault
<1> HIDE DEF key
<1>1. /\ \A u \in Tick : u # t => tick'[u] = tick[u]
      /\ tick'[t].pc = "release" /\ tick'[t].todo = tick[t].todo
      /\ tick'[t].now = tick[t].now
  BY <1>a, <1>b, TurnFacts
<1>2. \A u \in Tick : \A k : Holds(u, k)' <=> Holds(u, k)
  <2> SUFFICES ASSUME NEW u \in Tick, NEW k PROVE Holds(u, k)' <=> Holds(u, k)
    OBVIOUS
  <2>1. CASE u = t
    BY <1>a, <1>1, <2>1 DEF Holds
  <2>2. CASE u # t
    BY <1>1, <2>2 DEF Holds
  <2> QED BY <2>1, <2>2
<1>3. \A u \in Tick : tick'[u].now = tick[u].now
  BY <1>1
<1>4. TicksAreYoung'
  BY <1>a, <1>b, <1>1, YoungFrame DEF LedgerInv
<1>5. \A k \in Key : posts'[k] \in {posts[k], posts[k] + 1}
  BY <1>a, <1>b
<1>6. HoldersHaveClaims'
  BY <1>2, <1>3, <1>b DEF LedgerInv, HoldersHaveClaims
<1>7. ASSUME NEW k \in Key, claims'[k] # Never
      PROVE  posts'[k] > 0 \/ k \in Held' \cup lost'
  <2>1. posts[k] > 0 \/ k \in Held \cup lost
    BY <1>7, <1>b DEF LedgerInv, ClaimsAreKept
  <2>2. k \in Held => k \in Held'
    BY <1>a, <1>2, LedgerFacts DEF Held, Holds
  <2>3. posts[k] \in Nat /\ posts'[k] \in {posts[k], posts[k] + 1}
    BY <1>a, <1>5
  <2> QED BY <1>b, <2>1, <2>2, <2>3
<1>8. ASSUME NEW k \in Key
      PROVE  posts'[k] + (IF MayBePosted(k)' THEN 1 ELSE 0) <= 1 + faults' + forgotten'
  <2>1. posts[k] + (IF MayBePosted(k) THEN 1 ELSE 0) <= 1 + faults + forgotten
    BY DEF LedgerInv, PostsAreOwed
  <2>2. posts[k] \in Nat /\ posts'[k] \in {posts[k], posts[k] + 1}
    BY <1>a, <1>5
  <2>3. MayBePosted(k)' <=> MayBePosted(k)
    BY <1>2, <1>b DEF MayBePosted
  <2> QED BY <1>a, <1>b, <2>1, <2>2, <2>3
<1> QED BY <1>4, <1>6, <1>7, <1>8 DEF LedgerInv, ClaimsAreKept, PostsAreOwed

\* Only the tick that holds a key deletes its claim; a claim it cannot delete is
\* lost.
LEMMA ReleaseKeepsLedger ==
  ASSUME LedgerInv, TypeOK', NEW t \in Tick, Release(t)
  PROVE  LedgerInv'
<1> DEFINE key == Head(tick[t].todo)
<1>a. /\ TypeOK /\ tick[t].pc = "release" /\ key \in Key
      /\ claims \in [Key -> Moment \cup {Never}] /\ faults \in Nat /\ forgotten \in Nat
  BY RunFacts, LedgerFacts DEF LedgerInv, Release, TypeOK
<1>b. /\ now' = now /\ posts' = posts /\ forgotten' = forgotten /\ Proceed(t)
      /\ faults' \in {faults, faults + 1}
      /\ \/ claims' = [claims EXCEPT ![key] = Never] /\ lost' = lost
         \/ claims' = claims /\ lost' = lost \cup {key}
  BY DEF Release, Fault
<1>c. Holds(t, key)
  BY <1>a DEF Holds
<1> HIDE DEF key
<1>1. /\ \A u \in Tick : \A k : Holds(u, k)' <=> u # t /\ Holds(u, k)
      /\ \A u \in Tick : u # t => tick'[u] = tick[u]
      /\ TicksAreYoung'
  BY <1>a, <1>b, HoldsAfterProceed DEF LedgerInv
<1>2. /\ \A k \in Key : k # key => claims'[k] = claims[k]
      /\ claims'[key] = Never \/ key \in lost'
      /\ lost \subseteq lost'
  BY <1>a, <1>b
<1>3. \A u \in Tick : Holds(u, key) => u = t
  BY <1>a, <1>c DEF LedgerInv, HoldersHaveClaims
<1>4. HoldersHaveClaims'
  BY <1>1, <1>2, <1>3 DEF LedgerInv, HoldersHaveClaims
<1>5. ASSUME NEW k \in Key, claims'[k] # Never
      PROVE  posts'[k] > 0 \/ k \in Held' \cup lost'
  <2>1. CASE k = key
    BY <1>2, <1>5, <2>1
  <2>2. CASE k # key
    <3>1. posts[k] > 0 \/ k \in Held \cup lost
      BY <1>5, <1>2, <2>2 DEF LedgerInv, ClaimsAreKept
    <3>2. Holds(t, k) => k = key
      BY <1>c DEF Holds
    <3>3. k \in Held => k \in Held'
      BY <1>a, <1>1, <2>2, <3>2, LedgerFacts DEF Held, Holds
    <3> QED BY <1>b, <1>2, <3>1, <3>3
  <2> QED BY <2>1, <2>2
<1>6. \A k \in Key : MayBePosted(k)' => MayBePosted(k)
  <2> SUFFICES ASSUME NEW k \in Key, MayBePosted(k)' PROVE MayBePosted(k)
    OBVIOUS
  <2>1. CASE k = key
    BY <1>c, <2>1 DEF MayBePosted
  <2>2. CASE k # key
    BY <1>1, <1>2, <2>2 DEF MayBePosted
  <2> QED BY <2>1, <2>2
<1>7. ASSUME NEW k \in Key
      PROVE  posts'[k] + (IF MayBePosted(k)' THEN 1 ELSE 0) <= 1 + faults' + forgotten'
  <2>1. posts[k] + (IF MayBePosted(k) THEN 1 ELSE 0) <= 1 + faults + forgotten
    BY DEF LedgerInv, PostsAreOwed
  <2>2. posts[k] \in Nat
    BY <1>a, LedgerFacts
  <2> QED BY <1>a, <1>b, <1>6, <2>1, <2>2
<1> QED BY <1>1, <1>4, <1>5, <1>7 DEF LedgerInv, ClaimsAreKept, PostsAreOwed

\* After a restart what was held is lost, and nothing is held.
LEMMA CrashKeepsLedger ==
  ASSUME LedgerInv, TypeOK', Crash
  PROVE  LedgerInv'
<1>a. TypeOK /\ faults \in Nat /\ forgotten \in Nat
  BY LedgerFacts DEF LedgerInv
<1>b. /\ now' = now /\ claims' = claims /\ posts' = posts /\ forgotten' = forgotten
      /\ faults' = faults + 1 /\ lost' = lost \cup Held
      /\ \A t \in Tick : tick'[t].pc = "idle"
  BY DEF Crash, db, Fault, IdleRun
<1>1. \A t \in Tick : \A k : ~Holds(t, k)'
  BY <1>b DEF Holds
<1>2. TicksAreYoung' /\ HoldersHaveClaims'
  BY <1>b, <1>1 DEF TicksAreYoung, HoldersHaveClaims
<1>3. ClaimsAreKept'
  BY <1>b DEF LedgerInv, ClaimsAreKept
<1>4. ASSUME NEW k \in Key
      PROVE  posts'[k] + (IF MayBePosted(k)' THEN 1 ELSE 0) <= 1 + faults' + forgotten'
  <2>1. posts[k] + (IF MayBePosted(k) THEN 1 ELSE 0) <= 1 + faults + forgotten
    BY DEF LedgerInv, PostsAreOwed
  <2>2. posts[k] \in Nat
    BY <1>a, LedgerFacts
  <2>3. MayBePosted(k)' => MayBePosted(k)
    BY <1>1, <1>b DEF MayBePosted
  <2> QED BY <1>a, <1>b, <2>1, <2>2, <2>3
<1> QED BY <1>2, <1>3, <1>4 DEF LedgerInv, PostsAreOwed

\* The cleaning deletes no claim a tick still relies on: the claim of a young
\* tick is young.  Every claim it deletes is counted.
LEMMA CleanupKeepsLedger ==
  ASSUME LedgerInv, TypeOK', Cleanup
  PROVE  LedgerInv'
<1>a. /\ TypeOK /\ faults \in Nat /\ forgotten \in Nat /\ now \in Nat
      /\ claims \in [Key -> Moment \cup {Never}]
      /\ Retention \in Nat /\ Moment \subseteq Nat
  BY LedgerFacts, Parameters DEF LedgerInv, TypeOK
<1>b. /\ now' = now /\ posts' = posts /\ faults' = faults /\ tick' = tick
      /\ lost' = lost \ Expired /\ forgotten' = forgotten + Cardinality(Expired)
      /\ Expired # {}
      /\ \A k \in Key : claims'[k] = IF k \in Expired THEN Never ELSE claims[k]
  BY DEF Cleanup
<1>1. \A t \in Tick : \A k : Holds(t, k)' <=> Holds(t, k)
  BY <1>b DEF Holds
<1>2. ASSUME NEW t \in Tick, NEW k \in Key, Holds(t, k) PROVE k \notin Expired
  <2>1. tick[t].now <= claims[k] /\ claims[k] # Never
    BY <1>2 DEF LedgerInv, HoldersHaveClaims
  <2>2. now < tick[t].now + Retention
    BY <1>2 DEF LedgerInv, TicksAreYoung, Holds
  <2>3. claims[k] \in Nat /\ tick[t].now \in Nat
    BY <1>a, <2>1, RunFacts DEF Run
  <2> QED BY <1>a, <2>1, <2>2, <2>3 DEF Expired
<1>3. HoldersHaveClaims' /\ TicksAreYoung'
  BY <1>1, <1>2, <1>b DEF LedgerInv, HoldersHaveClaims, TicksAreYoung
<1>4. Held' = Held
  BY <1>b DEF Held
<1>5. ClaimsAreKept'
  BY <1>4, <1>b DEF LedgerInv, ClaimsAreKept
<1>6. Cardinality(Expired) \in Nat /\ Cardinality(Expired) > 0
  <2>1. IsFiniteSet(Expired)
    BY KeyFinite, FS_Subset DEF Expired
  <2> QED BY <1>b, <2>1, FS_CardinalityType, FS_EmptySet
<1>7. ASSUME NEW k \in Key
      PROVE  posts'[k] + (IF MayBePosted(k)' THEN 1 ELSE 0) <= 1 + faults' + forgotten'
  <2>1. posts[k] + (IF MayBePosted(k) THEN 1 ELSE 0) <= 1 + faults + forgotten
    BY DEF LedgerInv, PostsAreOwed
  <2>2. posts[k] \in Nat
    BY <1>a, LedgerFacts
  <2> QED BY <1>a, <1>b, <1>6, <2>1, <2>2
<1> QED BY <1>3, <1>5, <1>7 DEF LedgerInv, PostsAreOwed

\* A tick begins, or goes on before it claims anything.
LEMMA BeforeClaimsKeepsLedger ==
  ASSUME LedgerInv, TypeOK', NEW t \in Tick,
         Begins(t) \/ ReadState(t) \/ Upsert(t)
  PROVE  LedgerInv'
<1>a. /\ TypeOK /\ tick \in [Tick -> Run] /\ tick[t] \in Run /\ Starts # {} /\ faults \in Nat
  BY RunFacts, LedgerFacts DEF LedgerInv, TypeOK
<1>b. /\ now' = now /\ claims' = claims /\ lost' = lost /\ posts' = posts
      /\ forgotten' = forgotten /\ faults <= faults'
  BY <1>a, BeginsOnly DEF ReadState, Upsert, Fault, db, seen
<1>c. tick[t].pc \in {"idle", "fetch", "clock", "state", "upsert"}
  BY <1>a, BeginFacts DEF ReadState, Upsert
<1>1. /\ \A u \in Tick : u # t => tick'[u] = tick[u]
      /\ tick'[t].pc \notin {"send", "release"} \/ tick'[t] = tick[t]
      /\ tick'[t].pc # "idle" =>
           \/ tick'[t].now = now
           \/ tick[t].pc # "idle" /\ tick'[t].now = tick[t].now
  <2>1. CASE Begins(t)
    BY <1>a, <2>1, BeginFacts
  <2>2. ASSUME NEW todo \in Seq(Key), tick' = [tick EXCEPT ![t] = Left(tick[t], todo)],
               tick[t].pc # "idle"
        PROVE  /\ \A u \in Tick : u # t => tick'[u] = tick[u]
               /\ tick'[t].pc \notin {"send", "release"}
               /\ tick'[t].pc # "idle" => tick[t].pc # "idle" /\ tick'[t].now = tick[t].now
    BY <1>a, <2>2, GoesOnFacts
  <2>3. ASSUME Turn(t, "upsert"), tick[t].pc # "idle"
        PROVE  /\ \A u \in Tick : u # t => tick'[u] = tick[u]
               /\ tick'[t].pc \notin {"send", "release"}
               /\ tick[t].pc # "idle" /\ tick'[t].now = tick[t].now
    BY <1>a, <2>3, TurnFacts
  <2>4. ASSUME tick' = [tick EXCEPT ![t] = [tick[t] EXCEPT !.pc = "upsert",
                          !.todo = <<NoticeKey(tick[t].start)>> \o tick[t].todo]],
               tick[t].pc # "idle"
        PROVE  /\ \A u \in Tick : u # t => tick'[u] = tick[u]
               /\ tick'[t].pc \notin {"send", "release"}
               /\ tick[t].pc # "idle" /\ tick'[t].now = tick[t].now
    BY <1>a, <2>4, NoticeRun
  <2>5. CASE ReadState(t)
    BY <1>a, <2>2, <2>3, <2>4, <2>5, TodoBefore DEF ReadState, Turn
  <2>6. CASE Upsert(t)
    BY <1>a, <2>2, <2>6, TodoBefore DEF Upsert
  <2> QED BY <2>1, <2>5, <2>6
<1>2. \A u \in Tick : \A k : Holds(u, k)' <=> Holds(u, k)
  <2> SUFFICES ASSUME NEW u \in Tick, NEW k PROVE Holds(u, k)' <=> Holds(u, k)
    OBVIOUS
  <2>1. CASE u = t
    BY <1>c, <1>1, <2>1 DEF Holds
  <2>2. CASE u # t
    BY <1>1, <2>2 DEF Holds
  <2> QED BY <2>1, <2>2
<1>3. \A u \in Tick : \A k : Holds(u, k) => tick'[u].now = tick[u].now
  BY <1>c, <1>1 DEF Holds
<1>4. TicksAreYoung'
  BY <1>a, <1>b, <1>1, YoungFrame DEF LedgerInv
<1> QED BY <1>b, <1>2, <1>3, <1>4, QuietStep

\* No step of a tick, of the organiser, of the clock or of the cleaning spoils
\* the ledger.
LEMMA LedgerInductive == LedgerInv /\ [Next]_vars => LedgerInv'
<1> SUFFICES ASSUME LedgerInv, [Next]_vars PROVE LedgerInv'
  OBVIOUS
<1>a. TypeOK /\ TypeOK' /\ faults \in Nat
  BY TypeInductive, LedgerFacts DEF LedgerInv
<1>1. ASSUME NEW t \in Tick, TickStep(t) PROVE LedgerInv'
  BY <1>a, <1>1, BeforeClaimsKeepsLedger, ClaimKeepsLedger, ClaimFailsKeepsLedger,
     SendKeepsLedger, SendFailsKeepsLedger, ReleaseKeepsLedger DEF TickStep, Begins
<1>b. ASSUME claims' = claims, posts' = posts, lost' = lost, forgotten' = forgotten,
             tick' = tick, faults <= faults', TicksAreYoung'
      PROVE  LedgerInv'
  BY <1>a, <1>b, QuietStep DEF Holds
<1>2. ASSUME SkipTick \/ (\E s \in Starts : Move(s)) \/ UNCHANGED vars PROVE LedgerInv'
  <2>1. /\ claims' = claims /\ posts' = posts /\ lost' = lost /\ forgotten' = forgotten
        /\ tick' = tick /\ faults <= faults' /\ now' = now
    BY <1>2, <1>a DEF SkipTick, Move, Fault, vars, event, db, seen
  <2>2. TicksAreYoung'
    BY <2>1 DEF LedgerInv, TicksAreYoung
  <2> QED BY <1>b, <2>1, <2>2
<1>3. ASSUME Advance PROVE LedgerInv'
  <2>1. /\ claims' = claims /\ posts' = posts /\ lost' = lost /\ forgotten' = forgotten
        /\ tick' = tick /\ faults <= faults' /\ now' = now + 1
    BY <1>3, <1>a DEF Advance, Fault, db, seen
  <2>2. ASSUME NEW t \in Tick, tick[t].pc # "idle"
        PROVE  tick[t].now <= now + 1 /\ now + 1 < tick[t].now + Retention
    <3>1. tick[t].now <= now
      BY <2>2 DEF LedgerInv, TicksAreYoung
    <3>2. now \in Nat /\ tick[t].now \in Nat
      BY <1>a, LedgerFacts, RunFacts, Parameters DEF Run
    <3> QED BY <1>3, <2>2, <3>1, <3>2 DEF Advance
  <2>3. TicksAreYoung'
    BY <2>1, <2>2 DEF TicksAreYoung
  <2> QED BY <1>b, <2>1, <2>3
<1>4. ASSUME Crash \/ Cleanup PROVE LedgerInv'
  BY <1>a, <1>4, CrashKeepsLedger, CleanupKeepsLedger
<1> QED BY <1>1, <1>2, <1>3, <1>4 DEF Next

\* The ledger is right initially: nothing is claimed, posted or under way.
LEMMA LedgerInitial == Init => LedgerInv
<1> SUFFICES ASSUME Init PROVE LedgerInv
  OBVIOUS
<1>1. IdleRun \in Run /\ IdleRun.pc = "idle"
  BY Parameters, EmptySeq DEF Init, IdleRun, Run
<1>2. /\ \A t \in Tick : tick[t].pc = "idle"
      /\ \A k \in Key : claims[k] = Never /\ posts[k] = 0
  BY <1>1 DEF Init
<1>3. TypeOK
  BY <1>1, Parameters DEF Init, TypeOK
<1>4. PostsAreOwed
  BY <1>2 DEF Init, PostsAreOwed
<1> QED BY <1>2, <1>3, <1>4 DEF LedgerInv, TicksAreYoung, HoldersHaveClaims, Holds, ClaimsAreKept

\* Whatever ticks overlap, however often the event is moved and moved back, and
\* whatever fails: a message is repeated only after a failure, or after its
\* claim was cleaned.
THEOREM RemindersAreNotRepeated == Spec => []PostedOncePerClaim
<1>1. LedgerInv => PostedOncePerClaim
  <2> SUFFICES ASSUME LedgerInv, NEW k \in Key PROVE posts[k] <= 1 + faults + forgotten
    BY DEF PostedOncePerClaim
  <2>1. posts[k] + (IF MayBePosted(k) THEN 1 ELSE 0) <= 1 + faults + forgotten
    BY DEF LedgerInv, PostsAreOwed
  <2>2. posts[k] \in Nat /\ faults \in Nat /\ forgotten \in Nat
    BY LedgerFacts DEF LedgerInv
  <2> QED BY <2>1, <2>2
<1> QED BY <1>1, LedgerInitial, LedgerInductive, PTL DEF Spec

\* A claim stands only for a message that was posted, that a tick is about to
\* post or to release, or whose tick was cut off.
THEOREM ClaimsStandForMessages == Spec => []ClaimsAreKept
<1>1. LedgerInv => ClaimsAreKept
  BY DEF LedgerInv
<1> QED BY <1>1, LedgerInitial, LedgerInductive, PTL DEF Spec

-----------------------------------------------------------------------------
(* The windows *)

\* Failures are counted.
LEMMA FaultsAreCounted == [Next]_vars => faults' = faults \/ Fault
  BY DEF Next, TickStep, StartTick, FetchEvent, ReadClock, FetchFails, SkipTick, ReadState,
     Upsert, Claim, ClaimFails, Send, SendFails, Release, Crash, Move, Advance, Cleanup, vars

\* A tick that has read the clock does not wait for the event again.
LEMMA TickGoesOn ==
  ASSUME TypeOK, NEW t \in Tick, TickStep(t), ~Begins(t)
  PROVE  /\ \A u \in Tick : u # t => tick'[u] = tick[u]
         /\ tick[t].pc \notin {"fetch", "clock"} /\ tick'[t].pc \notin {"fetch", "clock"}
<1>1. tick[t] \in Run
  BY RunFacts
<1>2. ASSUME NEW todo \in Seq(Key), tick' = [tick EXCEPT ![t] = Left(tick[t], todo)]
      PROVE  /\ \A u \in Tick : u # t => tick'[u] = tick[u]
             /\ tick'[t].pc \notin {"fetch", "clock"}
  BY <1>2, GoesOnFacts
<1>3. ASSUME NEW pc \in {"upsert", "send", "release"}, Turn(t, pc)
      PROVE  /\ \A u \in Tick : u # t => tick'[u] = tick[u]
             /\ tick'[t].pc \notin {"fetch", "clock"}
  BY <1>3, TurnFacts
<1>4. CASE ReadState(t)
  <2>1. ASSUME tick' = [tick EXCEPT ![t] = [tick[t] EXCEPT !.pc = "upsert",
                          !.todo = <<NoticeKey(tick[t].start)>> \o tick[t].todo]]
        PROVE  /\ \A u \in Tick : u # t => tick'[u] = tick[u]
               /\ tick'[t].pc \notin {"fetch", "clock"}
    BY <2>1, NoticeRun
  <2> QED BY <1>1, <1>2, <1>3, <1>4, <2>1, TodoBefore DEF ReadState, Turn
<1>5. CASE Upsert(t)
  BY <1>1, <1>2, <1>5, TodoBefore DEF Upsert
<1>6. CASE Claim(t) \/ ClaimFails(t) \/ Send(t) \/ SendFails(t) \/ Release(t)
  <2>1. tick[t].pc \in {"claim", "send", "release"}
    BY <1>6 DEF Claim, ClaimFails, Send, SendFails, Release
  <2>2. Proceed(t) \/ Turn(t, "send") \/ Turn(t, "release")
    BY <1>6 DEF Claim, ClaimFails, Send, SendFails, AfterFailure, Release
  <2>3. Proceed(t) => /\ \A u \in Tick : u # t => tick'[u] = tick[u]
                      /\ tick'[t].pc \notin {"fetch", "clock"}
    BY <2>1, ProceedFacts
  <2> QED BY <1>3, <2>1, <2>2, <2>3
<1> QED BY <1>4, <1>5, <1>6 DEF TickStep, Begins

\* Ticks neither fire early nor late, and nothing is lost without a failure.
LEMMA ScheduleInductive ==
  ASSUME TypeOK, ScheduleIsKept, [Next]_vars
  PROVE  ScheduleIsKept'
<1>a. /\ now \in Nat /\ due \in Nat /\ faults \in Nat /\ Interval \in Nat /\ Interval > 0
      /\ Delay \in Nat
  BY LedgerFacts, Parameters DEF TypeOK
<1>1. now' <= due' /\ due' <= now' + Interval
  <2>1. ASSUME now' = now, due' = due PROVE now' <= due' /\ due' <= now' + Interval
    BY <2>1 DEF ScheduleIsKept
  <2>2. ASSUME now' = now, due' = now + Interval PROVE now' <= due' /\ due' <= now' + Interval
    BY <1>a, <2>2
  <2>3. CASE \E t \in Tick : TickStep(t)
    BY <2>1, <2>2, <2>3
    DEF TickStep, StartTick, FetchEvent, ReadClock, FetchFails, ReadState, Upsert, Claim,
        ClaimFails, Send, SendFails, Release
  <2>4. CASE SkipTick \/ Crash \/ (\E s \in Starts : Move(s)) \/ Cleanup \/ UNCHANGED vars
    BY <2>1, <2>2, <2>4 DEF SkipTick, Crash, Move, Cleanup, vars
  <2>5. CASE Advance
    BY <1>a, <2>5 DEF Advance, ScheduleIsKept
  <2> QED BY <2>3, <2>4, <2>5 DEF Next
<1>2. faults' = 0 => lost' = {}
  <2>1. ASSUME faults' = faults, lost' \subseteq lost PROVE faults' = 0 => lost' = {}
    BY <2>1 DEF ScheduleIsKept
  <2>2. ASSUME faults' = faults + 1 PROVE faults' = 0 => lost' = {}
    BY <1>a, <2>2
  <2>3. CASE \E t \in Tick : TickStep(t)
    BY <2>1, <2>2, <2>3
    DEF TickStep, StartTick, FetchEvent, ReadClock, FetchFails, ReadState, Upsert, Claim,
        ClaimFails, Send, SendFails, Release, Fault, seen
  <2>4. CASE SkipTick \/ Crash \/ (\E s \in Starts : Move(s)) \/ Cleanup \/ Advance
               \/ UNCHANGED vars
    BY <2>1, <2>2, <2>4 DEF SkipTick, Crash, Move, Cleanup, Advance, Fault, vars, seen
  <2> QED BY <2>3, <2>4 DEF Next
<1>3. ASSUME faults' = 0, NEW t \in Tick, Waiting(t)' PROVE now' <= tick'[t].now + Delay
  <2>1. faults = 0 /\ ~Fault
    <3>1. faults' = faults \/ Fault
      BY FaultsAreCounted
    <3> QED BY <1>3, <1>a, <3>1 DEF Fault
  <2>2. ASSUME tick'[t] = tick[t], now' = now PROVE now' <= tick'[t].now + Delay
    BY <1>3, <2>1, <2>2 DEF ScheduleIsKept, Waiting
  <2>3. ASSUME NEW u \in Tick, TickStep(u) PROVE now' <= tick'[t].now + Delay
    <3>1. now' = now
      BY <2>3 DEF TickStep, StartTick, FetchEvent, ReadClock, FetchFails, ReadState, Upsert,
         Claim, ClaimFails, Send, SendFails, Release
    <3>2. CASE tick'[t] = tick[t]
      BY <2>2, <3>1, <3>2
    <3>3. CASE Begins(u) /\ tick'[t] # tick[t]
      <4>1. t = u
        BY <3>3, BeginFacts
      <4>2. \/ tick'[t].now = now
            \/ /\ tick[t].pc \in {"fetch", "clock"} /\ tick'[t].now = tick[t].now
        BY <1>3, <3>3, <4>1, BeginFacts DEF Waiting
      <4>3. tick[t].pc \in {"fetch", "clock"} => now <= tick[t].now + Delay
        BY <2>1 DEF ScheduleIsKept, Waiting
      <4> QED BY <1>a, <3>1, <4>2, <4>3
    <3>4. CASE ~Begins(u) /\ tick'[t] # tick[t]
      <4>1. t = u /\ tick'[t].pc \notin {"fetch", "clock"}
        BY <2>3, <3>4, TickGoesOn
      <4> QED BY <1>3, <4>1 DEF Waiting
    <3> QED BY <3>2, <3>3, <3>4
  <2>4. CASE Advance
    <3>1. ~Overdue(t) /\ tick' = tick /\ now' = now + 1
      BY <2>1, <2>4 DEF Advance
    <3>2. Waiting(t) /\ ~(now >= tick[t].now + Delay)
      BY <1>3, <3>1 DEF Overdue, Waiting
    <3>3. tick[t].now \in Nat
      BY RunFacts, Parameters DEF Run
    <3> QED BY <1>a, <3>1, <3>2, <3>3
  <2>5. CASE Crash \/ SkipTick
    BY <2>1, <2>5 DEF Crash, SkipTick
  <2>6. CASE (\E s \in Starts : Move(s)) \/ Cleanup \/ UNCHANGED vars
    BY <2>2, <2>6 DEF Move, Cleanup, vars
  <2> QED BY <2>3, <2>4, <2>5, <2>6 DEF Next
<1> QED BY <1>1, <1>2, <1>3 DEF ScheduleIsKept

\* A tick has what it holds among its reminders.
LEMMA HeldIsInTodo ==
  ASSUME TypeOK, NEW t \in Tick, NEW k, Holds(t, k)
  PROVE  InTodo(t, k)
<1>1. tick[t].todo \in Seq(Key) /\ tick[t].todo # <<>>
  BY RunFacts DEF Holds
<1> QED BY <1>1, TodoFacts DEF Holds, InTodo

\* A tick that deals with its first reminder keeps the others.
LEMMA OthersStayInTodo ==
  ASSUME TypeOK, NEW t \in Tick, tick[t].pc \in {"claim", "send", "release"}, Proceed(t),
         NEW u \in Tick, NEW k, InTodo(u, k)
  PROVE  InTodo(u, k)' \/ (u = t /\ k = Head(tick[t].todo))
<1>1. CASE u # t
  <2>1. tick'[u] = tick[u]
    BY <1>1, ProceedFacts
  <2> QED BY <2>1 DEF InTodo
<1>2. CASE u = t /\ k # Head(tick[t].todo)
  <2>1. tick[t].todo \in Seq(Key) /\ tick[t].todo # <<>>
    BY RunFacts
  <2>2. PICK i \in DOMAIN tick[t].todo : tick[t].todo[i] = k
    BY <1>2 DEF InTodo
  <2>3. i # 1
    BY <1>2, <2>1, <2>2, TodoFacts
  <2>4. i - 1 \in DOMAIN Tail(tick[t].todo) /\ Tail(tick[t].todo)[i - 1] = k
    BY <2>1, <2>2, <2>3, TodoFacts
  <2>5. tick'[t].todo = Tail(tick[t].todo)
    BY ProceedFacts
  <2> QED BY <1>2, <2>4, <2>5 DEF InTodo
<1> QED BY <1>1, <1>2

\* No tick stops with reminders left, or takes a claim back without a failure.
LEMMA RunsInductive ==
  ASSUME TypeOK, RunsAreRegular, [Next]_vars
  PROVE  RunsAreRegular'
<1>a. tick \in [Tick -> Run]
  BY DEF TypeOK
<1>b. faults \in Nat /\ (Fault => faults' > 0) /\ faults' >= faults
  <2>1. faults \in Nat
    BY LedgerFacts
  <2>2. Fault \/ faults' = faults
    BY FaultsAreCounted
  <2>3. Fault => faults' = faults + 1
    BY DEF Fault
  <2> QED BY <2>1, <2>2, <2>3
<1>c. \A t \in Tick : tick'[t] = tick[t] =>
        /\ tick'[t].pc \in {"idle", "fetch", "clock"} => tick'[t].todo = <<>>
        /\ tick'[t].pc = "release" => faults' > 0
  <2>1. faults > 0 => faults' > 0
    BY <1>b, TypeInductive DEF TypeOK
  <2> QED BY <2>1 DEF RunsAreRegular
<1>1. ASSUME NEW t \in Tick, \A u \in Tick : u # t => tick'[u] = tick[u],
             tick'[t].pc \in {"idle", "fetch", "clock"} => tick'[t].todo = <<>>,
             tick'[t].pc = "release" => Fault
      PROVE  RunsAreRegular'
  BY <1>b, <1>c, <1>1 DEF RunsAreRegular
<1>2. ASSUME NEW t \in Tick, NEW todo \in Seq(Key),
             tick' = [tick EXCEPT ![t] = Left(tick[t], todo)]
      PROVE  RunsAreRegular'
  <2>1. /\ \A u \in Tick : u # t => tick'[u] = tick[u]
        /\ tick'[t].pc \in {"idle", "claim"}
        /\ tick'[t].pc = "idle" => tick'[t].todo = <<>>
    BY <1>2, GoesOnFacts
  <2> QED BY <1>1, <2>1
<1>3. ASSUME NEW t \in Tick, NEW pc \in {"upsert", "send", "release"}, Turn(t, pc),
             pc = "release" => Fault
      PROVE  RunsAreRegular'
  <2>1. /\ \A u \in Tick : u # t => tick'[u] = tick[u]
        /\ tick'[t].pc = pc /\ pc \notin {"idle", "fetch", "clock"}
    BY <1>3, TurnFacts
  <2> QED BY <1>1, <1>3, <2>1
<1>4. ASSUME NEW t \in Tick, tick[t].pc \in {"claim", "send", "release"}, Proceed(t)
      PROVE  RunsAreRegular'
  BY <1>1, <1>4, ProceedFacts
<1>5. ASSUME tick' = tick PROVE RunsAreRegular'
  BY <1>c, <1>5 DEF RunsAreRegular
<1>6. ASSUME NEW t \in Tick, Begins(t) PROVE RunsAreRegular'
  <2>1. tick[t].todo = <<>>
    BY <1>6, BeginFacts DEF RunsAreRegular
  <2> QED BY <1>1, <1>6, <2>1, BeginFacts
<1>7. ASSUME NEW t \in Tick, ReadState(t) \/ Upsert(t) PROVE RunsAreRegular'
  <2>1. ASSUME tick' = [tick EXCEPT ![t] = [tick[t] EXCEPT !.pc = "upsert",
                          !.todo = <<NoticeKey(tick[t].start)>> \o tick[t].todo]]
        PROVE  RunsAreRegular'
    BY <1>1, <2>1, NoticeRun
  <2>2. tick[t] \in Run
    BY <1>a
  <2>3. CASE ReadState(t)
    BY <1>2, <1>3, <2>1, <2>2, <2>3, TodoBefore DEF ReadState, Turn
  <2>4. CASE Upsert(t)
    BY <1>2, <2>2, <2>4, TodoBefore DEF Upsert
  <2> QED BY <1>7, <2>3, <2>4
<1>8. ASSUME NEW t \in Tick, Claim(t) \/ ClaimFails(t) \/ Send(t) \/ SendFails(t) \/ Release(t)
      PROVE  RunsAreRegular'
  BY <1>3, <1>4, <1>8 DEF Claim, ClaimFails, Send, SendFails, AfterFailure, Release
<1>9. ASSUME Crash PROVE RunsAreRegular'
  BY <1>9 DEF Crash, IdleRun, RunsAreRegular
<1>10. ASSUME SkipTick \/ (\E s \in Starts : Move(s)) \/ Advance \/ Cleanup \/ UNCHANGED vars
       PROVE  RunsAreRegular'
  BY <1>5, <1>10 DEF SkipTick, Move, Advance, Cleanup, vars
<1> QED BY <1>6, <1>7, <1>8, <1>9, <1>10 DEF Next, TickStep, Begins

\* Without failures a reminder that is posted or among a tick's reminders stays
\* so: a tick passes it over only if another has posted it or is about to.
LEMMA SeenStays ==
  ASSUME LedgerInv, ScheduleIsKept, RunsAreRegular, [Next]_vars, faults = 0, faults' = 0,
         NEW k \in Key, Seen(k)
  PROVE  Seen(k)'
<1>a. /\ TypeOK /\ tick \in [Tick -> Run] /\ posts \in [Key -> Nat]
  BY DEF LedgerInv, TypeOK
<1>b. lost = {} /\ ~Fault
  BY DEF ScheduleIsKept, Fault
<1>d. ASSUME posts' = posts, \A t \in Tick : InTodo(t, k) => InTodo(t, k)'
      PROVE  Seen(k)'
  BY <1>d DEF Seen
<1>1. ASSUME NEW t \in Tick, Begins(t) PROVE Seen(k)'
  <2>1. posts' = posts /\ \A u \in Tick : u # t => tick'[u] = tick[u]
    BY <1>1, <1>a, BeginFacts, BeginsOnly DEF seen
  <2>2. ~InTodo(t, k)
    BY <1>1, <1>a, BeginFacts DEF RunsAreRegular, InTodo
  <2>3. \A u \in Tick : InTodo(u, k) => InTodo(u, k)'
    BY <2>1, <2>2 DEF InTodo
  <2> QED BY <1>d, <2>1, <2>3
<1>e. ASSUME NEW t \in Tick, \A u \in Tick : u # t => tick'[u] = tick[u],
             InTodo(t, k) => InTodo(t, k)', posts' = posts
      PROVE  Seen(k)'
  <2>1. \A u \in Tick : InTodo(u, k) => InTodo(u, k)'
    BY <1>e DEF InTodo
  <2> QED BY <1>d, <1>e, <2>1
<1>2. ASSUME NEW t \in Tick, ReadState(t) PROVE Seen(k)'
  <2>1. tick[t] \in Run /\ tick[t].todo \in Seq(Key) /\ posts' = posts
    BY <1>2, RunFacts, <1>a DEF ReadState, seen
  <2>2. CASE tick' = [tick EXCEPT ![t] = Left(tick[t], tick[t].todo)]
    <3>1. tick'[t].todo = tick[t].todo /\ \A u \in Tick : u # t => tick'[u] = tick[u]
      BY <1>a, <2>1, <2>2, GoesOnFacts
    <3> QED BY <1>e, <2>1, <3>1 DEF InTodo
  <2>3. CASE Turn(t, "upsert")
    <3>1. tick'[t].todo = tick[t].todo /\ \A u \in Tick : u # t => tick'[u] = tick[u]
      BY <1>a, <2>3, TurnFacts
    <3> QED BY <1>e, <2>1, <3>1 DEF InTodo
  <2>4. CASE tick' = [tick EXCEPT ![t] = [tick[t] EXCEPT !.pc = "upsert",
                        !.todo = <<NoticeKey(tick[t].start)>> \o tick[t].todo]]
    <3> DEFINE todo == tick[t].todo
               notice == <<NoticeKey(tick[t].start)>>
    <3>1. /\ \A u \in Tick : u # t => tick'[u] = tick[u]
          /\ tick'[t].todo = notice \o todo
      BY <1>a, <2>4, NoticeRun
    <3>2. todo \in Seq(Key) /\ notice \in Seq(Key) /\ Len(notice) = 1
      BY <2>1 DEF Run, Key
    <3>3. \A i \in DOMAIN todo : i + 1 \in DOMAIN (notice \o todo)
                                   /\ (notice \o todo)[i + 1] = todo[i]
      <4> HIDE DEF todo, notice
      <4>1. DOMAIN todo = 1..Len(todo) /\ Len(todo) \in Nat
        BY <3>2, LenProperties
      <4>2. notice \o todo \in Seq(Key) /\ Len(notice \o todo) = 1 + Len(todo)
        BY ZenonT(60), <3>2, ConcatProperties
      <4>3. DOMAIN (notice \o todo) = 1..(1 + Len(todo))
        BY <4>2, LenProperties
      <4>4. \A i \in 1..(1 + Len(todo)) :
              (notice \o todo)[i] = IF i <= 1 THEN notice[i] ELSE todo[i - 1]
        BY SMTT(60), <3>2, ConcatProperties
      <4> QED BY <4>1, <4>3, <4>4
    <3> QED BY ZenonT(60), <1>e, <2>1, <3>1, <3>3 DEF InTodo
  <2> QED BY <1>2, <1>b, <2>2, <2>3, <2>4 DEF ReadState, Turn
<1>3. ASSUME NEW t \in Tick, Upsert(t) PROVE Seen(k)'
  <2>1. tick[t].todo \in Seq(Key) /\ posts' = posts
    BY <1>3, RunFacts, <1>a DEF Upsert, seen
  <2>2. tick' = [tick EXCEPT ![t] = Left(tick[t], tick[t].todo)]
    BY <1>3, <1>b DEF Upsert
  <2>3. tick'[t].todo = tick[t].todo /\ \A u \in Tick : u # t => tick'[u] = tick[u]
    BY <1>a, <2>1, <2>2, GoesOnFacts
  <2> QED BY <1>e, <2>1, <2>3 DEF InTodo
<1>4. ASSUME NEW t \in Tick, Claim(t) PROVE Seen(k)'
  <2>1. posts' = posts /\ tick[t].pc = "claim"
    BY <1>4 DEF Claim, seen
  <2>2. CASE Turn(t, "send")
    <3>1. tick'[t].todo = tick[t].todo /\ \A u \in Tick : u # t => tick'[u] = tick[u]
      BY <1>a, <2>2, TurnFacts
    <3> QED BY <1>e, <2>1, <3>1 DEF InTodo
  <2>3. CASE ~Unclaimed(Head(tick[t].todo)) /\ Proceed(t)
    <3>1. CASE k = Head(tick[t].todo)
      <4>1. posts[k] > 0 \/ k \in Held
        BY <1>b, <2>3, <3>1 DEF LedgerInv, ClaimsAreKept, Unclaimed
      <4>2. CASE posts[k] > 0
        BY <2>1, <4>2 DEF Seen
      <4>3. CASE k \in Held
        <5>1. PICK u \in Tick : Holds(u, k)
          BY <1>a, <4>3, LedgerFacts
        <5>2. u # t
          BY <2>1, <5>1 DEF Holds
        <5>3. InTodo(u, k)
          BY <1>a, <5>1, HeldIsInTodo
        <5>4. InTodo(u, k)'
          BY <1>a, <2>1, <2>3, <5>2, <5>3, OthersStayInTodo
        <5> QED BY <5>4 DEF Seen
      <4> QED BY <4>1, <4>2, <4>3
    <3>2. CASE k # Head(tick[t].todo)
      <4>1. \A u \in Tick : InTodo(u, k) => InTodo(u, k)'
        BY <1>a, <2>1, <2>3, <3>2, OthersStayInTodo
      <4> QED BY <1>d, <2>1, <4>1
    <3> QED BY <3>1, <3>2
  <2> QED BY <1>4, <2>2, <2>3 DEF Claim
<1>5. ASSUME NEW t \in Tick, Send(t) PROVE Seen(k)'
  <2>1. /\ tick[t].pc = "send" /\ Proceed(t)
        /\ posts' = [posts EXCEPT ![Head(tick[t].todo)] = posts[Head(tick[t].todo)] + 1]
    BY <1>5 DEF Send, Post
  <2>2. CASE k = Head(tick[t].todo)
    <3>1. posts'[k] > 0
      BY <1>a, <2>1, <2>2
    <3> QED BY <3>1 DEF Seen
  <2>3. CASE k # Head(tick[t].todo)
    <3>1. posts'[k] = posts[k]
      BY <1>a, <2>1, <2>3
    <3>2. \A u \in Tick : InTodo(u, k) => InTodo(u, k)'
      BY <1>a, <2>1, <2>3, OthersStayInTodo
    <3> QED BY <3>1, <3>2 DEF Seen
  <2> QED BY <2>2, <2>3
<1>6. ASSUME NEW t \in Tick, Release(t) PROVE FALSE
  BY <1>6 DEF Release, RunsAreRegular
<1>7. ASSUME Crash \/ SkipTick \/ (\E t \in Tick : ClaimFails(t) \/ SendFails(t)) PROVE FALSE
  BY <1>b, <1>7 DEF Crash, SkipTick, ClaimFails, SendFails, Fault
<1>8. ASSUME (\E s \in Starts : Move(s)) \/ Advance \/ Cleanup \/ UNCHANGED vars
      PROVE  Seen(k)'
  <2>1. tick' = tick /\ posts' = posts
    BY <1>8 DEF Move, Advance, Cleanup, vars, seen
  <2> QED BY <2>1 DEF Seen, InTodo
<1> QED BY <1>1, <1>2, <1>3, <1>4, <1>5, <1>6, <1>7, <1>8 DEF Next, TickStep, Begins

\* A tick that fires within the tolerance of a window takes the window up.
LEMMA NearWindow ==
  ASSUME NEW w \in Window, NEW s \in Nat, NEW m \in Nat,
         s - OffsetOf(w) - Tolerance <= m, m <= s - OffsetOf(w) + Tolerance
  PROVE  Near(w, s, m) /\ s > m
<1>1. OffsetOf(w) \in Nat /\ OffsetOf(w) > Tolerance /\ Tolerance \in Nat
  BY WindowKeyFacts, Parameters
<1>2. CASE s - m >= OffsetOf(w)
  BY <1>1, <1>2 DEF Near, Drift
<1>3. CASE ~(s - m >= OffsetOf(w))
  BY <1>1, <1>3 DEF Near, Drift
<1> QED BY <1>2, <1>3

\* A tick that waits keeps its place until it reads the clock.
LEMMA ComingStays ==
  ASSUME LedgerInv, NEW t \in Tick, NEW w \in Window, Coming(t, w),
         NEW u \in Tick, TickStep(u), ~ReadClock(t), ~FetchFails(t), start' = start
  PROVE  Coming(t, w)'
<1>a. TypeOK /\ tick \in [Tick -> Run] /\ tick[t] \in Run /\ start \in Starts
  BY DEF LedgerInv, TypeOK
<1>1. CASE t # u
  <2>1. tick'[t] = tick[t]
    BY <1>a, <1>1, BeginFacts, TickGoesOn
  <2> QED BY <2>1 DEF Coming, Waiting
<1>2. CASE t = u
  <2>1. tick[t].pc \in {"fetch", "clock"}
    BY DEF Coming, Waiting
  <2>2. FetchEvent(t)
    BY <1>2, <1>a, <2>1, TickGoesOn DEF Begins, StartTick
  <2>3. /\ tick'[t].pc = "clock" /\ tick'[t].now = tick[t].now
        /\ tick'[t].start = start
    BY <1>a, <2>2 DEF FetchEvent, Run
  <2> QED BY <2>3 DEF Coming, Waiting
<1> QED BY <1>1, <1>2

\* A tick that reads the clock while the window is open takes it up.
LEMMA ComingSees ==
  ASSUME LedgerInv, ScheduleIsKept, faults = 0,
         NEW t \in Tick, NEW w \in Window, Coming(t, w), ReadClock(t)
  PROVE  InTodo(t, WindowKey(w))'
<1>a. /\ TypeOK /\ tick \in [Tick -> Run] /\ tick[t] \in Run /\ now \in Nat /\ start \in Nat
      /\ Tolerance \in Nat /\ Delay \in Nat /\ OffsetOf(w) \in Nat
  BY Parameters, WindowKeyFacts DEF LedgerInv, TypeOK
<1>1. tick[t].pc = "clock" /\ tick[t].start = start
  BY DEF ReadClock, Coming
<1>2. /\ tick[t].now <= now /\ now <= tick[t].now + Delay /\ tick[t].now \in Nat
      /\ start - OffsetOf(w) - Tolerance <= tick[t].now
      /\ tick[t].now + Delay <= start - OffsetOf(w) + Tolerance
  BY <1>a, <1>1, Parameters DEF LedgerInv, TicksAreYoung, ScheduleIsKept, Waiting, Coming, Run
<1>3. Near(w, start, now) /\ start > now
  BY <1>a, <1>2, NearWindow
<1> DEFINE r == [pc |-> "state", start |-> start, now |-> now, todo |-> WindowKeys(start, now)]
<1>4. tick' = [tick EXCEPT ![t] = r]
  BY <1>1, <1>3 DEF ReadClock
<1>5. r.todo = WindowKeys(start, now)
  OBVIOUS
<1> HIDE DEF r
<1>6. tick'[t].todo = WindowKeys(start, now)
  BY <1>a, <1>4, <1>5
<1> QED BY <1>3, <1>6, WindowKeysFacts DEF InTodo

\* The schedule fires at least once so that the answer comes while the window is
\* open, and the tick that fires then takes it up.
LEMMA WindowsInductive ==
  ASSUME LedgerInv, ScheduleIsKept, RunsAreRegular, WindowsAreSeen, [Next]_vars
  PROVE  WindowsAreSeen'
<1>a. /\ TypeOK /\ now \in Nat /\ due \in Nat /\ start \in Nat /\ since \in Nat
      /\ faults \in Nat /\ tick \in [Tick -> Run]
      /\ Tolerance \in Nat /\ Interval \in Nat /\ Delay \in Nat
      /\ Interval + Delay <= 2 * Tolerance /\ Starts \subseteq Nat
  BY Parameters DEF LedgerInv, TypeOK
<1> SUFFICES ASSUME faults' = 0, NEW w \in Window,
                    since' <= start' - OffsetOf(w) - Tolerance,
                    due' > start' - OffsetOf(w) + Tolerance - Delay
             PROVE  Seen(WindowKey(w))' \/ \E t \in Tick : Coming(t, w)'
  BY DEF WindowsAreSeen
<1>b. OffsetOf(w) \in Nat /\ WindowKey(w) \in Key
  BY WindowKeyFacts
<1>c. faults = 0 /\ ~Fault
  BY <1>a, FaultsAreCounted DEF Fault
<1>1. ASSUME start' = start, since' = since, due > start - OffsetOf(w) + Tolerance - Delay
      PROVE  Seen(WindowKey(w))' \/ \E t \in Tick : Coming(t, w)
  <2>1. Seen(WindowKey(w)) \/ \E t \in Tick : Coming(t, w)
    BY <1>1, <1>c DEF WindowsAreSeen
  <2> QED BY <2>1, <1>b, <1>c, SeenStays
<1>2. ASSUME NEW u \in Tick, TickStep(u), start' = start, since' = since,
             due > start - OffsetOf(w) + Tolerance - Delay
      PROVE  Seen(WindowKey(w))' \/ \E t \in Tick : Coming(t, w)'
  <2>1. ASSUME NEW t \in Tick, Coming(t, w)
        PROVE  Seen(WindowKey(w))' \/ \E v \in Tick : Coming(v, w)'
    <3>1. ~FetchFails(t)
      BY <1>c DEF FetchFails
    <3>2. CASE ReadClock(t)
      <4>1. InTodo(t, WindowKey(w))'
        BY <1>c, <2>1, <3>2, ComingSees
      <4> QED BY <4>1 DEF Seen
    <3>3. CASE ~ReadClock(t)
      BY <1>2, <2>1, <3>1, <3>3, ComingStays
    <3> QED BY <3>2, <3>3
  <2> QED BY <1>1, <1>2, <2>1
<1>3. ASSUME NEW t \in Tick, StartTick(t)
      PROVE  Seen(WindowKey(w))' \/ \E u \in Tick : Coming(u, w)'
  <2>1. due = now /\ due' = now + Interval /\ start' = start /\ since' = since
    BY <1>3 DEF StartTick, event
  <2>2. CASE due > start - OffsetOf(w) + Tolerance - Delay
    BY <1>2, <1>3, <2>1, <2>2 DEF TickStep
  <2>3. CASE ~(due > start - OffsetOf(w) + Tolerance - Delay)
    <3>1. /\ start - OffsetOf(w) - Tolerance <= now
          /\ now + Delay <= start - OffsetOf(w) + Tolerance
      BY <1>a, <1>b, <2>1, <2>3
    <3>2. tick'[t].pc = "fetch" /\ tick'[t].now = now
      BY <1>3, <1>a DEF StartTick, IdleRun
    <3>3. Coming(t, w)'
      BY <2>1, <3>1, <3>2 DEF Coming, Waiting
    <3> QED BY <3>3
  <2> QED BY <2>2, <2>3
<1>4. ASSUME NEW s \in Starts, Move(s) PROVE FALSE
  <2>1. start' = s /\ since' = now /\ due' = due
    BY <1>4 DEF Move
  <2>2. due <= now + Interval
    BY DEF ScheduleIsKept
  <2>3. s \in Nat
    BY <1>a
  <2> QED BY <1>a, <1>b, <2>1, <2>2, <2>3
<1>5. ASSUME NEW t \in Tick, TickStep(t), ~StartTick(t)
      PROVE  Seen(WindowKey(w))' \/ \E u \in Tick : Coming(u, w)'
  <2>1. due' = due /\ start' = start /\ since' = since
    BY <1>5 DEF TickStep, FetchEvent, ReadClock, FetchFails, ReadState, Upsert, Claim,
       ClaimFails, Send, SendFails, Release, event
  <2> QED BY <1>2, <1>5, <2>1
<1>6. ASSUME Advance \/ Cleanup \/ UNCHANGED vars
      PROVE  Seen(WindowKey(w))' \/ \E t \in Tick : Coming(t, w)'
  <2>1. tick' = tick /\ due' = due /\ start' = start /\ since' = since
    BY <1>6 DEF Advance, Cleanup, vars, event
  <2>2. \A t \in Tick : Coming(t, w) => Coming(t, w)'
    BY <2>1 DEF Coming, Waiting
  <2> QED BY <1>1, <2>1, <2>2
<1>7. ASSUME SkipTick \/ Crash PROVE FALSE
  BY <1>c, <1>7 DEF SkipTick, Crash
<1> QED BY <1>3, <1>4, <1>5, <1>6, <1>7 DEF Next

\* The inductive invariant holds in every reachable state.
LEMMA RemindersInv == Spec => []IInv
<1>1. Init => IInv
  <2> SUFFICES ASSUME Init PROVE IInv
    OBVIOUS
  <2>a. /\ \A t \in Tick : tick[t] = IdleRun
        /\ now = 0 /\ since = 0 /\ due \in 0..(Interval - 1) /\ start \in Nat
        /\ Tolerance \in Nat /\ Interval \in Nat /\ Delay \in Nat
        /\ Interval + Delay <= 2 * Tolerance
    BY Parameters DEF Init
  <2>1. ScheduleIsKept
    BY <2>a DEF Init, ScheduleIsKept, Waiting, IdleRun
  <2>2. RunsAreRegular
    <3>1. IdleRun.pc = "idle" /\ IdleRun.todo = <<>>
      BY DEF IdleRun
    <3> QED BY <2>a, <3>1 DEF RunsAreRegular
  <2>3. WindowsAreSeen
    <3> SUFFICES ASSUME NEW w \in Window,
                        since <= start - OffsetOf(w) - Tolerance,
                        due > start - OffsetOf(w) + Tolerance - Delay
                 PROVE  FALSE
      BY DEF WindowsAreSeen
    <3>1. OffsetOf(w) \in Nat
      BY WindowKeyFacts
    <3> QED BY <2>a, <3>1
  <2> QED BY <2>1, <2>2, <2>3, LedgerInitial DEF IInv
<1>2. IInv /\ [Next]_vars => IInv'
  <2> SUFFICES ASSUME IInv, [Next]_vars PROVE IInv'
    OBVIOUS
  <2>1. TypeOK
    BY DEF IInv, LedgerInv
  <2> QED BY <2>1, LedgerInductive, ScheduleInductive, RunsInductive, WindowsInductive DEF IInv
<1> QED BY <1>1, <1>2, PTL DEF Spec

\* If nothing fails, a schedule misses no window of a start time that stood before
\* the window opened: its interval and the time an answer takes are together at
\* most two tolerances.
THEOREM NoWindowIsMissed == Spec => []RemindersComeInTime
<1>1. IInv => RemindersComeInTime
  <2> SUFFICES ASSUME IInv, faults = 0, NEW w \in Window,
                      since <= start - OffsetOf(w) - Tolerance,
                      now > start - OffsetOf(w) + Tolerance
               PROVE  Seen(WindowKey(w))
    BY DEF RemindersComeInTime, Seen, InTodo
  <2>1. /\ now \in Nat /\ due \in Nat /\ start \in Nat /\ Tolerance \in Nat /\ Delay \in Nat
        /\ OffsetOf(w) \in Nat /\ \A t \in Tick : tick[t].now \in Nat
    BY Parameters, WindowKeyFacts, RunFacts DEF IInv, LedgerInv, TypeOK, Run
  <2>2. due > start - OffsetOf(w) + Tolerance - Delay
    BY <2>1 DEF IInv, ScheduleIsKept
  <2>3. ASSUME NEW t \in Tick, Coming(t, w) PROVE FALSE
    <3>1. now <= tick[t].now + Delay
      BY <2>3 DEF IInv, ScheduleIsKept, Coming
    <3>2. tick[t].now + Delay <= start - OffsetOf(w) + Tolerance
      BY <2>3 DEF Coming
    <3> QED BY <2>1, <3>1, <3>2
  <2> QED BY <2>2, <2>3 DEF IInv, WindowsAreSeen
<1> QED BY <1>1, RemindersInv, PTL
=============================================================================
