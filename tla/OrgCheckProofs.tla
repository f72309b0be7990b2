--------------------------- MODULE OrgCheckProofs ---------------------------
(***************************************************************************)
(* For any number of checks, slots, retries and threads, and any spacing:  *)
(* the counter of the rate limiter is exact and never above the limit, its *)
(* queue holds exactly the waiting calls and it cannot stall; the worker   *)
(* pool forgets no thread and no request; and a verdict is the verdict of  *)
(* the citizen's own pages.                                                *)
(***************************************************************************)
EXTENDS OrgCheck, FiniteSetTheorems, SequenceTheorems, TLAPS

\* The invariant of the limiter.  The elements of the queue are needed to know
\* that the call a drain starts was waiting, and so was not counted before.
LimiterInv ==
  /\ TypeOK
  /\ ConcurrencyHolds
  /\ QueueHoldsWaiting
  /\ NeverStalled

\* What the bot and the threads of the pool send each other
Request == [id : Nat, work : [caller : Call, type : Parsing]]
AnswerText == OrgOutcome \cup {Unread, "threw", "visible", "hidden", "canonical", "submitted"}
Thread == [fate : Fate, inbox : Seq(Request),
           outbox : Seq([id : Nat, answer : AnswerText])]

\* What a mailbox holds
Content(s) == {s[i] : i \in 1..Len(s)}
Asked(w) == Content(threads[w].inbox)
Answered(w) == Content(threads[w].outbox)

PoolShape ==
  /\ worker \in Nat /\ nextId \in Nat
  /\ threads \in Seq(Thread)
  /\ pending \subseteq [id : Nat, worker : Nat, caller : Call]
  /\ \A e \in pending : e.worker \in Spawned /\ e.id < nextId
  /\ \A w \in Spawned : \A m \in Asked(w) \cup Answered(w) : m.id < nextId

\* The reference names a thread that is not gone, and a thread that lives, or
\* that threw and has not said so yet, is the one it names.
ReferenceIsRight ==
  /\ worker # Null => worker \in Spawned /\ threads[worker].fate # "gone"
  /\ \A w \in Spawned : threads[w].fate \in {"live", "threw"} => w = worker

\* An id stands for one request, and a check waits for one parse at a time.
RequestsAreDistinct ==
  \A e, f \in pending : e.id = f.id \/ e.caller = f.caller => e = f

\* RequestsAreAnswerable, with the mailboxes as sets
RequestsAreUnderWay ==
  \A e \in pending :
    \/ threads[e.worker].fate \in {"threw", "ending"}
    \/ /\ threads[e.worker].fate = "live"
       /\ \E m \in Asked(e.worker) \cup Answered(e.worker) : m.id = e.id

\* The invariant of the pool
PoolInv == PoolShape /\ ReferenceIsRight /\ RequestsAreDistinct /\ RequestsAreUnderWay

\* The part of a check's state the verdicts rest on
CheckShape ==
  /\ stage \in [Call -> {"start", "done"} \cup Fetching \cup Parsing]
  /\ page \in [Call -> [orgs : OrgOutcome \cup {Unread}, main : BOOLEAN]]
  /\ result \in [Call -> Membership \cup ExistenceResult \cup {"none"}]

\* A check is where its kind of check can be; it asks for the main organization
\* only if the organizations page shows none.
StagesFit ==
  \A c \in Call :
    /\ c \in Existence => stage[c] \in {"start", "citizen", "parseHandle", "done"}
    /\ c \notin Existence => stage[c] # "parseHandle"
    /\ stage[c] = "parseMain" => page[c].orgs = "not_in_org"

\* Only a check that fetches is with the limiter, only a check that parses with
\* the worker, and a check that has returned does nothing any more.
ChecksAreInOnePlace ==
  /\ \A c \in Call : pc[c] # "idle" => stage[c] \in Fetching
  /\ \A e \in pending : stage[e.caller] \in Parsing
  /\ \A c \in Call : result[c] # "none" => stage[c] = "done"

\* What check c asks the worker for
WorkFor(c) == [caller |-> c, type |-> stage[c]]

\* A request that is still awaited is about the page of who awaits it, and so is
\* its answer.
MessagesAreOwn ==
  \A w \in Spawned : \A e \in pending :
    /\ \A m \in Asked(w) : m.id = e.id => m.work = WorkFor(e.caller)
    /\ \A m \in Answered(w) : m.id = e.id => m.answer \in Answers(WorkFor(e.caller))

\* What check c may return
Fits(c, r) ==
  /\ r \in Membership \cup ExistenceResult
  /\ r = "in_org" => page[c].orgs = "in_org" \/ (page[c].orgs = "not_in_org" /\ page[c].main)
  /\ r = "not_in_org" => page[c].orgs = "not_in_org"
  /\ c \in Existence => r \in ExistenceResult

\* The inductive invariant of the checks
CheckInv ==
  /\ LimiterInv
  /\ PoolInv
  /\ CheckShape
  /\ StagesFit
  /\ ChecksAreInOnePlace
  /\ MessagesAreOwn
  /\ VerdictsAreOwn

-----------------------------------------------------------------------------

USE DEF Off

\* Finitely many requests run.
LEMMA RunningIsFinite == ASSUME TypeOK PROVE IsFiniteSet(Running)
  BY LimiterAssumption, FS_Subset DEF Running

\* A callback that leaves the queue, the counter, the timer and the calls in a
\* consistent state may end with drainQueue.
LEMMA DrainKeeps ==
  ASSUME NEW q \in Seq(Call), NEW n \in Nat, NEW t \in 0..Off,
         NEW at \in [Call -> {"idle", "waiting", "running"}],
         since \in 0..MinInterval,
         n = Cardinality({c \in Call : at[c] = "running"}),
         n <= MaxConcurrency,
         {q[i] : i \in 1..Len(q)} = {c \in Call : at[c] = "waiting"},
         \A i, j \in 1..Len(q) : q[i] = q[j] => i = j,
         Drain(q, n, t, at)
  PROVE  LimiterInv'
<1> USE LimiterAssumption
<1>1. CASE \/ Full(n) \/ q = <<>>
  <2>1. /\ queue' = q /\ active' = n /\ timer' = t /\ pc' = at /\ since' = since
    BY <1>1 DEF Drain
  <2>2. TypeOK'
    BY <2>1 DEF TypeOK
  <2>3. ConcurrencyHolds' /\ QueueHoldsWaiting'
    BY <2>1 DEF ConcurrencyHolds, QueueHoldsWaiting, Running, Waiting
  <2>4. NeverStalled'
    BY <2>1, <1>1 DEF NeverStalled, Full
  <2> QED BY <2>2, <2>3, <2>4 DEF LimiterInv
<1>2. CASE ~Full(n) /\ q # <<>> /\ TooEarly
  <2>1. /\ queue' = q /\ active' = n /\ timer' = Scheduled(t) /\ pc' = at
        /\ since' = since
    BY <1>2 DEF Drain
  <2>2. Scheduled(t) \in 0..MinInterval
    BY DEF Scheduled
  <2>3. TypeOK'
    BY <2>1, <2>2 DEF TypeOK
  <2>4. ConcurrencyHolds' /\ QueueHoldsWaiting'
    BY <2>1 DEF ConcurrencyHolds, QueueHoldsWaiting, Running, Waiting
  <2>5. NeverStalled'
    BY <2>1, <2>2 DEF NeverStalled
  <2> QED BY <2>3, <2>4, <2>5 DEF LimiterInv
<1>3. CASE ~Full(n) /\ q # <<>> /\ ~TooEarly
  <2> DEFINE c == Head(q)
             run == {d \in Call : at[d] = "running"}
  <2>1. /\ queue' = Tail(q) /\ active' = n + 1 /\ timer' = t /\ since' = 0
        /\ pc' = [at EXCEPT ![c] = "running"]
    BY <1>3 DEF Drain, Shifted
  <2>2. /\ Len(q) \in Nat \ {0} /\ c = q[1] /\ c \in Call
        /\ Tail(q) \in Seq(Call) /\ Len(Tail(q)) = Len(q) - 1
        /\ \A i \in 1..Len(Tail(q)) : Tail(q)[i] = q[i + 1]
    BY <1>3
  <2>3. at[c] = "waiting"
    BY <2>2
  <2>4. TypeOK'
    BY <2>1, <2>2 DEF TypeOK
  <2>5. ConcurrencyHolds'
    <3>1. Running' = run \cup {c} /\ c \notin run
      BY <2>1, <2>2, <2>3 DEF Running
    <3>2. IsFiniteSet(run)
      BY FS_Subset
    <3>3. Cardinality(run \cup {c}) = Cardinality(run) + 1
      BY <3>1, <3>2, FS_AddElement
    <3> QED BY <2>1, <3>1, <3>3, <1>3 DEF ConcurrencyHolds, Full
  <2>6. QueueHoldsWaiting'
    <3>1. Waiting' = {d \in Call : at[d] = "waiting"} \ {c}
      BY <2>1, <2>2 DEF Waiting
    <3>2. \A i \in 1..Len(Tail(q)) : i + 1 \in 1..Len(q) /\ i + 1 # 1
      BY <2>2
    <3>3. ASSUME NEW d \in Waiting' PROVE \E i \in 1..Len(Tail(q)) : Tail(q)[i] = d
      <4>1. PICK k \in 1..Len(q) : q[k] = d
        BY <3>1, <3>3
      <4>2. k # 1
        BY <4>1, <3>1, <3>3, <2>2
      <4>3. k - 1 \in 1..Len(Tail(q)) /\ Tail(q)[k - 1] = d
        BY <4>1, <4>2, <2>2
      <4> QED BY <4>3
    <3>4. ASSUME NEW i \in 1..Len(Tail(q)) PROVE Tail(q)[i] \in Waiting'
      <4>1. Tail(q)[i] = q[i + 1] /\ q[i + 1] # c
        BY <2>2, <3>2
      <4> QED BY <4>1, <3>1, <3>2
    <3>5. {Tail(q)[i] : i \in 1..Len(Tail(q))} = Waiting'
      BY <3>3, <3>4
    <3>6. \A i, j \in 1..Len(Tail(q)) : Tail(q)[i] = Tail(q)[j] => i = j
      <4> SUFFICES ASSUME NEW i \in 1..Len(Tail(q)), NEW j \in 1..Len(Tail(q)),
                          Tail(q)[i] = Tail(q)[j]
                   PROVE  i = j
        OBVIOUS
      <4>1. q[i + 1] = q[j + 1]
        BY <2>2
      <4>2. i + 1 = j + 1
        BY <4>1, <3>2
      <4> QED BY <4>2
    <3>7. queue' = Tail(q)
      BY <2>1
    <3>8. {queue'[i] : i \in 1..Len(queue')} = Waiting'
      BY <3>5, <3>7
    <3>9. \A i, j \in 1..Len(queue') : queue'[i] = queue'[j] => i = j
      BY <3>6, <3>7
    <3> QED BY <3>8, <3>9 DEF QueueHoldsWaiting
  <2>7. NeverStalled'
    BY <2>1 DEF NeverStalled
  <2> QED BY <2>4, <2>5, <2>6, <2>7 DEF LimiterInv
<1> QED BY <1>1, <1>2, <1>3 DEF Drain

-----------------------------------------------------------------------------

\* The invariant holds before the first call.
LEMMA InitHolds == Init => LimiterInv
<1> SUFFICES ASSUME Init PROVE LimiterInv
  OBVIOUS
<1> USE LimiterAssumption DEF Init
<1>1. TypeOK
  BY DEF TypeOK
<1>2. Running = {} /\ Waiting = {}
  BY DEF Running, Waiting
<1>3. ConcurrencyHolds
  BY <1>2, FS_EmptySet DEF ConcurrencyHolds
<1>4. QueueHoldsWaiting /\ NeverStalled
  BY <1>2 DEF QueueHoldsWaiting, NeverStalled
<1> QED BY <1>1, <1>3, <1>4 DEF LimiterInv

\* A push that ends with drainQueue keeps the invariant.
LEMMA ArriveKeeps == ASSUME LimiterInv, NEW c \in Call, Arrive(c) PROVE LimiterInv'
<1> DEFINE q == Append(queue, c)
           at == [pc EXCEPT ![c] = "waiting"]
<1> USE LimiterAssumption DEF LimiterInv, TypeOK
<1>1. pc[c] = "idle" /\ Drain(q, active, timer, at)
  BY DEF Arrive
<1>2. q \in Seq(Call) /\ at \in [Call -> {"idle", "waiting", "running"}]
  OBVIOUS
<1>3. Len(q) = Len(queue) + 1 /\ q[Len(q)] = c
      /\ \A i \in 1..Len(queue) : q[i] = queue[i]
  OBVIOUS
<1>4. {d \in Call : at[d] = "running"} = Running
  BY <1>1 DEF Running
<1>5. {d \in Call : at[d] = "waiting"} = Waiting \cup {c} /\ c \notin Waiting
  BY <1>1 DEF Waiting
<1>6. {q[i] : i \in 1..Len(q)} = {d \in Call : at[d] = "waiting"}
  <2>1. {q[i] : i \in 1..Len(q)} = {queue[i] : i \in 1..Len(queue)} \cup {c}
    <3>1. Len(queue) \in Nat
      OBVIOUS
    <3>2. 1..Len(q) = (1..Len(queue)) \cup {Len(q)}
      BY <3>1, <1>3
    <3> QED BY <3>2, <1>3
  <2> QED BY <2>1, <1>5 DEF QueueHoldsWaiting
<1>7. \A i, j \in 1..Len(q) : q[i] = q[j] => i = j
  <2>1. Len(queue) \in Nat
    OBVIOUS
  <2>2. \A i \in 1..Len(queue) : queue[i] # c
    BY <1>5 DEF QueueHoldsWaiting
  <2> QED BY <2>1, <2>2, <1>3 DEF QueueHoldsWaiting
<1>8. active = Cardinality({d \in Call : at[d] = "running"}) /\ active <= MaxConcurrency
  BY <1>4 DEF ConcurrencyHolds
<1> HIDE DEF q, at
<1> QED BY <1>1, <1>2, <1>6, <1>7, <1>8, DrainKeeps

\* A task that ends, and the drain after it, keep the invariant.
LEMMA FinishKeeps == ASSUME LimiterInv, NEW c \in Call, Finish(c) PROVE LimiterInv'
<1> DEFINE at == [pc EXCEPT ![c] = "idle"]
<1> USE LimiterAssumption DEF LimiterInv, TypeOK
<1>1. pc[c] = "running" /\ Drain(queue, active - 1, timer, at)
  BY DEF Finish
<1>2. at \in [Call -> {"idle", "waiting", "running"}]
  OBVIOUS
<1>3. {d \in Call : at[d] = "running"} = Running \ {c} /\ c \in Running
  BY <1>1 DEF Running
<1>4. {d \in Call : at[d] = "waiting"} = Waiting
  BY <1>1 DEF Waiting
<1>5. Cardinality(Running \ {c}) = Cardinality(Running) - 1
      /\ Cardinality(Running) \in Nat /\ Cardinality(Running \ {c}) \in Nat
  BY <1>3, RunningIsFinite, FS_RemoveElement, FS_CardinalityType, FS_Subset
<1>6. /\ active - 1 \in Nat
      /\ active - 1 = Cardinality({d \in Call : at[d] = "running"})
      /\ active - 1 <= MaxConcurrency
  <2> HIDE DEF at, TypeOK
  <2>1. active = Cardinality(Running) /\ active <= MaxConcurrency
    BY DEF ConcurrencyHolds
  <2>2. active - 1 = Cardinality(Running \ {c}) /\ active \in Nat
    BY <2>1, <1>5
  <2>3. active - 1 \in Nat /\ active - 1 <= MaxConcurrency
    BY <2>1, <2>2, <1>5
  <2> QED BY <2>2, <2>3, <1>3
<1>7. {queue[i] : i \in 1..Len(queue)} = {d \in Call : at[d] = "waiting"}
      /\ \A i, j \in 1..Len(queue) : queue[i] = queue[j] => i = j
  BY <1>4 DEF QueueHoldsWaiting
<1> HIDE DEF at
<1> QED BY <1>1, <1>2, <1>6, <1>7, DrainKeeps

\* The drain timer keeps the invariant.
LEMMA TimerFiresKeeps == ASSUME LimiterInv, TimerFires PROVE LimiterInv'
<1> USE LimiterAssumption DEF LimiterInv, TypeOK
<1>1. Drain(queue, active, Off, pc)
  BY DEF TimerFires
<1>2. /\ active = Cardinality({d \in Call : pc[d] = "running"})
      /\ active <= MaxConcurrency
      /\ {queue[i] : i \in 1..Len(queue)} = {d \in Call : pc[d] = "waiting"}
      /\ \A i, j \in 1..Len(queue) : queue[i] = queue[j] => i = j
  BY DEF ConcurrencyHolds, QueueHoldsWaiting, Running, Waiting
<1>3. Off \in 0..Off
  OBVIOUS
<1> QED BY <1>1, <1>2, <1>3, DrainKeeps

\* Time that passes keeps the invariant.
LEMMA ClockKeeps == ASSUME LimiterInv, Clock PROVE LimiterInv'
<1> USE LimiterAssumption DEF LimiterInv, TypeOK, Clock, Less
<1>1. TypeOK'
  OBVIOUS
<1>2. ConcurrencyHolds' /\ QueueHoldsWaiting'
  BY DEF ConcurrencyHolds, QueueHoldsWaiting, Running, Waiting
<1>3. NeverStalled'
  BY DEF NeverStalled
<1> QED BY <1>1, <1>2, <1>3

\* Every step of the specification keeps the invariant.
LEMMA StepKeeps == LimiterInv /\ [Next]_vars => LimiterInv'
<1> SUFFICES ASSUME LimiterInv, [Next]_vars PROVE LimiterInv'
  OBVIOUS
<1>1. ASSUME NEW c \in Call, Arrive(c) PROVE LimiterInv'
  BY <1>1, ArriveKeeps
<1>2. ASSUME NEW c \in Call, Finish(c) PROVE LimiterInv'
  BY <1>2, FinishKeeps
<1>3. CASE TimerFires
  BY <1>3, TimerFiresKeeps
<1>4. CASE Clock
  BY <1>4, ClockKeeps
<1>5. CASE UNCHANGED vars
  BY <1>5 DEF vars, LimiterInv, TypeOK, ConcurrencyHolds, QueueHoldsWaiting, NeverStalled,
              Running, Waiting
<1> QED BY <1>1, <1>2, <1>3, <1>4, <1>5 DEF Next

\* The invariant holds in every behaviour.
LEMMA Inductive == Spec => []LimiterInv
  BY InitHolds, StepKeeps, PTL DEF Spec

-----------------------------------------------------------------------------

\* The variables of the limiter keep their types.
THEOREM TypeCorrect == Spec => []TypeOK
<1>1. LimiterInv => TypeOK
  BY DEF LimiterInv
<1> QED BY <1>1, Inductive, PTL

\* At most MaxConcurrency requests run, and activeRequests counts them exactly.
THEOREM ConcurrencyIsBounded == Spec => []ConcurrencyHolds
<1>1. LimiterInv => ConcurrencyHolds
  BY DEF LimiterInv
<1> QED BY <1>1, Inductive, PTL

\* No call is lost from the queue or put there twice.
THEOREM QueueIsExact == Spec => []QueueHoldsWaiting
<1>1. LimiterInv => QueueHoldsWaiting
  BY DEF LimiterInv
<1> QED BY <1>1, Inductive, PTL

\* The limiter never waits with nothing left to wake it.
THEOREM LimiterNeverStalls == Spec => []NeverStalled
<1>1. LimiterInv => NeverStalled
  BY DEF LimiterInv
<1> QED BY <1>1, Inductive, PTL

\* A drain adds at most one running call, and only when the last start is
\* MinInterval ago.
LEMMA DrainStartsOne ==
  ASSUME NEW q \in Seq(Call), NEW n, NEW t,
         NEW at \in [Call -> {"idle", "waiting", "running"}],
         since \in 0..MinInterval,
         Drain(q, n, t, at)
  PROVE  \/ Running' = {c \in Call : at[c] = "running"}
         \/ /\ since = MinInterval
            /\ \E d \in Call : Running' = {c \in Call : at[c] = "running"} \cup {d}
<1>1. CASE pc' = at
  BY <1>1 DEF Running
<1>2. CASE q # <<>> /\ ~TooEarly /\ pc' = [at EXCEPT ![Head(q)] = "running"]
  <2>1. Head(q) \in Call
    BY <1>2
  <2>2. Running' = {c \in Call : at[c] = "running"} \cup {Head(q)}
    BY <1>2, <2>1 DEF Running
  <2>3. since = MinInterval
    BY <1>2, LimiterAssumption DEF TooEarly
  <2> QED BY <2>1, <2>2, <2>3
<1> QED BY <1>1, <1>2 DEF Drain

\* Two requests to the RSI site never start closer together than MinInterval.
THEOREM StartsAreFarApart == Spec => StartsAreSpaced
<1> DEFINE Spaced == Running' \ Running # {} =>
                       since = MinInterval /\ Cardinality(Running' \ Running) = 1
<1>1. ASSUME LimiterInv, [Next]_vars PROVE Spaced
  <2> USE <1>1 DEF LimiterInv, TypeOK
  <2>1. ASSUME NEW q \in Seq(Call), NEW n, NEW t,
               NEW at \in [Call -> {"idle", "waiting", "running"}],
               {c \in Call : at[c] = "running"} \subseteq Running,
               Drain(q, n, t, at)
        PROVE  Spaced
    <3>1. CASE Running' = {c \in Call : at[c] = "running"}
      BY <3>1, <2>1
    <3>2. ASSUME since = MinInterval, NEW d \in Call,
                 Running' = {c \in Call : at[c] = "running"} \cup {d}
          PROVE  Spaced
      <4>1. Running' \ Running = {} \/ Running' \ Running = {d}
        BY <3>2, <2>1
      <4> QED BY <4>1, <3>2, FS_Singleton
    <3>3. since \in 0..MinInterval
      OBVIOUS
    <3>4. \/ Running' = {c \in Call : at[c] = "running"}
          \/ /\ since = MinInterval
             /\ \E d \in Call : Running' = {c \in Call : at[c] = "running"} \cup {d}
      <4> HIDE DEF LimiterInv, TypeOK
      <4> QED BY <3>3, <2>1, DrainStartsOne
    <3> HIDE DEF Spaced
    <3> QED BY <3>1, <3>2, <3>4
  <2>2. ASSUME NEW c \in Call, Arrive(c) PROVE Spaced
    <3> DEFINE q == Append(queue, c)
               at == [pc EXCEPT ![c] = "waiting"]
    <3>1. at \in [Call -> {"idle", "waiting", "running"}] /\ q \in Seq(Call)
      OBVIOUS
    <3>2. {d \in Call : at[d] = "running"} \subseteq Running
      BY DEF Running
    <3>3. Drain(q, active, timer, at)
      BY <2>2 DEF Arrive
    <3> HIDE DEF q, at, Spaced
    <3> QED BY <3>1, <3>2, <3>3, <2>1
  <2>3. ASSUME NEW c \in Call, Finish(c) PROVE Spaced
    <3> DEFINE at == [pc EXCEPT ![c] = "idle"]
    <3>1. at \in [Call -> {"idle", "waiting", "running"}] /\ queue \in Seq(Call)
      OBVIOUS
    <3>2. {d \in Call : at[d] = "running"} \subseteq Running
      BY DEF Running
    <3>3. Drain(queue, active - 1, timer, at)
      BY <2>3 DEF Finish
    <3> HIDE DEF at, Spaced
    <3> QED BY <3>1, <3>2, <3>3, <2>1
  <2>4. CASE TimerFires
    BY <2>4, <2>1 DEF TimerFires, Running
  <2>5. CASE Clock \/ UNCHANGED vars
    BY <2>5 DEF Clock, vars, Running
  <2> QED BY <1>1, <2>2, <2>3, <2>4, <2>5 DEF Next
<1> QED BY <1>1, Inductive, PTL DEF Spec, StartsAreSpaced

-----------------------------------------------------------------------------
(* The checks use the limiter as it is specified *)

\* A step of the checks is a step of the limiter, or leaves it alone.
LEMMA CheckStepsLimiter == [CheckNext]_checkVars => [Next]_vars
<1>1. ASSUME NEW c \in Call, RequestSlot(c) PROVE Next
  BY <1>1 DEF RequestSlot, Next
<1>2. ASSUME NEW c \in Call, RequestEnds(c) PROVE Next
  BY <1>2 DEF RequestEnds, GotPage, GotRefusal, GotFailure, Next
<1>3. ASSUME NEW c \in Call, AskWorker(c) \/ Begin(c) \/ Wake(c) PROVE UNCHANGED vars
  BY <1>3 DEF AskWorker, Begin, Wake
<1>4. ASSUME LimiterStep PROVE Next
  BY <1>4 DEF LimiterStep, Next
<1>5. ASSUME NEW w \in Spawned, WorkerStep(w) \/ ThreadStep(w) PROVE UNCHANGED vars
  BY <1>5 DEF WorkerStep, ThreadStep
<1>6. UNCHANGED checkVars => UNCHANGED vars
  BY DEF checkVars
<1> QED BY <1>1, <1>2, <1>3, <1>4, <1>5, <1>6 DEF CheckNext

\* The checks over the limiter and the pool implement the limiter: what is
\* proved of it for any arrivals and ends of requests holds for theirs.
THEOREM ChecksImplementLimiter == CheckSpec => Spec
<1>1. CheckInit => Init
  BY DEF CheckInit
<1> QED BY <1>1, CheckStepsLimiter, PTL DEF CheckSpec, Spec

\* So the site never sees more than MaxConcurrency requests of the checks, or
\* two that start closer together than MinInterval.
THEOREM ChecksAreLimited == CheckSpec => []ConcurrencyHolds /\ StartsAreSpaced
  BY ChecksImplementLimiter, ConcurrencyIsBounded, StartsAreFarApart

\* A call that gets to the end of its request is out of the limiter, and no other
\* call gets into it or out of it.
LEMMA FinishFacts ==
  ASSUME LimiterInv, NEW c \in Call, Finish(c)
  PROVE  \A d \in Call : pc'[d] # "idle" <=> d # c /\ pc[d] # "idle"
<1> DEFINE at == [pc EXCEPT ![c] = "idle"]
<1>a. /\ pc \in [Call -> {"idle", "waiting", "running"}] /\ queue \in Seq(Call)
      /\ \A d \in Call : at[d] = IF d = c THEN "idle" ELSE pc[d]
      /\ at \in [Call -> {"idle", "waiting", "running"}]
  BY DEF LimiterInv, TypeOK
<1>b. pc[c] = "running" /\ Drain(queue, active - 1, timer, at)
  BY DEF Finish
<1> HIDE DEF at
<1>1. CASE pc' = at
  BY <1>a, <1>1
<1>2. CASE queue # <<>> /\ pc' = [at EXCEPT ![Head(queue)] = "running"]
  <2>1. Head(queue) = queue[1] /\ 1 \in 1..Len(queue)
    BY <1>a, <1>2
  <2>2. Head(queue) \in Waiting
    BY <2>1 DEF LimiterInv, QueueHoldsWaiting
  <2>3. Head(queue) # c /\ pc[Head(queue)] = "waiting" /\ Head(queue) \in Call
    BY <2>2, <1>b DEF Waiting
  <2> QED BY <1>a, <1>2, <2>3
<1> QED BY <1>b, <1>1, <1>2 DEF Drain

\* A call that asks for a slot is in the limiter; the others stay where they are.
LEMMA ArriveFacts ==
  ASSUME LimiterInv, NEW c \in Call, Arrive(c)
  PROVE  \A d \in Call : pc'[d] # "idle" <=> d = c \/ pc[d] # "idle"
<1> DEFINE at == [pc EXCEPT ![c] = "waiting"]
           q == Append(queue, c)
<1>a. /\ pc \in [Call -> {"idle", "waiting", "running"}] /\ queue \in Seq(Call)
      /\ \A d \in Call : at[d] = IF d = c THEN "waiting" ELSE pc[d]
      /\ at \in [Call -> {"idle", "waiting", "running"}]
  BY DEF LimiterInv, TypeOK
<1>b. Drain(q, active, timer, at)
  BY DEF Arrive
<1>c. q # <<>> /\ Head(q) \in {queue[i] : i \in 1..Len(queue)} \cup {c}
  BY <1>a
<1> HIDE DEF at, q
<1>1. CASE pc' = at
  BY <1>a, <1>1
<1>2. CASE pc' = [at EXCEPT ![Head(q)] = "running"]
  <2>1. Head(q) \in Waiting \cup {c}
    BY <1>c DEF LimiterInv, QueueHoldsWaiting
  <2>2. Head(q) \in Call /\ (Head(q) = c \/ pc[Head(q)] = "waiting")
    BY <2>1 DEF Waiting
  <2> QED BY <1>a, <1>2, <2>2
<1> QED BY <1>b, <1>1, <1>2 DEF Drain

\* The other callbacks of the limiter start a waiting call at most.
LEMMA LimiterStepFacts ==
  ASSUME LimiterInv, TimerFires \/ Clock
  PROVE  \A d \in Call : pc'[d] # "idle" <=> pc[d] # "idle"
<1>a. pc \in [Call -> {"idle", "waiting", "running"}] /\ queue \in Seq(Call)
  BY DEF LimiterInv, TypeOK
<1>1. CASE pc' = pc
  BY <1>1
<1>2. CASE queue # <<>> /\ pc' = [pc EXCEPT ![Head(queue)] = "running"]
  <2>1. Head(queue) = queue[1] /\ 1 \in 1..Len(queue)
    BY <1>a, <1>2
  <2>2. Head(queue) \in Waiting
    BY <2>1 DEF LimiterInv, QueueHoldsWaiting
  <2>3. Head(queue) \in Call /\ pc[Head(queue)] = "waiting"
    BY <2>2 DEF Waiting
  <2> QED BY <1>a, <1>2, <2>3
<1> QED BY <1>1, <1>2 DEF TimerFires, Clock, Drain

-----------------------------------------------------------------------------
(* The worker pool *)

\* What is in a mailbox after a message is added, and what is left of it after
\* the first is taken.
LEMMA AddContent ==
  ASSUME NEW S, NEW s \in Seq(S), NEW x \in S
  PROVE  Append(s, x) \in Seq(S) /\ Content(Append(s, x)) = Content(s) \cup {x}
<1>1. /\ Append(s, x) \in Seq(S) /\ Len(Append(s, x)) = Len(s) + 1 /\ Len(s) \in Nat
      /\ \A i \in 1..Len(s) : Append(s, x)[i] = s[i]
      /\ Append(s, x)[Len(s) + 1] = x
  BY AppendProperties, LenProperties
<1>2. 1..(Len(s) + 1) = (1..Len(s)) \cup {Len(s) + 1}
  BY <1>1
<1> QED BY <1>1, <1>2 DEF Content

\* Taking the first message leaves the others.
LEMMA TakeContent ==
  ASSUME NEW S, NEW s \in Seq(S), s # <<>>
  PROVE  /\ Head(s) \in S /\ Tail(s) \in Seq(S)
         /\ Head(s) \in Content(s)
         /\ Content(s) = Content(Tail(s)) \cup {Head(s)}
<1>1. /\ Head(s) = s[1] /\ Tail(s) \in Seq(S) /\ Len(s) \in Nat /\ Len(s) >= 1
      /\ Len(Tail(s)) = Len(s) - 1
      /\ \A i \in 1..Len(Tail(s)) : Tail(s)[i] = s[i + 1]
  BY HeadTailProperties, LenProperties, EmptySeq
<1>2. \A i \in 1..Len(s) : i = 1 \/ (i - 1 \in 1..Len(Tail(s)) /\ Tail(s)[i - 1] = s[i])
  BY <1>1
<1>3. \A i \in 1..Len(Tail(s)) : i + 1 \in 1..Len(s)
  BY <1>1
<1>4. Head(s) \in Content(s) /\ Head(s) \in S
  BY <1>1 DEF Content
<1>5. Content(s) \subseteq Content(Tail(s)) \cup {Head(s)}
  BY <1>1, <1>2 DEF Content
<1>6. Content(Tail(s)) \subseteq Content(s)
  BY <1>1, <1>3 DEF Content
<1> QED BY <1>1, <1>4, <1>5, <1>6

\* A step that changes one thread leaves the others as they are.
LEMMA OneThread ==
  ASSUME threads \in Seq(Thread), NEW w \in Spawned, NEW t \in Thread,
         threads' = [threads EXCEPT ![w] = t]
  PROVE  /\ threads' \in Seq(Thread) /\ Spawned' = Spawned /\ threads'[w] = t
         /\ \A v \in Spawned : v # w => threads'[v] = threads[v]
<1>1. Spawned = 1..Len(threads)
  BY DEF Spawned
<1> QED BY <1>1, ExceptSeq DEF Spawned

\* The mailboxes of a thread hold requests and answers.
LEMMA ThreadFacts ==
  ASSUME threads \in Seq(Thread), NEW w \in Spawned
  PROVE  /\ threads[w] \in Thread /\ threads[w].fate \in Fate
         /\ threads[w].inbox \in Seq(Request)
         /\ threads[w].outbox \in Seq([id : Nat, answer : AnswerText])
<1>1. threads[w] \in Thread
  BY DEF Spawned
<1> QED BY <1>1 DEF Thread

\* What is in the mailboxes.
LEMMA MailFacts ==
  ASSUME threads \in Seq(Thread), NEW w \in Spawned
  PROVE  Asked(w) \subseteq Request /\ Answered(w) \subseteq [id : Nat, answer : AnswerText]
<1>1. \A S : \A s \in Seq(S) : Content(s) \subseteq S
  BY DEF Content
<1> QED BY <1>1, ThreadFacts DEF Asked, Answered

\* A message handler takes the first answer of its thread.
LEMMA MessageFacts ==
  ASSUME PoolShape, NEW w \in Spawned, HandleMessage(w)
  PROVE  /\ threads' \in Seq(Thread) /\ Spawned' = Spawned
         /\ AnswerOf(w) \in Answered(w)
         /\ Answered(w) = Content(threads'[w].outbox) \cup {AnswerOf(w)}
         /\ threads'[w].inbox = threads[w].inbox /\ threads'[w].fate = threads[w].fate
         /\ \A v \in Spawned : v # w => threads'[v] = threads[v]
<1> DEFINE t == [threads[w] EXCEPT !.outbox = Tail(@)]
<1>1. threads' = [threads EXCEPT ![w] = t] /\ threads[w].outbox # <<>>
  BY DEF HandleMessage
<1>2. threads \in Seq(Thread)
  BY DEF PoolShape
<1>3. /\ threads[w] \in Thread
      /\ threads[w].outbox \in Seq([id : Nat, answer : AnswerText])
  BY <1>2, ThreadFacts
<1>4. /\ Tail(threads[w].outbox) \in Seq([id : Nat, answer : AnswerText])
      /\ AnswerOf(w) \in Answered(w)
      /\ Answered(w) = Content(Tail(threads[w].outbox)) \cup {AnswerOf(w)}
  BY <1>1, <1>3, TakeContent DEF AnswerOf, Answered
<1>5. /\ t \in Thread /\ t.outbox = Tail(threads[w].outbox)
      /\ t.inbox = threads[w].inbox /\ t.fate = threads[w].fate
  BY <1>3, <1>4 DEF Thread
<1> HIDE DEF t
<1>6. /\ threads' \in Seq(Thread) /\ Spawned' = Spawned /\ threads'[w] = t
      /\ \A v \in Spawned : v # w => threads'[v] = threads[v]
  BY <1>1, <1>2, <1>5, OneThread
<1> QED BY <1>4, <1>5, <1>6

\* An error or exit handler changes the fate of its thread alone.
LEMMA FateFacts ==
  ASSUME PoolShape, NEW w \in Spawned, NEW fate \in Fate,
         threads' = [threads EXCEPT ![w].fate = fate]
  PROVE  /\ threads' \in Seq(Thread) /\ Spawned' = Spawned
         /\ threads'[w].fate = fate
         /\ \A v \in Spawned :
              /\ threads'[v].inbox = threads[v].inbox
              /\ threads'[v].outbox = threads[v].outbox
              /\ v # w => threads'[v] = threads[v]
<1> DEFINE t == [threads[w] EXCEPT !.fate = fate]
<1>1. threads' = [threads EXCEPT ![w] = t]
  OBVIOUS
<1>2. threads \in Seq(Thread)
  BY DEF PoolShape
<1>3. threads[w] \in Thread
  BY <1>2, ThreadFacts
<1>4. t \in Thread /\ t.inbox = threads[w].inbox /\ t.outbox = threads[w].outbox /\ t.fate = fate
  BY <1>3 DEF Thread
<1> HIDE DEF t
<1>5. /\ threads' \in Seq(Thread) /\ Spawned' = Spawned /\ threads'[w] = t
      /\ \A v \in Spawned : v # w => threads'[v] = threads[v]
  BY <1>1, <1>2, <1>4, OneThread
<1> QED BY <1>4, <1>5

\* A thread that dies drops its requests; what it had posted is kept.
LEMMA DieFacts ==
  ASSUME PoolShape, NEW w \in Spawned, NEW fate \in Fate, Die(w, fate)
  PROVE  /\ threads' \in Seq(Thread) /\ Spawned' = Spawned
         /\ threads'[w].fate = fate /\ Content(threads'[w].inbox) = {}
         /\ threads'[w].outbox = threads[w].outbox
         /\ \A v \in Spawned : v # w => threads'[v] = threads[v]
<1> DEFINE t == [threads[w] EXCEPT !.fate = fate, !.inbox = <<>>]
<1>2. threads \in Seq(Thread)
  BY DEF PoolShape
<1>1. threads' = [threads EXCEPT ![w] = t]
  BY DEF Die
<1>3. threads[w] \in Thread /\ <<>> \in Seq(Request)
  BY <1>2, ThreadFacts
<1>4. t \in Thread /\ t.inbox = <<>> /\ t.outbox = threads[w].outbox /\ t.fate = fate
  BY <1>3 DEF Thread
<1>5. Content(<<>>) = {}
  BY DEF Content
<1> HIDE DEF t
<1>6. /\ threads' \in Seq(Thread) /\ Spawned' = Spawned /\ threads'[w] = t
      /\ \A v \in Spawned : v # w => threads'[v] = threads[v]
  BY <1>1, <1>2, <1>4, OneThread
<1> QED BY <1>4, <1>5, <1>6

\* A thread that parses moves its first request, with an answer, to its outbox.
LEMMA ParseFacts ==
  ASSUME PoolShape, NEW w \in Spawned, NEW answer \in AnswerText, Parse(w, answer)
  PROVE  /\ threads' \in Seq(Thread) /\ Spawned' = Spawned
         /\ threads'[w].fate = threads[w].fate
         /\ \E request \in Asked(w) :
              /\ request = Head(threads[w].inbox)
              /\ Asked(w) = Content(threads'[w].inbox) \cup {request}
              /\ Content(threads'[w].outbox) =
                   Answered(w) \cup {[id |-> request.id, answer |-> answer]}
         /\ \A v \in Spawned : v # w => threads'[v] = threads[v]
<1> DEFINE request == Head(threads[w].inbox)
           reply == [id |-> request.id, answer |-> answer]
           t == [threads[w] EXCEPT !.inbox = Tail(@), !.outbox = Append(@, reply)]
<1>2. threads \in Seq(Thread) /\ threads[w].inbox # <<>>
  BY DEF PoolShape, Parse
<1>3. /\ threads[w] \in Thread /\ threads[w].fate \in Fate
      /\ threads[w].inbox \in Seq(Request)
      /\ threads[w].outbox \in Seq([id : Nat, answer : AnswerText])
  BY <1>2, ThreadFacts
<1>1. threads' = [threads EXCEPT ![w] = t]
  BY DEF Parse
<1>4. /\ request \in Request /\ request \in Asked(w)
      /\ Tail(threads[w].inbox) \in Seq(Request)
      /\ Asked(w) = Content(Tail(threads[w].inbox)) \cup {request}
  BY <1>2, <1>3, TakeContent DEF Asked
<1>5. reply \in [id : Nat, answer : AnswerText]
  BY <1>4 DEF Request
<1>6. /\ Append(threads[w].outbox, reply) \in Seq([id : Nat, answer : AnswerText])
      /\ Content(Append(threads[w].outbox, reply)) = Answered(w) \cup {reply}
  <2> DEFINE Reply == [id : Nat, answer : AnswerText]
  <2>1. threads[w].outbox \in Seq(Reply) /\ reply \in Reply
    BY <1>3, <1>5
  <2> HIDE DEF reply, Reply
  <2>2. /\ Append(threads[w].outbox, reply) \in Seq(Reply)
        /\ Content(Append(threads[w].outbox, reply)) = Content(threads[w].outbox) \cup {reply}
    BY <2>1, AddContent
  <2> QED BY <2>2 DEF Answered, Reply
<1>7. /\ t \in Thread /\ t.inbox = Tail(threads[w].inbox) /\ t.fate = threads[w].fate
      /\ Content(t.outbox) = Answered(w) \cup {reply}
  <2> HIDE DEF reply
  <2> QED BY <1>3, <1>4, <1>6 DEF Thread
<1> HIDE DEF t
<1>8. /\ threads' \in Seq(Thread) /\ Spawned' = Spawned /\ threads'[w] = t
      /\ \A v \in Spawned : v # w => threads'[v] = threads[v]
  BY <1>1, <1>2, <1>7, OneThread
<1> QED BY <1>4, <1>7, <1>8

\* sendToWorker gives the request to the thread the reference names, which it
\* spawns if there is none; a dead one loses it.
LEMMA SendFacts ==
  ASSUME PoolShape, ReferenceIsRight, NEW c \in Call,
         NEW work \in [caller : Call, type : Parsing],
         SendToWorker(c, work)
  PROVE  \E w \in Nat \ {Null} :
           /\ threads' \in Seq(Thread) /\ Spawned' = Spawned \cup {w}
           /\ worker' = w /\ nextId' = nextId + 1
           /\ pending' = pending \cup {[id |-> nextId, worker |-> w, caller |-> c]}
           /\ \A v \in Spawned : v # w => threads'[v] = threads[v]
           /\ \/ /\ w \notin Spawned /\ worker = Null
                 /\ threads'[w].fate = "live"
                 /\ Content(threads'[w].inbox) = {[id |-> nextId, work |-> work]}
                 /\ Content(threads'[w].outbox) = {}
              \/ /\ w \in Spawned /\ worker = w
                 /\ threads'[w].fate = threads[w].fate
                 /\ threads'[w].outbox = threads[w].outbox
                 /\ IF threads[w].fate = "live"
                    THEN Content(threads'[w].inbox) = Asked(w) \cup {[id |-> nextId, work |-> work]}
                    ELSE threads'[w] = threads[w]
<1> DEFINE request == [id |-> nextId, work |-> work]
<1>1. threads \in Seq(Thread) /\ worker \in Nat /\ nextId \in Nat /\ request \in Request
  BY DEF PoolShape, Request
<1>2. Len(threads) \in Nat /\ Spawned = 1..Len(threads)
  BY <1>1 DEF Spawned
<1>3. /\ nextId' = nextId + 1
      /\ pending' = pending \cup {[id |-> nextId, worker |-> worker', caller |-> c]}
  BY DEF SendToWorker, FreshId
<1>4. CASE worker = Null
  <2> DEFINE w == Len(threads) + 1
             t == NewThread(request)
  <2>1. threads' = Append(threads, t) /\ worker' = Len(threads')
    BY <1>4 DEF SendToWorker, FreshId
  <2>2. /\ t \in Thread /\ t.fate = "live"
        /\ t.inbox = <<request>> /\ t.outbox = <<>>
    <3> HIDE DEF request
    <3>1. <<request>> \in Seq(Request)
      BY <1>1
    <3>2. <<>> \in Seq([id : Nat, answer : AnswerText])
      OBVIOUS
    <3> QED BY <3>1, <3>2 DEF NewThread, Thread, Fate
  <2>3. Content(<<request>>) = {request} /\ Content(<<>>) = {}
    <3> HIDE DEF request
    <3> QED BY DEF Content
  <2> HIDE DEF t, request
  <2>4. /\ threads' \in Seq(Thread) /\ Len(threads') = w /\ threads'[w] = t
        /\ \A v \in 1..Len(threads) : threads'[v] = threads[v]
    BY <1>1, <2>1, <2>2, AppendProperties
  <2>5. /\ w \in Nat \ {Null} /\ w \notin Spawned /\ Spawned' = Spawned \cup {w}
        /\ worker' = w
        /\ \A v \in Spawned : threads'[v] = threads[v]
    BY <1>2, <2>1, <2>4 DEF Null, Spawned
  <2>6. /\ threads'[w].fate = "live"
        /\ Content(threads'[w].inbox) = {request}
        /\ Content(threads'[w].outbox) = {}
    BY <2>2, <2>3, <2>4
  <2> HIDE DEF w
  <2> QED BY <1>3, <1>4, <2>4, <2>5, <2>6 DEF request
<1>5. CASE worker # Null
  <2>1. /\ worker' = worker /\ worker \in Spawned
        /\ threads' = IF threads[worker].fate = "live"
                      THEN [threads EXCEPT ![worker].inbox = Append(@, request)]
                      ELSE threads
    BY <1>5 DEF SendToWorker, FreshId, ReferenceIsRight
  <2>2. CASE threads[worker].fate = "live"
    <3> DEFINE t == [threads[worker] EXCEPT !.inbox = Append(@, request)]
    <3>1. threads' = [threads EXCEPT ![worker] = t]
      BY <2>1, <2>2
    <3>2. threads[worker] \in Thread /\ threads[worker].inbox \in Seq(Request)
      BY <1>1, <2>1, ThreadFacts
    <3>3. /\ Append(threads[worker].inbox, request) \in Seq(Request)
          /\ Content(Append(threads[worker].inbox, request)) = Asked(worker) \cup {request}
      <4> HIDE DEF request
      <4> QED BY <1>1, <3>2, AddContent DEF Asked
    <3>4. /\ t \in Thread /\ t.fate = threads[worker].fate
          /\ t.outbox = threads[worker].outbox
          /\ Content(t.inbox) = Asked(worker) \cup {request}
      <4> HIDE DEF request
      <4> QED BY <3>2, <3>3 DEF Thread
    <3> HIDE DEF t
    <3>5. /\ threads' \in Seq(Thread) /\ Spawned' = Spawned /\ threads'[worker] = t
          /\ \A v \in Spawned : v # worker => threads'[v] = threads[v]
      BY <1>1, <2>1, <3>1, <3>4, OneThread
    <3> QED BY <1>1, <1>3, <1>5, <2>1, <2>2, <3>4, <3>5
  <2>3. CASE threads[worker].fate # "live"
    <3>1. threads' = threads /\ Spawned' = Spawned
      BY <2>1, <2>3 DEF Spawned
    <3> QED BY <1>1, <1>3, <1>5, <2>1, <2>3, <3>1
  <2> QED BY <2>2, <2>3
<1> QED BY <1>4, <1>5

\* A request keeps the invariant of the pool.
LEMMA SendKeepsPool ==
  ASSUME PoolInv, NEW c \in Call, NEW work \in [caller : Call, type : Parsing],
         \A e \in pending : e.caller # c,
         SendToWorker(c, work)
  PROVE  PoolInv'
<1> DEFINE request == [id |-> nextId, work |-> work]
<1> USE DEF PoolInv
<1>1. PICK w \in Nat \ {Null} :
           /\ threads' \in Seq(Thread) /\ Spawned' = Spawned \cup {w}
           /\ worker' = w /\ nextId' = nextId + 1
           /\ pending' = pending \cup {[id |-> nextId, worker |-> w, caller |-> c]}
           /\ \A v \in Spawned : v # w => threads'[v] = threads[v]
           /\ \/ /\ w \notin Spawned /\ worker = Null
                 /\ threads'[w].fate = "live"
                 /\ Content(threads'[w].inbox) = {request}
                 /\ Content(threads'[w].outbox) = {}
              \/ /\ w \in Spawned /\ worker = w
                 /\ threads'[w].fate = threads[w].fate
                 /\ threads'[w].outbox = threads[w].outbox
                 /\ IF threads[w].fate = "live"
                    THEN Content(threads'[w].inbox) = Asked(w) \cup {request}
                    ELSE threads'[w] = threads[w]
  BY SendFacts
<1> DEFINE new == [id |-> nextId, worker |-> w, caller |-> c]
<1>2. nextId \in Nat /\ request.id = nextId
  BY DEF PoolShape
<1>3. \A v \in Spawned : \A m \in Asked(v) \cup Answered(v) : m.id < nextId
  BY DEF PoolShape
<1>4. /\ \A v \in Spawned : v # w => Asked(v)' = Asked(v) /\ Answered(v)' = Answered(v)
      /\ Asked(w)' \subseteq {request} \cup (IF w \in Spawned THEN Asked(w) ELSE {})
      /\ Answered(w)' = IF w \in Spawned THEN Answered(w) ELSE {}
      /\ w \in Spawned => Asked(w) \subseteq Asked(w)'
      /\ threads'[w].fate = "live" => request \in Asked(w)'
  <2> HIDE DEF request
  <2> QED BY <1>1 DEF Asked, Answered
<1>5. pending \subseteq [id : Nat, worker : Nat, caller : Call]
      /\ \A e \in pending : e.worker \in Spawned /\ e.id < nextId /\ e.id \in Nat
  BY DEF PoolShape
<1>6. PoolShape'
  <2>1. \A v \in Spawned' : \A m \in (Asked(v) \cup Answered(v))' : m.id < nextId + 1
    <3> SUFFICES ASSUME NEW v \in Spawned',
                        NEW m \in Asked(v)' \cup Answered(v)'
                 PROVE  m.id < nextId + 1
      OBVIOUS
    <3>1. m = request \/ (v \in Spawned /\ m \in Asked(v) \cup Answered(v))
      <4> HIDE DEF request
      <4> QED BY <1>1, <1>4
    <3>2. ASSUME v \in Spawned, m \in Asked(v) \cup Answered(v) PROVE m.id < nextId + 1 
      <4>1. m.id \in Nat
        <5>1. Asked(v) \subseteq Request /\ Answered(v) \subseteq [id : Nat, answer : AnswerText]
          BY <3>2, MailFacts DEF PoolShape
        <5> QED BY <5>1, <3>2 DEF Request
      <4> QED BY <4>1, <3>2, <1>2, <1>3
    <3> QED BY <3>1, <3>2, <1>2
  <2>2. pending' \subseteq [id : Nat, worker : Nat, caller : Call]
        /\ \A e \in pending' : e.worker \in Spawned' /\ e.id < nextId + 1
    BY <1>1, <1>2, <1>5
  <2> QED BY <1>1, <1>2, <2>1, <2>2 DEF PoolShape
<1>7. ReferenceIsRight'
  <2>1. threads'[w].fate # "gone" /\ w \in Spawned'
    BY <1>1 DEF ReferenceIsRight
  <2>2. ASSUME NEW v \in Spawned', threads'[v].fate \in {"live", "threw"} PROVE v = w
    <3>1. CASE v # w
      <4>1. v \in Spawned /\ threads[v].fate \in {"live", "threw"} /\ v # Null
        BY <1>1, <2>2, <3>1 DEF Spawned, Null, PoolShape
      <4>2. v = worker
        BY <4>1 DEF ReferenceIsRight
      <4> QED BY <4>1, <4>2, <3>1, <1>1
    <3> QED BY <3>1
  <2> QED BY <1>1, <2>1, <2>2 DEF ReferenceIsRight
<1>8. RequestsAreDistinct'
  <2>1. \A e \in pending : e.id # nextId /\ e.caller # c
    BY <1>2, <1>5
  <2> QED BY <2>1, <1>1 DEF RequestsAreDistinct
<1>9. RequestsAreUnderWay'
  <2> SUFFICES ASSUME NEW e \in pending'
               PROVE  \/ threads'[e.worker].fate \in {"threw", "ending"}
                      \/ /\ threads'[e.worker].fate = "live"
                         /\ \E m \in Asked(e.worker)' \cup Answered(e.worker)' : m.id = e.id
    BY DEF RequestsAreUnderWay
  <2>1. CASE e \in pending
    <3>1. e.worker \in Spawned
      BY <2>1, <1>5
    <3>2. CASE e.worker # w
      BY <3>1, <3>2, <2>1, <1>1, <1>4 DEF RequestsAreUnderWay
    <3>3. CASE e.worker = w
      <4>1. threads'[w].fate = threads[w].fate
        BY <3>1, <3>3, <1>1
      <4>2. Asked(w) \subseteq Asked(w)' /\ Answered(w)' = Answered(w)
        BY <3>1, <3>3, <1>4
      <4> QED BY <4>1, <4>2, <3>3, <2>1 DEF RequestsAreUnderWay
    <3> QED BY <3>2, <3>3
  <2>2. CASE e = new
    <3>1. threads'[w].fate \in {"live", "threw", "ending"}
      <4>1. CASE w \in Spawned
        <5>1. threads[w].fate \in Fate /\ threads[w].fate # "gone"
          BY <4>1, <1>1, ThreadFacts DEF PoolShape, ReferenceIsRight
        <5> QED BY <5>1, <4>1, <1>1 DEF Fate
      <4> QED BY <4>1, <1>1
    <3> QED BY <2>2, <3>1, <1>2, <1>4
  <2> QED BY <2>1, <2>2, <1>1
<1> QED BY <1>6, <1>7, <1>8, <1>9

\* Callbacks and steps of a thread that add no entry, and no message but under an
\* id that is already in use, keep the shape and the ids.
LEMMA PoolShrinks ==
  ASSUME PoolInv, threads' \in Seq(Thread), Spawned' = Spawned, nextId' = nextId,
         worker' \in Nat, pending' \subseteq pending,
         \A v \in Spawned : \A m \in Asked(v)' \cup Answered(v)' :
           \E n \in Asked(v) \cup Answered(v) : m.id = n.id
  PROVE  PoolShape' /\ RequestsAreDistinct'
<1> USE DEF PoolInv
<1>1. \A v \in Spawned : \A n \in Asked(v) \cup Answered(v) : n.id < nextId
  BY DEF PoolShape
<1>2. \A v \in Spawned' : \A m \in Asked(v)' \cup Answered(v)' : m.id < nextId'
  BY <1>1
<1>3. /\ pending' \subseteq [id : Nat, worker : Nat, caller : Call]
      /\ \A e \in pending' : e.worker \in Spawned' /\ e.id < nextId'
      /\ nextId' \in Nat
  BY DEF PoolShape
<1>4. PoolShape'
  BY <1>2, <1>3 DEF PoolShape
<1>5. RequestsAreDistinct'
  BY DEF RequestsAreDistinct
<1> QED BY <1>4, <1>5

\* A message handler settles one entry at most and keeps the invariant.
LEMMA MessageKeepsPool ==
  ASSUME PoolInv, NEW w \in Spawned, HandleMessage(w) PROVE PoolInv'
<1> USE DEF PoolInv
<1>1. /\ worker' = worker /\ nextId' = nextId /\ pending' = pending \ Settled(w)
  BY DEF HandleMessage
<1>2. /\ threads' \in Seq(Thread) /\ Spawned' = Spawned
      /\ AnswerOf(w) \in Answered(w)
      /\ Answered(w) = Content(threads'[w].outbox) \cup {AnswerOf(w)}
      /\ threads'[w].inbox = threads[w].inbox /\ threads'[w].fate = threads[w].fate
      /\ \A v \in Spawned : v # w => threads'[v] = threads[v]
  BY MessageFacts
<1>3. /\ \A v \in Spawned : threads'[v].fate = threads[v].fate /\ Asked(v)' = Asked(v)
      /\ \A v \in Spawned : v # w => Answered(v)' = Answered(v)
      /\ Answered(w) = Answered(w)' \cup {AnswerOf(w)}
  BY <1>2 DEF Asked, Answered
<1>4. PoolShape' /\ RequestsAreDistinct'
  <2>1. worker' \in Nat /\ pending' \subseteq pending
    BY <1>1 DEF PoolShape
  <2>2. \A v \in Spawned : Asked(v)' \cup Answered(v)' \subseteq Asked(v) \cup Answered(v)
    BY <1>3
  <2> QED BY <1>1, <1>2, <2>1, <2>2, PoolShrinks
<1>5. ReferenceIsRight'
  BY <1>1, <1>2, <1>3 DEF ReferenceIsRight
<1>6. RequestsAreUnderWay'
  <2> SUFFICES ASSUME NEW e \in pending'
               PROVE  \/ threads'[e.worker].fate \in {"threw", "ending"}
                      \/ /\ threads'[e.worker].fate = "live"
                         /\ \E m \in Asked(e.worker)' \cup Answered(e.worker)' : m.id = e.id
    BY DEF RequestsAreUnderWay
  <2>1. e \in pending /\ e.worker \in Spawned /\ e.id # AnswerOf(w).id
    BY <1>1 DEF Settled, PoolShape
  <2>2. CASE threads[e.worker].fate \in {"threw", "ending"}
    BY <2>1, <2>2, <1>3
  <2>3. ASSUME threads[e.worker].fate = "live",
               NEW m \in Asked(e.worker) \cup Answered(e.worker), m.id = e.id
        PROVE  m \in Asked(e.worker)' \cup Answered(e.worker)'
    BY <2>1, <2>3, <1>3
  <2> QED BY <2>1, <2>2, <2>3, <1>3 DEF RequestsAreUnderWay
<1> QED BY <1>4, <1>5, <1>6

\* An error event rejects what its thread owes and clears the reference, which
\* can refer to no other thread.
LEMMA ErrorKeepsPool ==
  ASSUME PoolInv, NEW w \in Spawned, HandleError(w) PROVE PoolInv'
<1> USE DEF PoolInv
<1>1. /\ worker' = Null /\ nextId' = nextId /\ pending' = pending \ OwnedBy(w)
      /\ threads[w].fate = "threw" /\ "ending" \in Fate
      /\ threads' = [threads EXCEPT ![w].fate = "ending"]
  BY DEF HandleError, AfterError, Fate
<1>2. /\ threads' \in Seq(Thread) /\ Spawned' = Spawned
      /\ threads'[w].fate = "ending"
      /\ \A v \in Spawned : v # w => threads'[v] = threads[v]
      /\ \A v \in Spawned : Asked(v)' = Asked(v) /\ Answered(v)' = Answered(v)
  BY <1>1, FateFacts DEF Asked, Answered
<1>3. PoolShape' /\ RequestsAreDistinct'
  <2>1. worker' \in Nat /\ pending' \subseteq pending
    BY <1>1 DEF Null
  <2> QED BY <1>1, <1>2, <2>1, PoolShrinks
<1>4. ReferenceIsRight'
  <2>1. \A v \in Spawned : threads[v].fate \in {"live", "threw"} => v = w
    BY <1>1 DEF ReferenceIsRight
  <2> QED BY <2>1, <1>1, <1>2 DEF ReferenceIsRight
<1>5. RequestsAreUnderWay'
  <2>1. \A e \in pending' : e \in pending /\ e.worker \in Spawned /\ e.worker # w
    BY <1>1 DEF OwnedBy, PoolShape
  <2> QED BY <2>1, <1>2 DEF RequestsAreUnderWay
<1> QED BY <1>3, <1>4, <1>5

\* An exit event rejects what its thread owes and clears the reference if it is
\* the thread it names.
LEMMA ExitKeepsPool ==
  ASSUME PoolInv, NEW w \in Spawned, HandleExit(w) PROVE PoolInv'
<1> USE DEF PoolInv
<1>1. /\ worker' = AfterExit(w) /\ nextId' = nextId /\ pending' = pending \ OwnedBy(w)
      /\ threads[w].fate = "ending" /\ "gone" \in Fate
      /\ threads' = [threads EXCEPT ![w].fate = "gone"]
  BY DEF HandleExit, Fate
<1>2. /\ threads' \in Seq(Thread) /\ Spawned' = Spawned
      /\ threads'[w].fate = "gone"
      /\ \A v \in Spawned : v # w => threads'[v] = threads[v]
      /\ \A v \in Spawned : Asked(v)' = Asked(v) /\ Answered(v)' = Answered(v)
  BY <1>1, FateFacts DEF Asked, Answered
<1>3. PoolShape' /\ RequestsAreDistinct'
  <2>1. worker' \in Nat /\ pending' \subseteq pending
    BY <1>1 DEF Null, AfterExit, PoolShape
  <2> QED BY <1>1, <1>2, <2>1, PoolShrinks
<1>4. ReferenceIsRight'
  BY <1>1, <1>2 DEF ReferenceIsRight, AfterExit
<1>5. RequestsAreUnderWay'
  <2>1. \A e \in pending' : e \in pending /\ e.worker \in Spawned /\ e.worker # w
    BY <1>1 DEF OwnedBy, PoolShape
  <2> QED BY <2>1, <1>2 DEF RequestsAreUnderWay
<1> QED BY <1>3, <1>4, <1>5

\* A thread that answers keeps the invariant.
LEMMA ParseKeepsPool ==
  ASSUME PoolInv, NEW w \in Spawned, NEW answer \in AnswerText, Parse(w, answer)
  PROVE  PoolInv'
<1> USE DEF PoolInv
<1>1. worker' = worker /\ nextId' = nextId /\ pending' = pending
  BY DEF Parse
<1>2. PICK request \in Asked(w) :
        /\ Asked(w) = Content(threads'[w].inbox) \cup {request}
        /\ Content(threads'[w].outbox) = Answered(w) \cup {[id |-> request.id, answer |-> answer]}
  BY ParseFacts
<1> DEFINE reply == [id |-> request.id, answer |-> answer]
<1>3. /\ threads' \in Seq(Thread) /\ Spawned' = Spawned
      /\ \A v \in Spawned : threads'[v].fate = threads[v].fate
      /\ \A v \in Spawned : v # w => Asked(v)' = Asked(v) /\ Answered(v)' = Answered(v)
  BY ParseFacts DEF Asked, Answered
<1>4. /\ Asked(w) = Asked(w)' \cup {request}
      /\ Answered(w)' = Answered(w) \cup {reply}
  BY <1>2 DEF Asked, Answered
<1>5. reply.id = request.id
  OBVIOUS
<1> HIDE DEF reply
<1>6. PoolShape' /\ RequestsAreDistinct'
  <2>1. worker' \in Nat /\ pending' \subseteq pending
    BY <1>1 DEF PoolShape
  <2>2. \A v \in Spawned : \A m \in Asked(v)' \cup Answered(v)' :
          \E n \in Asked(v) \cup Answered(v) : m.id = n.id
    BY <1>3, <1>4, <1>5
  <2> QED BY <1>1, <1>3, <2>1, <2>2, PoolShrinks
<1>7. ReferenceIsRight'
  BY <1>1, <1>3 DEF ReferenceIsRight
<1>8. RequestsAreUnderWay'
  <2>1. \A v \in Spawned : \A m \in Asked(v) \cup Answered(v) :
          \E n \in Asked(v)' \cup Answered(v)' : n.id = m.id
    BY <1>3, <1>4, <1>5
  <2>2. \A e \in pending : e.worker \in Spawned
    BY DEF PoolShape
  <2> QED BY <2>1, <2>2, <1>1, <1>3 DEF RequestsAreUnderWay
<1> QED BY <1>6, <1>7, <1>8

\* A thread that dies keeps the invariant: its events are still to come.
LEMMA DieKeepsPool ==
  ASSUME PoolInv, NEW w \in Spawned, NEW fate \in Fate, Die(w, fate) PROVE PoolInv'
<1> USE DEF PoolInv
<1>1. /\ worker' = worker /\ nextId' = nextId /\ pending' = pending
      /\ fate \in {"threw", "ending"} /\ threads[w].fate = "live"
  BY DEF Die
<1>2. /\ threads' \in Seq(Thread) /\ Spawned' = Spawned
      /\ threads'[w].fate = fate
      /\ \A v \in Spawned : v # w => threads'[v] = threads[v]
      /\ \A v \in Spawned : v # w => Asked(v)' = Asked(v)
      /\ Asked(w)' = {}
      /\ \A v \in Spawned : Answered(v)' = Answered(v)
  BY DieFacts DEF Asked, Answered
<1>3. PoolShape' /\ RequestsAreDistinct'
  <2>1. worker' \in Nat /\ pending' \subseteq pending
    BY <1>1 DEF PoolShape
  <2>2. \A v \in Spawned : Asked(v)' \cup Answered(v)' \subseteq Asked(v) \cup Answered(v)
    BY <1>2
  <2> QED BY <1>1, <1>2, <2>1, <2>2, PoolShrinks
<1>4. ReferenceIsRight'
  BY <1>1, <1>2 DEF ReferenceIsRight
<1>5. RequestsAreUnderWay'
  <2>1. \A e \in pending : e.worker \in Spawned
    BY DEF PoolShape
  <2> QED BY <2>1, <1>1, <1>2 DEF RequestsAreUnderWay
<1> QED BY <1>3, <1>4, <1>5

\* A worker that cannot be started uses up an id.
LEMMA FailKeepsPool == ASSUME PoolInv, SendFails PROVE PoolInv'
<1> USE DEF PoolInv
<1>1. worker' = worker /\ nextId' = nextId + 1 /\ pending' = pending /\ threads' = threads
  BY DEF SendFails
<1>2. PoolShape'
  <2>1. \A v \in Spawned : \A m \in Asked(v) \cup Answered(v) : m.id \in Nat
    BY MailFacts DEF PoolShape, Request
  <2>2. nextId \in Nat /\ \A e \in pending : e.id \in Nat
    BY DEF PoolShape
  <2>3. /\ \A v \in Spawned : \A m \in Asked(v) \cup Answered(v) : m.id < nextId + 1
        /\ \A e \in pending : e.id < nextId + 1
    BY <2>1, <2>2 DEF PoolShape
  <2>4. /\ Spawned' = Spawned
        /\ \A v \in Spawned : Asked(v)' = Asked(v) /\ Answered(v)' = Answered(v)
    BY <1>1 DEF Spawned, Asked, Answered
  <2> QED BY <1>1, <2>2, <2>3, <2>4 DEF PoolShape
<1>3. ReferenceIsRight' /\ RequestsAreDistinct' /\ RequestsAreUnderWay'
  BY <1>1 DEF ReferenceIsRight, RequestsAreDistinct, RequestsAreUnderWay, Spawned, Asked, Answered
<1> QED BY <1>2, <1>3

\* Steps that leave the pool alone keep its invariant.
LEMMA PoolStays == ASSUME PoolInv, UNCHANGED poolVars PROVE PoolInv'
<1>1. worker' = worker /\ nextId' = nextId /\ pending' = pending /\ threads' = threads
  BY DEF poolVars
<1>2. /\ Spawned' = Spawned
      /\ \A v \in Spawned : Asked(v)' = Asked(v) /\ Answered(v)' = Answered(v)
  BY <1>1 DEF Spawned, Asked, Answered
<1> QED BY <1>1, <1>2 DEF PoolInv, PoolShape, ReferenceIsRight, RequestsAreDistinct,
                        RequestsAreUnderWay

\* What the thread can answer to a request that is in its inbox.
LEMMA AnswersAreText ==
  ASSUME CheckShape, NEW c \in Call, NEW type \in Parsing
  PROVE  Answers([caller |-> c, type |-> type]) \subseteq AnswerText
<1>1. page[c].orgs \in OrgOutcome \cup {Unread}
  BY DEF CheckShape
<1>2. type \in {"parseOrgs", "parseMain", "parseHandle"}
  BY DEF Parsing
<1>3. CASE type = "parseOrgs"
  BY <1>1, <1>3 DEF Answers, AnswerText
<1>4. CASE type = "parseMain"
  BY <1>4 DEF Answers, AnswerText
<1>5. CASE type = "parseHandle"
  BY <1>5 DEF Answers, AnswerText
<1> QED BY <1>2, <1>3, <1>4, <1>5

\* A check asks for a parse only when it waits for none.
LEMMA AskFacts ==
  ASSUME CheckShape, NEW c \in Call, AskWorker(c)
  PROVE  /\ stage[c] \in Parsing /\ \A e \in pending : e.caller # c
         /\ WorkFor(c) \in [caller : Call, type : Parsing]
         /\ UNCHANGED <<vars, page>>
         /\ \/ SendToWorker(c, WorkFor(c)) /\ stage' = stage /\ result' = result
            \/ SendFails /\ Reject({c})
<1>1. stage[c] \in Parsing /\ \A e \in pending : e.caller # c
  BY DEF AskWorker, ParseDue
<1>2. WorkFor(c) \in [caller : Call, type : Parsing]
  BY <1>1 DEF WorkFor
<1> QED BY <1>1, <1>2 DEF AskWorker, WorkFor

\* A thread answers a request of its inbox with what is on the page.
LEMMA ThreadStepFacts ==
  ASSUME PoolInv, CheckShape, NEW w \in Spawned, ThreadStep(w)
  PROVE  /\ UNCHANGED <<vars, stage, page, result>>
         /\ \/ /\ Head(threads[w].inbox) \in Asked(w)
               /\ \E answer \in AnswerText :
                    /\ answer \in Answers(Head(threads[w].inbox).work)
                    /\ Parse(w, answer)
            \/ \E fate \in Fate : Die(w, fate)
<1>1. UNCHANGED <<vars, stage, page, result>>
  BY DEF ThreadStep
<1>2. CASE \E fate \in Fate : Die(w, fate)
  BY <1>1, <1>2
<1>3. ASSUME threads[w].inbox # <<>>, NEW answer \in Answers(WorkOf(w)), Parse(w, answer)
      PROVE  /\ Head(threads[w].inbox) \in Asked(w)
             /\ answer \in AnswerText /\ answer \in Answers(Head(threads[w].inbox).work)
  <2> DEFINE request == Head(threads[w].inbox)
  <2>1. threads[w].inbox \in Seq(Request)
    BY ThreadFacts DEF PoolInv, PoolShape
  <2>2. request \in Request /\ request \in Asked(w)
    BY <2>1, <1>3, TakeContent DEF Asked
  <2> HIDE DEF request
  <2>3. PICK c \in Call, type \in Parsing : request.work = [caller |-> c, type |-> type]
    BY <2>2 DEF Request
  <2>4. answer \in Answers(request.work)
    BY <1>3 DEF WorkOf, request
  <2> QED BY <2>2, <2>3, <2>4, AnswersAreText DEF request
<1> QED BY <1>1, <1>2, <1>3 DEF ThreadStep

\* The pool keeps its invariant in every step of the checks.
LEMMA CheckKeepsPool == ASSUME PoolInv, CheckShape, [CheckNext]_checkVars PROVE PoolInv'
<1>1. ASSUME NEW c \in Call, RequestSlot(c) \/ Begin(c) \/ RequestEnds(c) \/ Wake(c)
      PROVE  PoolInv'
  <2>1. UNCHANGED poolVars
    BY <1>1 DEF RequestSlot, Begin, RequestEnds, GotPage, GotRefusal, GotFailure, Wake
  <2> QED BY <2>1, PoolStays
<1>2. ASSUME NEW c \in Call, AskWorker(c) PROVE PoolInv'
  <2>1. /\ \A e \in pending : e.caller # c
        /\ WorkFor(c) \in [caller : Call, type : Parsing]
        /\ SendToWorker(c, WorkFor(c)) \/ SendFails
    BY <1>2, AskFacts
  <2> QED BY <2>1, SendKeepsPool, FailKeepsPool
<1>3. CASE LimiterStep \/ UNCHANGED checkVars
  <2>1. UNCHANGED poolVars
    BY <1>3 DEF LimiterStep, checkVars
  <2> QED BY <2>1, PoolStays
<1>4. ASSUME NEW w \in Spawned, WorkerStep(w) PROVE PoolInv'
  <2>1. HandleMessage(w) \/ HandleError(w) \/ HandleExit(w)
    BY <1>4 DEF WorkerStep, WorkerAnswers, WorkerFails
  <2> QED BY <2>1, MessageKeepsPool, ErrorKeepsPool, ExitKeepsPool
<1>5. ASSUME NEW w \in Spawned, ThreadStep(w) PROVE PoolInv'
  BY <1>5, ThreadStepFacts, ParseKeepsPool, DieKeepsPool
<1> QED BY <1>1, <1>2, <1>3, <1>4, <1>5 DEF CheckNext

-----------------------------------------------------------------------------
(* The verdicts *)

\* What a step does to check d: nothing, take it on, or end it with a result its
\* pages bear out.
Kept(d) == stage'[d] = stage[d] /\ result'[d] = result[d] /\ page'[d] = page[d]

Moved(d) ==
  /\ stage[d] # "done" /\ result'[d] = result[d]
  /\ \/ stage'[d] = "citizen"
     \/ d \in Existence /\ stage'[d] = "parseHandle"
     \/ d \notin Existence /\ stage'[d] \in {"organizations", "parseOrgs"}
     \/ d \notin Existence /\ stage'[d] = "parseMain" /\ page'[d].orgs = "not_in_org"

Ended(d) == stage'[d] = "done" /\ page'[d] = page[d] /\ Fits(d, result'[d])

\* Steps of that form keep what the verdicts rest on.
LEMMA ChecksMove ==
  ASSUME CheckInv,
         stage' = [d \in Call |-> stage'[d]], result' = [d \in Call |-> result'[d]],
         page' \in [Call -> [orgs : OrgOutcome \cup {Unread}, main : BOOLEAN]],
         \A d \in Call : Kept(d) \/ Moved(d) \/ Ended(d),
         \A d \in Call : pc'[d] # "idle" => stage'[d] \in Fetching,
         \A e \in pending' : stage'[e.caller] \in Parsing
  PROVE  CheckShape' /\ StagesFit' /\ ChecksAreInOnePlace' /\ VerdictsAreOwn'
<1> USE DEF CheckInv
<1>1. ASSUME NEW d \in Call
      PROVE  /\ stage'[d] \in {"start", "done"} \cup Fetching \cup Parsing
             /\ result'[d] \in Membership \cup ExistenceResult \cup {"none"}
             /\ d \in Existence => stage'[d] \in {"start", "citizen", "parseHandle", "done"}
             /\ d \notin Existence => stage'[d] # "parseHandle"
             /\ stage'[d] = "parseMain" => page'[d].orgs = "not_in_org"
             /\ result'[d] # "none" => stage'[d] = "done"
             /\ result'[d] = "in_org" => \/ page'[d].orgs = "in_org"
                                         \/ page'[d].orgs = "not_in_org" /\ page'[d].main
             /\ result'[d] = "not_in_org" => page'[d].orgs = "not_in_org"
             /\ d \in Existence => result'[d] \in ExistenceResult \cup {"none"}
  <2>1. CASE Kept(d)
    <3>1. /\ stage'[d] = stage[d] /\ result'[d] = result[d] /\ page'[d] = page[d]
      BY <2>1 DEF Kept
    <3>2. /\ stage[d] \in {"start", "done"} \cup Fetching \cup Parsing
          /\ result[d] \in Membership \cup ExistenceResult \cup {"none"}
      BY DEF CheckShape
    <3> QED BY <3>1, <3>2 DEF StagesFit, ChecksAreInOnePlace, VerdictsAreOwn
  <2>2. CASE Moved(d)
    <3>1. result'[d] = "none"
      BY <2>2 DEF Moved, ChecksAreInOnePlace
    <3> QED BY <2>2, <3>1 DEF Moved, Fetching, Parsing
  <2>3. CASE Ended(d)
    BY <2>3 DEF Ended, Fits, Membership, ExistenceResult
  <2> QED BY <2>1, <2>2, <2>3
<1>2. CheckShape'
  BY <1>1 DEF CheckShape
<1>3. StagesFit'
  BY <1>1 DEF StagesFit
<1>4. ChecksAreInOnePlace'
  BY <1>1 DEF ChecksAreInOnePlace
<1>5. VerdictsAreOwn'
  BY <1>1 DEF VerdictsAreOwn
<1> QED BY <1>2, <1>3, <1>4, <1>5

\* A fetch or a parse that fails leaves a result that says no more than is known.
LEMMA FailuresFit ==
  ASSUME CheckInv, NEW c \in Call
  PROVE  /\ \A missing \in BOOLEAN : Fits(c, FailedFetch(c, missing))
         /\ stage[c] \in Parsing => Fits(c, FailedParse(stage[c]))
<1>1. ASSUME NEW missing \in BOOLEAN PROVE Fits(c, FailedFetch(c, missing))
  BY DEF Fits, FailedFetch, Membership, ExistenceResult
<1>2. ASSUME stage[c] \in Parsing PROVE Fits(c, FailedParse(stage[c]))
  <2>1. /\ c \in Existence => stage[c] = "parseHandle"
        /\ c \notin Existence => stage[c] # "parseHandle"
        /\ stage[c] = "parseMain" => page[c].orgs = "not_in_org"
    BY <1>2 DEF CheckInv, StagesFit, Parsing
  <2>2. CASE stage[c] = "parseOrgs"
    BY <2>1, <2>2 DEF Fits, FailedParse, Membership, ExistenceResult
  <2>3. CASE stage[c] = "parseMain"
    BY <2>1, <2>3 DEF Fits, FailedParse, Membership, ExistenceResult
  <2>4. CASE stage[c] = "parseHandle"
    BY <2>1, <2>4 DEF Fits, FailedParse, Membership, ExistenceResult
  <2> QED BY <1>2, <2>2, <2>3, <2>4 DEF Parsing
<1> QED BY <1>1, <1>2

\* Checks that fail in the parser end, and the others stay where they are.
LEMMA RejectFacts ==
  ASSUME CheckInv, NEW callers \in SUBSET Call, \A c \in callers : stage[c] \in Parsing,
         Reject(callers), page' = page
  PROVE  /\ stage' = [d \in Call |-> stage'[d]] /\ result' = [d \in Call |-> result'[d]]
         /\ \A d \in callers : Ended(d)
         /\ \A d \in Call \ callers : Kept(d)
<1>1. /\ stage' = [c \in Call |-> IF c \in callers THEN "done" ELSE stage[c]]
      /\ result' = [c \in Call |-> IF c \in callers THEN FailedParse(stage[c]) ELSE result[c]]
  BY DEF Reject
<1>2. \A d \in callers : Fits(d, FailedParse(stage[d]))
  BY FailuresFit
<1> QED BY <1>1, <1>2 DEF Ended, Kept

\* A check whose answer has come goes on to the citizen's page or ends with what
\* its pages say.
LEMMA AnswerFacts ==
  ASSUME CheckInv, NEW c \in Call, stage[c] \in Parsing,
         NEW answer \in Answers(WorkFor(c)), GoOn(c, answer), page' = page
  PROVE  /\ stage' = [d \in Call |-> stage'[d]] /\ result' = [d \in Call |-> result'[d]]
         /\ Ended(c) \/ (Moved(c) /\ stage'[c] = "parseMain")
         /\ \A d \in Call \ {c} : Kept(d)
<1>1. CASE Reject({c})
  BY <1>1, RejectFacts
<1>2. /\ stage \in [Call -> {"start", "done"} \cup Fetching \cup Parsing]
      /\ result \in [Call -> Membership \cup ExistenceResult \cup {"none"}]
  BY DEF CheckInv, CheckShape
<1>3. /\ c \in Existence => stage[c] = "parseHandle"
      /\ c \notin Existence => stage[c] # "parseHandle"
      /\ stage[c] = "parseMain" => page[c].orgs = "not_in_org"
  BY DEF CheckInv, StagesFit, Parsing
<1>4. ASSUME NEW r, Return(c, r), Fits(c, r)
      PROVE  /\ stage' = [d \in Call |-> stage'[d]] /\ result' = [d \in Call |-> result'[d]]
             /\ Ended(c) /\ \A d \in Call \ {c} : Kept(d)
  BY <1>2, <1>4 DEF Return, Ended, Kept
<1>5. CASE stage[c] = "parseOrgs"
  <2>1. answer \in {"threw", page[c].orgs}
    BY <1>5 DEF Answers, WorkFor
  <2>2. CASE answer \notin OrgOutcome
    <3>1. answer # "not_in_org"
      BY <2>2 DEF OrgOutcome
    <3>2. Reject({c})
      BY <1>5, <2>2, <3>1 DEF GoOn, Expected
    <3> QED BY <1>1, <3>2
  <2>3. CASE answer = "not_in_org"
    <3>1. stage' = [stage EXCEPT ![c] = "parseMain"] /\ result' = result
      BY <1>5, <2>3 DEF GoOn, Expected, OrgOutcome
    <3>2. page[c].orgs = "not_in_org"
      BY <2>1, <2>3
    <3> QED BY <1>2, <1>3, <1>5, <3>1, <3>2 DEF Moved, Kept
  <2>4. CASE answer \in {"in_org", "undetermined"}
    <3>1. Return(c, IF answer = "in_org" THEN "in_org" ELSE "unknown")
      BY <1>5, <2>4 DEF GoOn, Expected, OrgOutcome, Verdict
    <3>2. answer = page[c].orgs
      BY <2>1, <2>4
    <3>3. Fits(c, IF answer = "in_org" THEN "in_org" ELSE "unknown")
      BY <1>3, <1>5, <3>2 DEF Fits, Membership, ExistenceResult
    <3> QED BY <1>4, <3>1, <3>3
  <2> QED BY <2>2, <2>3, <2>4 DEF OrgOutcome
<1>6. CASE stage[c] = "parseMain"
  <2>1. answer \in {"threw", IF page[c].main THEN "visible" ELSE "hidden"}
    BY <1>6 DEF Answers, WorkFor
  <2>2. CASE answer = "threw"
    BY <1>1, <1>6, <2>2 DEF GoOn, Expected
  <2>3. CASE answer \in {"visible", "hidden"}
    <3>1. Return(c, IF answer = "visible" THEN "in_org" ELSE "not_in_org")
      BY <1>6, <2>3 DEF GoOn, Expected, Verdict
    <3>2. answer = "visible" => page[c].main
      BY <2>1, <2>3
    <3>3. Fits(c, IF answer = "visible" THEN "in_org" ELSE "not_in_org")
      BY <1>3, <1>6, <3>2 DEF Fits, Membership, ExistenceResult
    <3> QED BY <1>4, <3>1, <3>3
  <2> QED BY <2>1, <2>2, <2>3
<1>7. CASE stage[c] = "parseHandle"
  <2>1. answer \in {"threw", "canonical", "submitted"}
    BY <1>7 DEF Answers, WorkFor
  <2>2. CASE answer = "threw"
    BY <1>1, <1>7, <2>2 DEF GoOn, Expected, OrgOutcome
  <2>3. CASE answer \in {"canonical", "submitted"}
    <3>1. Return(c, answer)
      BY <1>7, <2>3 DEF GoOn, Expected, Verdict
    <3>2. Fits(c, answer)
      BY <2>3 DEF Fits, ExistenceResult
    <3> QED BY <1>4, <3>1, <3>2
  <2> QED BY <2>1, <2>2, <2>3
<1> QED BY <1>5, <1>6, <1>7 DEF Parsing

\* The end of a request moves or ends its check, and no other.
LEMMA RequestEndsFacts ==
  ASSUME CheckInv, NEW c \in Call, RequestEnds(c)
  PROVE  /\ stage[c] \in Fetching
         /\ stage' = [d \in Call |-> stage'[d]] /\ result' = [d \in Call |-> result'[d]]
         /\ page' \in [Call -> [orgs : OrgOutcome \cup {Unread}, main : BOOLEAN]]
         /\ Kept(c) \/ Moved(c) \/ Ended(c)
         /\ \A d \in Call \ {c} : Kept(d)
<1> DEFINE Moves ==
         /\ stage' = [d \in Call |-> stage'[d]] /\ result' = [d \in Call |-> result'[d]]
         /\ page' \in [Call -> [orgs : OrgOutcome \cup {Unread}, main : BOOLEAN]]
         /\ Kept(c) \/ Moved(c) \/ Ended(c)
         /\ \A d \in Call \ {c} : Kept(d)
<1>1. /\ stage \in [Call -> {"start", "done"} \cup Fetching \cup Parsing]
      /\ page \in [Call -> [orgs : OrgOutcome \cup {Unread}, main : BOOLEAN]]
      /\ result \in [Call -> Membership \cup ExistenceResult \cup {"none"}]
      /\ stage = [d \in Call |-> stage[d]] /\ result = [d \in Call |-> result[d]]
  BY DEF CheckInv, CheckShape
<1>2. stage[c] \in Fetching /\ stage[c] # "done"
  <2>1. Finish(c)
    BY DEF RequestEnds, GotPage, GotRefusal, GotFailure
  <2>2. pc[c] # "idle"
    BY <2>1 DEF Finish
  <2> QED BY <2>2 DEF CheckInv, ChecksAreInOnePlace, Fetching
<1> SUFFICES Moves
  BY <1>2
<1>3. ASSUME NEW r, Return(c, r), Fits(c, r), page' = page PROVE Moves
  <2>1. /\ stage' = [d \in Call |-> stage'[d]] /\ result' = [d \in Call |-> result'[d]]
        /\ Ended(c) /\ \A d \in Call \ {c} : Kept(d)
    BY <1>1, <1>3 DEF Return, Ended, Kept
  <2> QED BY <1>1, <1>3, <2>1
<1>4. CASE GotPage(c)
  <2>1. stage' = [stage EXCEPT ![c] = AfterPage(c)] /\ result' = result
    BY <1>4 DEF GotPage
  <2> DEFINE PageFits ==
        /\ page' \in [Call -> [orgs : OrgOutcome \cup {Unread}, main : BOOLEAN]]
        /\ \A d \in Call \ {c} : page'[d] = page[d]
  <2>2. PageFits
    <3>1. ASSUME NEW main \in BOOLEAN, page' = [page EXCEPT ![c].main = main] PROVE PageFits
      <4> DEFINE p == [page[c] EXCEPT !.main = main]
      <4>1. page' = [page EXCEPT ![c] = p]
        BY <3>1
      <4>2. p \in [orgs : OrgOutcome \cup {Unread}, main : BOOLEAN]
        BY <1>1
      <4> HIDE DEF p
      <4> QED BY <1>1, <4>1, <4>2
    <3>2. ASSUME NEW orgs \in OrgOutcome, page' = [page EXCEPT ![c].orgs = orgs] PROVE PageFits
      <4> DEFINE p == [page[c] EXCEPT !.orgs = orgs]
      <4>1. page' = [page EXCEPT ![c] = p]
        BY <3>2
      <4>2. p \in [orgs : OrgOutcome \cup {Unread}, main : BOOLEAN]
        BY <1>1
      <4> HIDE DEF p
      <4> QED BY <1>1, <4>1, <4>2
    <3>3. CASE page' = page
      BY <1>1, <3>3
    <3> QED BY <3>1, <3>2, <3>3, <1>4 DEF GotPage
  <2>3. /\ AfterPage(c) = "parseHandle" => c \in Existence
        /\ AfterPage(c) \in {"organizations", "parseOrgs"} => c \notin Existence
        /\ AfterPage(c) \in {"organizations", "parseOrgs", "parseHandle"}
    <3>1. c \in Existence => stage[c] = "citizen"
      BY <1>2 DEF CheckInv, StagesFit, Fetching
    <3> QED BY <3>1 DEF AfterPage
  <2>4. Moved(c)
    BY <1>1, <1>2, <2>1, <2>3 DEF Moved
  <2>5. \A d \in Call \ {c} : Kept(d)
    BY <1>1, <2>1, <2>2 DEF Kept
  <2>6. stage' = [d \in Call |-> stage'[d]] /\ result' = [d \in Call |-> result'[d]]
    BY <1>1, <2>1
  <2> QED BY <2>2, <2>4, <2>5, <2>6
<1>5. CASE GotRefusal(c)
  BY <1>3, <1>5, FailuresFit DEF GotRefusal
<1>6. CASE GotFailure(c)
  <2>1. page' = page
    BY <1>6 DEF GotFailure
  <2>2. CASE Return(c, FailedFetch(c, FALSE))
    BY <1>3, <2>1, <2>2, FailuresFit
  <2>3. CASE stage' = stage /\ result' = result
    <3>1. \A d \in Call : Kept(d)
      BY <2>1, <2>3 DEF Kept
    <3> QED BY <1>1, <2>1, <2>3, <3>1
  <2> QED BY <2>2, <2>3, <1>6 DEF GotFailure
<1> QED BY <1>2, <1>4, <1>5, <1>6 DEF RequestEnds

\* Steps of the pool and the site, one check at a time, end or move that check as
\* ChecksMove wants it.
LEMMA CheckKeepsVerdicts ==
  ASSUME CheckInv, [CheckNext]_checkVars
  PROVE  CheckShape' /\ StagesFit' /\ ChecksAreInOnePlace' /\ VerdictsAreOwn'
<1> DEFINE Goal == CheckShape' /\ StagesFit' /\ ChecksAreInOnePlace' /\ VerdictsAreOwn'
<1>1. /\ stage \in [Call -> {"start", "done"} \cup Fetching \cup Parsing]
      /\ page \in [Call -> [orgs : OrgOutcome \cup {Unread}, main : BOOLEAN]]
      /\ result \in [Call -> Membership \cup ExistenceResult \cup {"none"}]
      /\ stage = [d \in Call |-> stage[d]] /\ result = [d \in Call |-> result[d]]
  BY DEF CheckInv, CheckShape
<1>2. /\ \A d \in Call : pc[d] # "idle" => stage[d] \in Fetching
      /\ \A e \in pending : stage[e.caller] \in Parsing /\ e.caller \in Call
  BY DEF CheckInv, ChecksAreInOnePlace, PoolInv, PoolShape
<1>3. Fetching \cap Parsing = {} /\ "start" \notin Fetching \cup Parsing
      /\ "done" \notin Fetching \cup Parsing
  BY DEF Fetching, Parsing
<1>4. ASSUME stage' = stage, result' = result, page' = page,
             \A d \in Call : pc'[d] # "idle" => stage[d] \in Fetching,
             \A e \in pending' : stage[e.caller] \in Parsing
      PROVE  Goal
  <2>1. \A d \in Call : Kept(d)
    BY <1>4 DEF Kept
  <2> QED BY <1>1, <1>4, <2>1, ChecksMove
<1>5. ASSUME NEW c \in Call, RequestSlot(c) PROVE Goal
  <2>1. /\ stage[c] \in Fetching /\ Arrive(c) /\ UNCHANGED <<stage, result, page, pending>>
    BY <1>5 DEF RequestSlot, SlotDue, poolVars
  <2>2. \A d \in Call : pc'[d] # "idle" <=> d = c \/ pc[d] # "idle"
    BY <2>1, ArriveFacts DEF CheckInv
  <2> QED BY <1>2, <1>4, <2>1, <2>2
<1>6. ASSUME NEW c \in Call, Wake(c) PROVE Goal
  BY <1>2, <1>4, <1>6 DEF Wake, vars, poolVars
<1>7. CASE LimiterStep
  <2>1. (TimerFires \/ Clock) /\ UNCHANGED <<stage, result, page, pending>>
    BY <1>7 DEF LimiterStep, poolVars
  <2>2. \A d \in Call : pc'[d] # "idle" <=> pc[d] # "idle"
    BY <2>1, LimiterStepFacts DEF CheckInv
  <2> QED BY <1>2, <1>4, <2>1, <2>2
<1>8. CASE UNCHANGED checkVars
  BY <1>2, <1>4, <1>8 DEF checkVars, vars, poolVars
<1>9. ASSUME NEW w \in Spawned, ThreadStep(w) PROVE Goal
  <2>1. UNCHANGED <<stage, result, page, pc, pending>>
    BY <1>9 DEF ThreadStep, vars, Parse, Die
  <2> QED BY <1>2, <1>4, <2>1
<1>10. ASSUME NEW c \in Call, Begin(c) PROVE Goal
  <2>1. /\ stage[c] = "start" /\ stage' = [stage EXCEPT ![c] = "citizen"]
        /\ UNCHANGED <<result, page, pc, pending>>
    BY <1>10 DEF Begin, vars, poolVars
  <2>2. \A d \in Call : Kept(d) \/ Moved(d) \/ Ended(d)
    BY <1>1, <2>1 DEF Kept, Moved
  <2>3. \A d \in Call : pc'[d] # "idle" => stage'[d] \in Fetching
    BY <1>1, <1>2, <2>1 DEF Fetching
  <2>4. \A e \in pending' : stage'[e.caller] \in Parsing
    BY <1>1, <1>2, <1>3, <2>1
  <2>5. stage' = [d \in Call |-> stage'[d]] /\ result' = [d \in Call |-> result'[d]]
    BY <1>1, <2>1
  <2> QED BY <1>1, <2>1, <2>2, <2>3, <2>4, <2>5, ChecksMove
<1>11. ASSUME NEW c \in Call, RequestEnds(c) PROVE Goal
  <2>1. /\ Finish(c) /\ pending' = pending
    BY <1>11 DEF RequestEnds, GotPage, GotRefusal, GotFailure, poolVars
  <2>2. /\ stage[c] \in Fetching
        /\ stage' = [d \in Call |-> stage'[d]] /\ result' = [d \in Call |-> result'[d]]
        /\ page' \in [Call -> [orgs : OrgOutcome \cup {Unread}, main : BOOLEAN]]
        /\ Kept(c) \/ Moved(c) \/ Ended(c)
        /\ \A d \in Call \ {c} : Kept(d)
    BY <1>11, RequestEndsFacts
  <2>3. \A d \in Call : pc'[d] # "idle" <=> d # c /\ pc[d] # "idle"
    BY <2>1, FinishFacts DEF CheckInv
  <2>4. \A d \in Call : pc'[d] # "idle" => stage'[d] \in Fetching
    BY <1>2, <2>2, <2>3 DEF Kept
  <2>5. \A e \in pending' : stage'[e.caller] \in Parsing
    BY <1>2, <1>3, <2>1, <2>2 DEF Kept
  <2> QED BY <2>2, <2>4, <2>5, ChecksMove
<1>12. ASSUME NEW c \in Call, AskWorker(c) PROVE Goal
  <2>1. /\ stage[c] \in Parsing /\ \A e \in pending : e.caller # c
        /\ WorkFor(c) \in [caller : Call, type : Parsing]
        /\ UNCHANGED <<pc, page>>
        /\ \/ SendToWorker(c, WorkFor(c)) /\ stage' = stage /\ result' = result
           \/ SendFails /\ Reject({c})
    BY <1>12, AskFacts DEF CheckInv, vars
  <2>2. CASE SendToWorker(c, WorkFor(c)) /\ stage' = stage /\ result' = result
    <3>1. \A e \in pending' : e \in pending \/ e.caller = c
      BY <2>2 DEF SendToWorker
    <3> QED BY <1>2, <1>4, <2>1, <2>2, <3>1
  <2>3. CASE SendFails /\ Reject({c})
    <3>1. /\ stage' = [d \in Call |-> stage'[d]] /\ result' = [d \in Call |-> result'[d]]
          /\ Ended(c) /\ \A d \in Call \ {c} : Kept(d)
      BY <2>1, <2>3, RejectFacts
    <3>2. \A d \in Call : pc'[d] # "idle" => stage'[d] \in Fetching
      BY <1>2, <1>3, <2>1, <3>1 DEF Kept
    <3>3. \A e \in pending' : stage'[e.caller] \in Parsing
      BY <1>2, <2>1, <2>3, <3>1 DEF SendFails, Kept
    <3> QED BY <1>1, <2>1, <3>1, <3>2, <3>3, ChecksMove
  <2> QED BY <2>1, <2>2, <2>3
<1>13. ASSUME NEW w \in Spawned, WorkerFails(w), UNCHANGED <<vars, page>> PROVE Goal
  <2>1. Rejected(w) \in SUBSET Call /\ \A c \in Rejected(w) : stage[c] \in Parsing
    BY <1>2 DEF Rejected, OwnedBy
  <2>2. pending' = pending \ OwnedBy(w) /\ Reject(Rejected(w)) /\ pc' = pc /\ page' = page
    BY <1>13 DEF WorkerFails, HandleError, HandleExit, vars
  <2>3. /\ stage' = [d \in Call |-> stage'[d]] /\ result' = [d \in Call |-> result'[d]]
        /\ \A d \in Rejected(w) : Ended(d)
        /\ \A d \in Call \ Rejected(w) : Kept(d)
    BY <2>1, <2>2, RejectFacts
  <2>4. \A e \in pending' : e \in pending /\ e.caller \notin Rejected(w)
    BY <2>2 DEF CheckInv, PoolInv, RequestsAreDistinct, Rejected, OwnedBy
  <2>5. \A d \in Call : pc'[d] # "idle" => stage'[d] \in Fetching
    BY <1>2, <1>3, <2>1, <2>2, <2>3 DEF Kept
  <2>6. \A e \in pending' : stage'[e.caller] \in Parsing
    BY <1>2, <2>3, <2>4 DEF Kept
  <2> QED BY <1>1, <2>2, <2>3, <2>5, <2>6, ChecksMove
<1>14. ASSUME NEW w \in Spawned, WorkerAnswers(w), UNCHANGED <<vars, page>> PROVE Goal
  <2>1. pending' = pending \ Settled(w) /\ pc' = pc /\ page' = page /\ HandleMessage(w)
    BY <1>14 DEF WorkerAnswers, HandleMessage, vars
  <2>2. CASE Settled(w) = {}
    BY <1>2, <1>4, <1>14, <2>1, <2>2 DEF WorkerAnswers
  <2>3. ASSUME NEW e \in Settled(w), GoOn(e.caller, AnswerOf(w).answer) PROVE Goal
    <3> DEFINE c == e.caller
    <3>1. e \in pending /\ e.id = AnswerOf(w).id /\ c \in Call /\ stage[c] \in Parsing
      BY <2>3, <1>2 DEF Settled
    <3>2. AnswerOf(w).answer \in Answers(WorkFor(c))
      <4>1. AnswerOf(w) \in Answered(w)
        BY <2>1, MessageFacts DEF CheckInv, PoolInv
      <4> QED BY <3>1, <4>1 DEF CheckInv, MessagesAreOwn
    <3>3. \A f \in pending' : f \in pending /\ f.caller # c
      BY <2>1, <2>3, <3>1 DEF CheckInv, PoolInv, RequestsAreDistinct
    <3> HIDE DEF c
    <3>4. GoOn(c, AnswerOf(w).answer)
      BY <2>3 DEF c
    <3>5. /\ stage' = [d \in Call |-> stage'[d]] /\ result' = [d \in Call |-> result'[d]]
          /\ Ended(c) \/ (Moved(c) /\ stage'[c] = "parseMain")
          /\ \A d \in Call \ {c} : Kept(d)
      BY <2>1, <3>1, <3>2, <3>4, AnswerFacts
    <3>6. \A d \in Call : pc'[d] # "idle" => stage'[d] \in Fetching
      BY <1>2, <1>3, <2>1, <3>1, <3>5 DEF Kept
    <3>7. \A f \in pending' : stage'[f.caller] \in Parsing
      BY <1>2, <3>3, <3>5 DEF Kept
    <3> QED BY <1>1, <2>1, <3>5, <3>6, <3>7, ChecksMove
  <2> QED BY <2>2, <2>3, <1>14 DEF WorkerAnswers
<1>15. ASSUME NEW w \in Spawned, WorkerStep(w) PROVE Goal
  BY <1>13, <1>14, <1>15 DEF WorkerStep
<1> QED BY <1>5, <1>6, <1>7, <1>8, <1>9, <1>10, <1>11, <1>12, <1>15 DEF CheckNext

\* What a check's page and stage say does not change under its request.
LEMMA AnswersStay ==
  ASSUME NEW c \in Call, stage'[c] = stage[c], page'[c] = page[c]
  PROVE  WorkFor(c)' = WorkFor(c) /\ Answers(WorkFor(c))' = Answers(WorkFor(c))
<1>1. [caller |-> c, type |-> stage'[c]] = [caller |-> c, type |-> stage[c]]
  OBVIOUS
<1> QED BY <1>1 DEF WorkFor, Answers

\* Messages that are left, about checks that stay where they are, stay right.
LEMMA MailStays ==
  ASSUME CheckInv, Spawned' = Spawned, pending' \subseteq pending,
         \A v \in Spawned : Asked(v)' \subseteq Asked(v) /\ Answered(v)' \subseteq Answered(v),
         \A e \in pending' : stage'[e.caller] = stage[e.caller] /\ page'[e.caller] = page[e.caller]
  PROVE  MessagesAreOwn'
<1> SUFFICES ASSUME NEW w \in Spawned', NEW e \in pending'
             PROVE  /\ \A m \in Asked(w)' : m.id = e.id => m.work = WorkFor(e.caller)'
                    /\ \A m \in Answered(w)' :
                         m.id = e.id => m.answer \in Answers(WorkFor(e.caller))'
  BY DEF MessagesAreOwn
<1>1. e \in pending /\ e.caller \in Call
  BY DEF CheckInv, PoolInv, PoolShape
<1>3. WorkFor(e.caller)' = WorkFor(e.caller)
      /\ Answers(WorkFor(e.caller))' = Answers(WorkFor(e.caller))
  <2> DEFINE c == e.caller
  <2>1. c \in Call /\ stage'[c] = stage[c] /\ page'[c] = page[c]
    BY <1>1
  <2> QED BY <2>1, AnswersStay
<1> QED BY <1>1, <1>3 DEF CheckInv, MessagesAreOwn

\* What the bot and the threads send each other stays about the right page.
LEMMA CheckKeepsMessages == ASSUME CheckInv, [CheckNext]_checkVars PROVE MessagesAreOwn'
<1>1. /\ stage \in [Call -> {"start", "done"} \cup Fetching \cup Parsing]
      /\ \A e \in pending : e.caller \in Call /\ stage[e.caller] \in Parsing
      /\ Fetching \cap Parsing = {} /\ "start" \notin Parsing
      /\ PoolShape
  BY DEF CheckInv, CheckShape, ChecksAreInOnePlace, PoolInv, PoolShape, Fetching, Parsing
<1>2. ASSUME UNCHANGED poolVars,
             \A d \in Call : stage[d] \in Parsing => stage'[d] = stage[d] /\ page'[d] = page[d]
      PROVE  MessagesAreOwn'
  <2>1. /\ Spawned' = Spawned /\ pending' = pending
        /\ \A v \in Spawned : Asked(v)' = Asked(v) /\ Answered(v)' = Answered(v)
    BY <1>2 DEF poolVars, Spawned, Asked, Answered
  <2> QED BY <1>1, <1>2, <2>1, MailStays
<1>3. ASSUME NEW c \in Call, RequestSlot(c) \/ Wake(c) PROVE MessagesAreOwn'
  BY <1>2, <1>3 DEF RequestSlot, Wake
<1>4. CASE LimiterStep \/ UNCHANGED checkVars
  BY <1>2, <1>4 DEF LimiterStep, checkVars
<1>5. ASSUME NEW c \in Call, Begin(c) PROVE MessagesAreOwn'
  BY <1>1, <1>2, <1>5 DEF Begin
<1>6. ASSUME NEW c \in Call, RequestEnds(c) PROVE MessagesAreOwn'
  <2>1. UNCHANGED poolVars
    BY <1>6 DEF RequestEnds, GotPage, GotRefusal, GotFailure
  <2>2. stage[c] \in Fetching /\ \A d \in Call \ {c} : Kept(d)
    BY <1>6, RequestEndsFacts
  <2> QED BY <1>1, <1>2, <2>1, <2>2 DEF Kept
<1>7. ASSUME NEW c \in Call, AskWorker(c) PROVE MessagesAreOwn'
  <2>1. /\ stage[c] \in Parsing /\ \A e \in pending : e.caller # c
        /\ WorkFor(c) \in [caller : Call, type : Parsing]
        /\ page' = page
        /\ \/ SendToWorker(c, WorkFor(c)) /\ stage' = stage /\ result' = result
           \/ SendFails /\ Reject({c})
    BY <1>7, AskFacts DEF CheckInv
  <2>2. CASE SendToWorker(c, WorkFor(c)) /\ stage' = stage
    <3> DEFINE request == [id |-> nextId, work |-> WorkFor(c)]
    <3>1. PICK w \in Nat \ {Null} :
             /\ Spawned' = Spawned \cup {w}
             /\ pending' = pending \cup {[id |-> nextId, worker |-> w, caller |-> c]}
             /\ \A v \in Spawned : v # w => threads'[v] = threads[v]
             /\ \/ /\ w \notin Spawned
                   /\ Content(threads'[w].inbox) = {request}
                   /\ Content(threads'[w].outbox) = {}
                \/ /\ w \in Spawned
                   /\ threads'[w].outbox = threads[w].outbox
                   /\ IF threads[w].fate = "live"
                      THEN Content(threads'[w].inbox) = Asked(w) \cup {request}
                      ELSE threads'[w] = threads[w]
      BY <2>1, <2>2, SendFacts DEF CheckInv, PoolInv
    <3>2. request.id = nextId /\ request.work = WorkFor(c) /\ nextId \in Nat
      BY <1>1 DEF PoolShape
    <3>3. /\ \A v \in Spawned' : \A m \in Asked(v)' :
               m = request \/ (v \in Spawned /\ m \in Asked(v))
          /\ \A v \in Spawned' : \A m \in Answered(v)' : v \in Spawned /\ m \in Answered(v)
      <4> HIDE DEF request
      <4> QED BY <3>1 DEF Asked, Answered
    <3>4. \A v \in Spawned : \A m \in Asked(v) \cup Answered(v) : m.id # nextId
      <4>1. \A v \in Spawned : \A m \in Asked(v) \cup Answered(v) : m.id < nextId /\ m.id \in Nat
        BY <1>1, MailFacts DEF PoolShape, Request
      <4> QED BY <4>1, <3>2
    <3>5. \A e \in pending : e.id # nextId
      BY <1>1, <3>2 DEF PoolShape
    <3>6. \A d \in Call : WorkFor(d)' = WorkFor(d) /\ Answers(WorkFor(d))' = Answers(WorkFor(d))
      BY <2>1, <2>2, AnswersStay
    <3>7. ASSUME NEW v \in Spawned', NEW e \in pending'
          PROVE  /\ \A m \in Asked(v)' : m.id = e.id => m.work = WorkFor(e.caller)'
                 /\ \A m \in Answered(v)' :
                      m.id = e.id => m.answer \in Answers(WorkFor(e.caller))'
      <4>1. CASE e \in pending
        <5>1. e.caller \in Call /\ e.id # nextId
          BY <1>1, <3>5, <4>1
        <5>2. /\ WorkFor(e.caller)' = WorkFor(e.caller)
              /\ Answers(WorkFor(e.caller))' = Answers(WorkFor(e.caller))
          BY <2>1, <2>2, <5>1, AnswersStay
        <5>3. /\ v \in Spawned => \A m \in Asked(v) : m.id = e.id => m.work = WorkFor(e.caller)
              /\ v \in Spawned => \A m \in Answered(v) :
                   m.id = e.id => m.answer \in Answers(WorkFor(e.caller))
          BY <4>1 DEF CheckInv, MessagesAreOwn
        <5> HIDE DEF request
        <5> QED BY <3>2, <3>3, <5>1, <5>2, <5>3
      <4>2. CASE e = [id |-> nextId, worker |-> w, caller |-> c]
        <5>1. e.id = nextId /\ e.caller = c /\ WorkFor(c)' = WorkFor(c)
          BY <3>6, <4>2
        <5> HIDE DEF request
        <5>2. WorkFor(e.caller)' = WorkFor(c)
          BY <3>6, <4>2 DEF WorkFor
        <5> QED BY <3>2, <3>3, <3>4, <5>1, <5>2
      <4> QED BY <3>1, <4>1, <4>2
    <3> QED BY <3>7 DEF MessagesAreOwn
  <2>3. CASE SendFails /\ Reject({c})
    <3>1. /\ Spawned' = Spawned /\ pending' = pending
          /\ \A v \in Spawned : Asked(v)' = Asked(v) /\ Answered(v)' = Answered(v)
      BY <2>3 DEF SendFails, Spawned, Asked, Answered
    <3>2. \A d \in Call \ {c} : Kept(d)
      BY <2>1, <2>3, RejectFacts
    <3>3. \A e \in pending' : e.caller \in Call \ {c}
      BY <1>1, <2>1, <3>1
    <3> QED BY <3>1, <3>2, <3>3, MailStays DEF Kept
  <2> QED BY <2>1, <2>2, <2>3
<1>8. ASSUME NEW w \in Spawned, WorkerFails(w), UNCHANGED <<vars, page>>
      PROVE  MessagesAreOwn'
  <2>1. /\ pending' = pending \ OwnedBy(w) /\ Reject(Rejected(w)) /\ page' = page
        /\ \E fate \in Fate : threads' = [threads EXCEPT ![w].fate = fate]
    BY <1>8 DEF WorkerFails, HandleError, HandleExit, Fate
  <2>2. /\ Spawned' = Spawned
        /\ \A v \in Spawned : Asked(v)' = Asked(v) /\ Answered(v)' = Answered(v)
    BY <1>1, <2>1, FateFacts DEF Asked, Answered
  <2>3. Rejected(w) \in SUBSET Call /\ \A c \in Rejected(w) : stage[c] \in Parsing
    BY <1>1 DEF Rejected, OwnedBy
  <2>4. \A d \in Call \ Rejected(w) : Kept(d)
    BY <2>1, <2>3, RejectFacts
  <2>5. \A e \in pending' : e \in pending /\ e.caller \in Call \ Rejected(w)
    BY <1>1, <2>1 DEF CheckInv, PoolInv, RequestsAreDistinct, Rejected, OwnedBy
  <2> QED BY <2>2, <2>4, <2>5, MailStays DEF Kept
<1>9. ASSUME NEW w \in Spawned, WorkerAnswers(w), UNCHANGED <<vars, page>>
      PROVE  MessagesAreOwn'
  <2>1. pending' = pending \ Settled(w) /\ page' = page /\ HandleMessage(w)
    BY <1>9 DEF WorkerAnswers, HandleMessage
  <2>2. /\ Spawned' = Spawned
        /\ AnswerOf(w) \in Answered(w)
        /\ \A v \in Spawned : Asked(v)' \subseteq Asked(v) /\ Answered(v)' \subseteq Answered(v)
    BY <1>1, <2>1, MessageFacts DEF Asked, Answered
  <2>3. ASSUME NEW f \in pending' PROVE stage'[f.caller] = stage[f.caller]
    <3>1. CASE Settled(w) = {}
      BY <1>9, <3>1 DEF WorkerAnswers
    <3>2. ASSUME NEW e \in Settled(w), GoOn(e.caller, AnswerOf(w).answer)
          PROVE  stage'[f.caller] = stage[f.caller]
      <4> DEFINE c == e.caller
      <4>1. e \in pending /\ e.id = AnswerOf(w).id /\ c \in Call /\ stage[c] \in Parsing
        BY <3>2, <1>1 DEF Settled
      <4>2. AnswerOf(w).answer \in Answers(WorkFor(c))
        BY <2>2, <4>1 DEF CheckInv, MessagesAreOwn
      <4>3. f \in pending /\ f.caller \in Call \ {c}
        BY <1>1, <2>1, <3>2, <4>1 DEF CheckInv, PoolInv, RequestsAreDistinct
      <4>4. GoOn(c, AnswerOf(w).answer)
        BY <3>2
      <4> HIDE DEF c
      <4>5. \A d \in Call \ {c} : Kept(d)
        BY <2>1, <4>1, <4>2, <4>4, AnswerFacts
      <4> QED BY <4>3, <4>5 DEF Kept
    <3> QED BY <3>1, <3>2, <1>9 DEF WorkerAnswers
  <2> QED BY <2>1, <2>2, <2>3, MailStays
<1>10. ASSUME NEW w \in Spawned, WorkerStep(w) PROVE MessagesAreOwn'
  BY <1>8, <1>9, <1>10 DEF WorkerStep
<1>11. ASSUME NEW w \in Spawned, ThreadStep(w) PROVE MessagesAreOwn'
  <2>1. /\ UNCHANGED <<stage, page>>
        /\ \/ \E answer \in AnswerText :
                /\ answer \in Answers(Head(threads[w].inbox).work)
                /\ Parse(w, answer)
           \/ \E fate \in Fate : Die(w, fate)
    BY <1>11, ThreadStepFacts DEF CheckInv
  <2>2. ASSUME NEW fate \in Fate, Die(w, fate) PROVE MessagesAreOwn'
    <3>1. /\ Spawned' = Spawned /\ pending' = pending
          /\ \A v \in Spawned : Asked(v)' \subseteq Asked(v) /\ Answered(v)' \subseteq Answered(v)
      BY <1>1, <2>2, DieFacts DEF Die, Asked, Answered
    <3> QED BY <2>1, <3>1, MailStays
  <2>3. ASSUME NEW answer \in AnswerText, answer \in Answers(Head(threads[w].inbox).work),
               Parse(w, answer)
        PROVE  MessagesAreOwn'
    <3>1. PICK request \in Asked(w) :
            /\ request = Head(threads[w].inbox)
            /\ Asked(w) = Content(threads'[w].inbox) \cup {request}
            /\ Content(threads'[w].outbox) =
                 Answered(w) \cup {[id |-> request.id, answer |-> answer]}
      BY <1>1, <2>3, ParseFacts
    <3> DEFINE reply == [id |-> request.id, answer |-> answer]
    <3>2. /\ Spawned' = Spawned /\ pending' = pending
          /\ \A v \in Spawned : v # w => Asked(v)' = Asked(v) /\ Answered(v)' = Answered(v)
      BY <1>1, <2>3, ParseFacts DEF Parse, Asked, Answered
    <3>3. /\ Asked(w)' \subseteq Asked(w) /\ Answered(w)' = Answered(w) \cup {reply}
      BY <3>1 DEF Asked, Answered
    <3>4. reply.id = request.id /\ reply.answer = answer
      OBVIOUS
    <3>5. ASSUME NEW v \in Spawned', NEW e \in pending'
          PROVE  /\ \A m \in Asked(v)' : m.id = e.id => m.work = WorkFor(e.caller)'
                 /\ \A m \in Answered(v)' :
                      m.id = e.id => m.answer \in Answers(WorkFor(e.caller))'
      <4>1. e \in pending /\ e.caller \in Call
        BY <1>1, <3>2
      <4>2. /\ WorkFor(e.caller)' = WorkFor(e.caller)
            /\ Answers(WorkFor(e.caller))' = Answers(WorkFor(e.caller))
        BY <2>1, <4>1, AnswersStay
      <4>3. \A u \in Spawned :
              /\ \A m \in Asked(u) : m.id = e.id => m.work = WorkFor(e.caller)
              /\ \A m \in Answered(u) : m.id = e.id => m.answer \in Answers(WorkFor(e.caller))
        BY <4>1 DEF CheckInv, MessagesAreOwn
      <4>4. request.id = e.id => answer \in Answers(WorkFor(e.caller))
        BY <2>3, <3>1, <4>3
      <4> HIDE DEF reply
      <4> QED BY <3>2, <3>3, <3>4, <4>2, <4>3, <4>4
    <3> QED BY <3>5 DEF MessagesAreOwn
  <2> QED BY <2>1, <2>2, <2>3
<1> QED BY <1>3, <1>4, <1>5, <1>6, <1>7, <1>10, <1>11 DEF CheckNext

\* The invariant holds before the first check.
LEMMA CheckInitHolds == CheckInit => CheckInv
<1> SUFFICES ASSUME CheckInit PROVE CheckInv
  OBVIOUS
<1> USE DEF CheckInit, PoolInit
<1>1. LimiterInv
  BY InitHolds
<1>2. Spawned = {} /\ <<>> \in Seq(Thread)
  BY DEF Spawned
<1>3. PoolInv
  BY <1>2 DEF PoolInv, PoolShape, ReferenceIsRight, RequestsAreDistinct, RequestsAreUnderWay,
              Null
<1>4. CheckShape
  BY DEF CheckShape
<1>5. StagesFit /\ VerdictsAreOwn /\ MessagesAreOwn
  BY <1>2 DEF StagesFit, VerdictsAreOwn, MessagesAreOwn
<1>6. ChecksAreInOnePlace
  BY DEF ChecksAreInOnePlace, Init
<1> QED BY <1>1, <1>3, <1>4, <1>5, <1>6 DEF CheckInv

\* Every step of the checks keeps the invariant.
LEMMA CheckStepKeeps == CheckInv /\ [CheckNext]_checkVars => CheckInv'
<1> SUFFICES ASSUME CheckInv, [CheckNext]_checkVars PROVE CheckInv'
  OBVIOUS
<1>1. LimiterInv'
  BY CheckStepsLimiter, StepKeeps DEF CheckInv
<1>2. PoolInv'
  BY CheckKeepsPool DEF CheckInv
<1>3. CheckShape' /\ StagesFit' /\ ChecksAreInOnePlace' /\ VerdictsAreOwn'
  BY CheckKeepsVerdicts
<1>4. MessagesAreOwn'
  BY CheckKeepsMessages
<1> QED BY <1>1, <1>2, <1>3, <1>4 DEF CheckInv

\* The invariant holds in every behaviour of the checks.
LEMMA ChecksInductive == CheckSpec => []CheckInv
  BY CheckInitHolds, CheckStepKeeps, PTL DEF CheckSpec

\* The pool never forgets a thread that lives: whatever the order of late error
\* and exit events, the one that is alive is the one it gives requests to.
THEOREM NoThreadIsForgotten == CheckSpec => []OnlyCurrentLives
<1>1. CheckInv => OnlyCurrentLives
  BY DEF CheckInv, PoolInv, ReferenceIsRight, OnlyCurrentLives
<1> QED BY <1>1, ChecksInductive, PTL

\* No entry of the pending map is left behind: it is under way in a living thread,
\* or the events of the thread's death are still to come and reject it.
THEOREM NoRequestIsForgotten == CheckSpec => []RequestsAreAnswerable
<1>1. CheckInv => RequestsAreAnswerable
  BY DEF CheckInv, PoolInv, RequestsAreUnderWay, RequestsAreAnswerable, Asked, Answered, Content
<1> QED BY <1>1, ChecksInductive, PTL

\* A check never returns a verdict of another citizen's page, or one its own pages
\* do not bear out.
THEOREM VerdictsStandOnPages == CheckSpec => []VerdictsAreOwn
<1>1. CheckInv => VerdictsAreOwn
  BY DEF CheckInv
<1> QED BY <1>1, ChecksInductive, PTL
=============================================================================
