--------------------------- MODULE RsiRateLimiter ---------------------------
(***************************************************************************)
(* withRateLimit of services/nominations/org-check.service.ts: every HTTP  *)
(* request to the RSI site waits in one FIFO queue, at most MaxConcurrency *)
(* run at a time, and two starts are at least MinInterval apart.           *)
(*                                                                         *)
(* All of it runs on the event loop: a push, the end of a task and the     *)
(* drain timer are three callbacks, and each ends with drainQueue.         *)
(***************************************************************************)
EXTENDS Naturals, Sequences, FiniteSets

CONSTANTS
  Call,             \* requests (each attempt of a fetch is one)
  MaxConcurrency,   \* RSI_HTTP_MAX_CONCURRENCY
  MinInterval       \* RSI_HTTP_MIN_INTERVAL_MS, in clock ticks

ASSUME LimiterAssumption ==
  /\ IsFiniteSet(Call)
  /\ MaxConcurrency \in Nat \ {0}
  /\ MinInterval \in Nat

VARIABLES
  pc,       \* where each call is
  queue,    \* waitQueue
  active,   \* activeRequests
  since,    \* Date.now() - lastStartedAt, counted no further than MinInterval
  timer     \* drainTimer: ticks left, Off when null

vars == <<pc, queue, active, since, timer>>

Off == MinInterval + 1

TypeOK ==
  /\ pc \in [Call -> {"idle", "waiting", "running"}]
  /\ queue \in Seq(Call)
  /\ active \in Nat
  /\ since \in 0..MinInterval
  /\ timer \in 0..Off

Init ==
  /\ pc = [c \in Call |-> "idle"]
  /\ queue = <<>>
  /\ active = 0
  /\ since = MinInterval
  /\ timer = Off

-----------------------------------------------------------------------------
(* drainQueue, as the last part of a callback that leaves the queue at q,  *)
(* the counter at n, the timer at t and the calls at at.                   *)

NoRoom(n) == n > MaxConcurrency
Full(n) == n >= MaxConcurrency

\* scheduleDrain keeps a timer that is already set.
Scheduled(t) == IF t # Off THEN t ELSE MinInterval - since

WaitsNot == FALSE
TooEarly == since < MinInterval

Shifted(q) == Tail(q)

Drain(q, n, t, at) ==
  \/ /\ Full(n) \/ q = <<>>
     /\ queue' = q /\ active' = n /\ timer' = t /\ pc' = at
     /\ UNCHANGED since
  \/ /\ ~Full(n) /\ q # <<>>
     /\ TooEarly
     /\ queue' = q /\ active' = n /\ timer' = Scheduled(t) /\ pc' = at
     /\ UNCHANGED since
  \/ /\ ~Full(n) /\ q # <<>>
     /\ ~TooEarly
     /\ queue' = Shifted(q) /\ active' = n + 1 /\ timer' = t
     /\ pc' = [at EXCEPT ![Head(q)] = "running"]
     /\ since' = 0

-----------------------------------------------------------------------------

\* withRateLimit is called: push and drain.
Arrive(c) ==
  /\ pc[c] = "idle"
  /\ Drain(Append(queue, c), active, timer, [pc EXCEPT ![c] = "waiting"])

\* The task returns or throws: the finally block.
Finish(c) ==
  /\ pc[c] = "running"
  /\ Drain(queue, active - 1, timer, [pc EXCEPT ![c] = "idle"])

\* The drain timer's callback
TimerFires ==
  /\ timer = 0
  /\ Drain(queue, active, Off, pc)

\* One tick of the clock.  A timer whose time has come may still be waiting
\* for the event loop.
Less(t) == IF t \in {0, Off} THEN t ELSE t - 1

Clock ==
  /\ since < MinInterval \/ timer \in 1..MinInterval
  /\ since' = IF since < MinInterval THEN since + 1 ELSE since
  /\ timer' = Less(timer)
  /\ UNCHANGED <<pc, queue, active>>

Next ==
  \/ \E c \in Call : Arrive(c)
  \/ \E c \in Call : Finish(c)
  \/ TimerFires
  \/ Clock

Spec == Init /\ [][Next]_vars

-----------------------------------------------------------------------------
(* Properties *)

Running == {c \in Call : pc[c] = "running"}
Waiting == {c \in Call : pc[c] = "waiting"}

\* The counter is the truth, and the site never sees more than MaxConcurrency
\* requests at once, through any mix of arrivals, ends and late timers.
ConcurrencyHolds ==
  /\ active = Cardinality(Running)
  /\ active <= MaxConcurrency

\* The queue holds exactly the waiting calls, each once: none is lost, none is
\* started twice.
QueueHoldsWaiting ==
  /\ {queue[i] : i \in 1..Len(queue)} = Waiting
  /\ \A i, j \in 1..Len(queue) : queue[i] = queue[j] => i = j

\* While somebody waits, some callback that drains the queue is still to come:
\* a request under way or the timer.  drainQueue starts one call at a time and
\* re-arms the timer only when it is too early, so nothing else would.
NeverStalled == queue # <<>> => active > 0 \/ timer # Off

\* Two starts are MinInterval apart.
StartsAreSpaced ==
  [][Running' \ Running # {} =>
       since = MinInterval /\ Cardinality(Running' \ Running) = 1]_vars
=============================================================================
