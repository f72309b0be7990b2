---------------------------- MODULE HtmlParsePool ----------------------------
(***************************************************************************)
(* workers/html-parse.pool.ts and html-parse.worker.ts: one worker thread, *)
(* spawned on demand and again after it is gone, parses the pages the RSI  *)
(* checks have fetched.  The two threads share nothing: requests go one    *)
(* way, answers the other, each in order, and a thread that dies says so   *)
(* by an error event, an exit event or both.                               *)
(***************************************************************************)
EXTENDS Naturals, Sequences

CONSTANTS
  Caller,       \* who asks for a parse, one request each at a time
  MaxWorkers    \* bound: threads spawned in all

VARIABLES
  worker,       \* worker: the thread new requests go to, Null when null
  nextId,       \* nextId
  pending,      \* pending: records [id, worker, caller]
  threads       \* the threads spawned so far

poolVars == <<worker, nextId, pending, threads>>

Null == 0

\* fate: a thread lives; or it is dead with its error event (threw), then its
\* exit event (ending), still to be delivered; or it is gone.
Fate == {"live", "threw", "ending", "gone"}

Spawned == DOMAIN threads

PoolTypeOK ==
  /\ worker \in Nat
  /\ nextId \in Nat
  /\ \A e \in pending : e.id \in Nat /\ e.worker \in Spawned /\ e.caller \in Caller
  /\ \A w \in Spawned : threads[w].fate \in Fate

PoolInit ==
  /\ worker = Null
  /\ nextId = 0
  /\ pending = {}
  /\ threads = <<>>

-----------------------------------------------------------------------------
(* The bot's side *)

NewThread(request) == [fate |-> "live", inbox |-> <<request>>, outbox |-> <<>>]
ReusedId == IF pending = {} THEN 0 ELSE nextId
FreshId == nextId

\* sendToWorker for caller c; work is what the thread will be asked to parse.
\* getWorker spawns a thread when there is none.  A message to a dead thread
\* is dropped in silence.
SendToWorker(c, work) ==
  LET request == [id |-> FreshId, work |-> work] IN
  /\ nextId' = FreshId + 1
  /\ \/ /\ worker = Null
        /\ Len(threads) < MaxWorkers
        /\ threads' = Append(threads, NewThread(request))
        /\ worker' = Len(threads')
     \/ /\ worker # Null
        /\ threads' = IF threads[worker].fate = "live"
                      THEN [threads EXCEPT ![worker].inbox = Append(@, request)]
                      ELSE threads
        /\ UNCHANGED worker
  /\ pending' = pending \cup {[id |-> FreshId, worker |-> worker', caller |-> c]}

\* new Worker(...) throws: the request is rejected, no thread was spawned.
SendFails ==
  /\ worker = Null
  /\ nextId' = nextId + 1
  /\ UNCHANGED <<worker, pending, threads>>

\* rejectByWorker: the entries of thread w
Nobody(w) == {}
OwnedBy(w) == {e \in pending : e.worker = w}

Rejected(w) == {e.caller : e \in OwnedBy(w)}

\* The message handler reads the first answer of thread w: with it the entry of
\* the map that has its id, at most one (Settled), is settled.
AnswerOf(w) == Head(threads[w].outbox)
Settled(w) == {e \in pending : e.id = AnswerOf(w).id}

HandleMessage(w) ==
  /\ threads[w].fate # "gone"
  /\ threads[w].outbox # <<>>
  /\ pending' = pending \ Settled(w)
  /\ threads' = [threads EXCEPT ![w].outbox = Tail(@)]
  /\ UNCHANGED <<worker, nextId>>

\* The error handler clears the reference whatever it refers to.
AfterError(w) == Null

HandleError(w) ==
  /\ threads[w].fate = "threw"
  /\ worker' = AfterError(w)
  /\ pending' = pending \ OwnedBy(w)
  /\ threads' = [threads EXCEPT ![w].fate = "ending"]
  /\ UNCHANGED nextId

\* The exit handler clears it only when it refers to w.  The message port is
\* drained before the event.
ClearsAny(w) == Null
ClearsNothing(w) == worker
AfterExit(w) == IF worker = w THEN Null ELSE worker

HandleExit(w) ==
  /\ threads[w].fate = "ending"
  /\ threads[w].outbox = <<>>
  /\ worker' = AfterExit(w)
  /\ pending' = pending \ OwnedBy(w)
  /\ threads' = [threads EXCEPT ![w].fate = "gone"]
  /\ UNCHANGED nextId

-----------------------------------------------------------------------------
(* The thread's side: onMessage parses one request and posts the answer; an *)
(* exception of the parser is an answer too.                                *)

WorkOf(w) == Head(threads[w].inbox).work

Parse(w, answer) ==
  /\ threads[w].fate = "live"
  /\ threads[w].inbox # <<>>
  /\ threads' = [threads EXCEPT
       ![w].inbox = Tail(@),
       ![w].outbox = Append(@, [id |-> Head(threads[w].inbox).id, answer |-> answer])]
  /\ UNCHANGED <<worker, nextId, pending>>

\* The thread dies, of an uncaught exception (an error and an exit event) or by
\* exiting (an exit event alone), and drops what it had not begun.  The last
\* thread of the bound stays alive.
Die(w, fate) ==
  /\ fate \in {"threw", "ending"}
  /\ w < MaxWorkers
  /\ threads[w].fate = "live"
  /\ threads' = [threads EXCEPT ![w].fate = fate, ![w].inbox = <<>>]
  /\ UNCHANGED <<worker, nextId, pending>>

-----------------------------------------------------------------------------
(* Properties *)

\* The thread new requests go to is the only one alive: an exit or error event
\* that comes late, after its successor was spawned, never makes the pool
\* forget the successor, which would live on unused for ever.
OnlyCurrentLives ==
  \A w \in Spawned : threads[w].fate = "live" => w = worker

\* No request is forgotten: an entry of the map is on its way through its own
\* living thread, or that thread's death is still to be reported and will
\* reject it.
RequestsAreAnswerable ==
  \A e \in pending :
    \/ threads[e.worker].fate \in {"threw", "ending"}
    \/ /\ threads[e.worker].fate = "live"
       /\ \/ \E i \in 1..Len(threads[e.worker].inbox) :
               threads[e.worker].inbox[i].id = e.id
          \/ \E i \in 1..Len(threads[e.worker].outbox) :
               threads[e.worker].outbox[i].id = e.id

=============================================================================
