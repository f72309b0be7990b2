------------------------------ MODULE OrgCheck ------------------------------
(***************************************************************************)
(* The checks of services/nominations/org-check.service.ts, over the rate  *)
(* limiter their requests wait in (RsiRateLimiter) and the worker thread   *)
(* that parses the pages (HtmlParsePool).                                  *)
(*                                                                         *)
(* A call is one check.  checkHasAnyOrgMembership fetches the citizen's    *)
(* page, then the organizations page, then parses one or both;             *)
(* checkCitizenExists fetches and parses the first alone.  Each fetch is a *)
(* loop of attempts.                                                       *)
(***************************************************************************)
EXTENDS RsiRateLimiter, HtmlParsePool

CONSTANTS
  Existence,    \* the calls that are checkCitizenExists
  MaxRetries    \* RSI_HTTP_MAX_RETRIES

ASSUME OrgCheckAssumption ==
  /\ Existence \subseteq Call
  /\ Caller = Call
  /\ MaxRetries \in Nat

VARIABLES
  stage,      \* the await each check is at, "done" after its return
  attempt,    \* attempt of the fetch under way
  asleep,     \* calls in the sleep between two attempts
  page,       \* what the fetched pages say, known to the parser alone
  result      \* what the check returned

checkVars == <<vars, poolVars, stage, attempt, asleep, page, result>>

Fetching == {"citizen", "organizations"}
Parsing == {"parseOrgs", "parseMain", "parseHandle"}
OrgOutcome == {"in_org", "not_in_org", "undetermined"}
\* The status of a membership check: every technical code has status unknown
Membership == {"in_org", "not_in_org", "unknown"}
\* found, with the handle as the page or as the user writes it, and failures
ExistenceResult == {"canonical", "submitted", "not_found", "unavailable"}
Unread == "unread"

CheckTypeOK ==
  /\ TypeOK
  /\ PoolTypeOK
  /\ stage \in [Call -> {"start", "done"} \cup Fetching \cup Parsing]
  /\ attempt \in [Call -> 0..MaxRetries]
  /\ asleep \subseteq Call
  /\ page \in [Call -> [orgs : OrgOutcome \cup {Unread}, main : BOOLEAN]]
  /\ \A c \in Call \ Existence : result[c] \in Membership \cup {"none"}

CheckInit ==
  /\ Init
  /\ PoolInit
  /\ stage = [c \in Call |-> "start"]
  /\ attempt = [c \in Call |-> 0]
  /\ asleep = {}
  /\ page = [c \in Call |-> [orgs |-> Unread, main |-> FALSE]]
  /\ result = [c \in Call |-> "none"]

-----------------------------------------------------------------------------
(* A check whose callback has been served goes on in microtasks: it asks   *)
(* the limiter for a slot or the worker for a parse before any other       *)
(* callback is served.                                                     *)

SlotDue(c) == stage[c] \in Fetching /\ pc[c] = "idle" /\ c \notin asleep
ParseDue(c) == stage[c] \in Parsing /\ \A e \in pending : e.caller # c
NothingDue == \A c \in Call : ~SlotDue(c) /\ ~ParseDue(c)

RequestSlot(c) ==
  /\ SlotDue(c)
  /\ Arrive(c)
  /\ UNCHANGED <<poolVars, stage, attempt, asleep, page, result>>

Return(c, code) ==
  /\ stage' = [stage EXCEPT ![c] = "done"]
  /\ result' = [result EXCEPT ![c] = code]

\* A fetch that failed, after a 404 or otherwise.  checkCitizenExists fails open.
FailedFetch(c, missing) ==
  IF c \notin Existence THEN "unknown"
  ELSE IF missing THEN "not_found" ELSE "unavailable"

\* A check is called.
Begin(c) ==
  /\ NothingDue
  /\ stage[c] = "start"
  /\ stage' = [stage EXCEPT ![c] = "citizen"]
  /\ UNCHANGED <<vars, poolVars, attempt, asleep, page, result>>

\* The request ends with a page.
AfterPage(c) ==
  CASE stage[c] = "organizations" -> "parseOrgs"
    [] c \in Existence -> "parseHandle"
    [] OTHER -> "organizations"

GotPage(c) ==
  /\ Finish(c)
  /\ stage' = [stage EXCEPT ![c] = AfterPage(c)]
  /\ attempt' = [attempt EXCEPT ![c] = 0]
  /\ \/ /\ AfterPage(c) = "organizations"
        /\ \E main \in BOOLEAN : page' = [page EXCEPT ![c].main = main]
     \/ /\ AfterPage(c) = "parseOrgs"
        /\ \E orgs \in OrgOutcome : page' = [page EXCEPT ![c].orgs = orgs]
     \/ /\ AfterPage(c) = "parseHandle"
        /\ UNCHANGED page
  /\ UNCHANGED <<poolVars, asleep, result>>

\* The request ends with a failure that is not retried: 404, or a status that is
\* neither 200, 429 nor a server error.
GotRefusal(c) ==
  /\ Finish(c)
  /\ \E missing \in BOOLEAN : Return(c, FailedFetch(c, missing))
  /\ UNCHANGED <<poolVars, attempt, asleep, page>>

\* A failure that is retried: 429, a server error, a time-out, a network error.
LastAttempt(c) == attempt[c] >= MaxRetries

GotFailure(c) ==
  /\ Finish(c)
  /\ \/ /\ LastAttempt(c)
        /\ Return(c, FailedFetch(c, FALSE))
        /\ UNCHANGED asleep
     \/ /\ ~LastAttempt(c)
        /\ asleep' = asleep \cup {c}
        /\ UNCHANGED <<stage, result>>
  /\ UNCHANGED <<poolVars, attempt, page>>

RequestEnds(c) ==
  /\ NothingDue
  /\ GotPage(c) \/ GotRefusal(c) \/ GotFailure(c)

\* sleep ends.  Its length, retryBaseMs * 2^attempt or the site's Retry-After,
\* is left open.
Wake(c) ==
  /\ NothingDue
  /\ c \in asleep
  /\ asleep' = asleep \ {c}
  /\ attempt' = [attempt EXCEPT ![c] = @ + 1]
  /\ UNCHANGED <<vars, poolVars, stage, page, result>>

LimiterStep ==
  /\ NothingDue
  /\ TimerFires \/ Clock
  /\ UNCHANGED <<poolVars, stage, attempt, asleep, page, result>>

-----------------------------------------------------------------------------
(* Parsing *)

\* The parse of c fails: an organizations page that cannot be parsed is
\* undetermined, a citizen's page that cannot be parsed leaves not_in_org or
\* the submitted handle as it is.
FailedParse(at) ==
  CASE at = "parseOrgs" -> "unknown"
    [] at = "parseMain" -> "not_in_org"
    [] at = "parseHandle" -> "submitted"

Reject(callers) ==
  /\ stage' = [c \in Call |-> IF c \in callers THEN "done" ELSE stage[c]]
  /\ result' = [c \in Call |-> IF c \in callers THEN FailedParse(stage[c]) ELSE result[c]]

AskWorker(c) ==
  /\ ParseDue(c)
  /\ \/ /\ SendToWorker(c, [caller |-> c, type |-> stage[c]])
        /\ UNCHANGED <<stage, result>>
     \/ /\ SendFails
        /\ Reject({c})
  /\ UNCHANGED <<vars, attempt, asleep, page>>

\* What the thread finds in the page it was sent, or that its parser throws.  A
\* page without a handle leaves the submitted one.
Answers(work) ==
  {"threw"} \cup
  CASE work.type = "parseOrgs" -> {page[work.caller].orgs}
    [] work.type = "parseMain" -> {IF page[work.caller].main THEN "visible" ELSE "hidden"}
    [] work.type = "parseHandle" -> {"canonical", "submitted"}

\* assertOrgOutcome and assertMainOrgVisibleValue; any text is a handle.
Expected(at) ==
  CASE at = "parseOrgs" -> OrgOutcome
    [] at = "parseMain" -> {"visible", "hidden"}
    [] at = "parseHandle" -> OrgOutcome \cup {"visible", "hidden", "canonical", "submitted"}

\* How check c goes on with an answer.  A page without organizations is what an
\* undisclosed main organization looks like, so the citizen's page is asked.
Verdict(at, answer) ==
  CASE at = "parseHandle" -> answer
    [] answer = "undetermined" -> "unknown"
    [] answer \in {"in_org", "visible"} -> "in_org"
    [] answer = "hidden" -> "not_in_org"

GoOn(c, answer) ==
  CASE answer \notin Expected(stage[c]) -> Reject({c})
    [] stage[c] = "parseOrgs" /\ answer = "not_in_org" ->
         stage' = [stage EXCEPT ![c] = "parseMain"] /\ UNCHANGED result
    [] OTHER -> Return(c, Verdict(stage[c], answer))

WorkerAnswers(w) ==
  /\ HandleMessage(w)
  /\ IF Settled(w) = {}
     THEN UNCHANGED <<stage, result>>
     ELSE \E e \in Settled(w) : GoOn(e.caller, AnswerOf(w).answer)

WorkerFails(w) ==
  /\ HandleError(w) \/ HandleExit(w)
  /\ Reject(Rejected(w))

WorkerStep(w) ==
  /\ NothingDue
  /\ WorkerAnswers(w) \/ WorkerFails(w)
  /\ UNCHANGED <<vars, attempt, asleep, page>>

\* The other thread runs whenever it likes.
ThreadStep(w) ==
  /\ \/ threads[w].inbox # <<>> /\ \E answer \in Answers(WorkOf(w)) : Parse(w, answer)
     \/ \E fate \in Fate : Die(w, fate)
  /\ UNCHANGED <<vars, stage, attempt, asleep, page, result>>

CheckNext ==
  \/ \E c \in Call : RequestSlot(c) \/ AskWorker(c) \/ Begin(c) \/ RequestEnds(c) \/ Wake(c)
  \/ LimiterStep
  \/ \E w \in Spawned : WorkerStep(w) \/ ThreadStep(w)

CheckSpec == CheckInit /\ [][CheckNext]_checkVars

\* Requests end (they are aborted after RSI_HTTP_TIMEOUT_MS), sleeps and timers
\* elapse, callbacks are served and the thread parses what it is sent or dies.
\* Nobody has to ask for a check.
CheckFairness ==
  /\ \A c \in Call :
       /\ WF_checkVars(RequestSlot(c))
       /\ WF_checkVars(AskWorker(c))
       /\ WF_checkVars(RequestEnds(c))
       /\ WF_checkVars(Wake(c))
  /\ WF_checkVars(LimiterStep)
  /\ \A w \in 1..MaxWorkers :
       /\ WF_checkVars(w \in Spawned /\ WorkerStep(w))
       /\ WF_checkVars(w \in Spawned /\ threads[w].inbox # <<>> /\ ThreadStep(w))

FairCheckSpec == CheckSpec /\ CheckFairness

-----------------------------------------------------------------------------
(* Properties *)

\* A verdict is the verdict of the citizen's own pages, whatever the order of
\* answers, failed threads and late messages: in_org only of a citizen with an
\* organization on one of the two pages, not_in_org only of one with none on
\* the organizations page, a handle only from the page of that citizen.
VerdictsAreOwn ==
  \A c \in Call :
    /\ result[c] = "in_org" =>
         \/ page[c].orgs = "in_org"
         \/ page[c].orgs = "not_in_org" /\ page[c].main
    /\ result[c] = "not_in_org" => page[c].orgs = "not_in_org"
    /\ c \in Existence => result[c] \in ExistenceResult \cup {"none"}

\* Every check returns, however often the site fails and the thread dies.
ChecksEnd == \A c \in Call : stage[c] = "citizen" ~> stage[c] = "done"
=============================================================================
