-------------------------- MODULE OrderSubmission --------------------------
(***************************************************************************)
(* Placing a manufacturing order: /order or the Create Order button, the   *)
(* in-memory session that collects the items, its submission, and the two  *)
(* forum threads of the new order, together with ManufacturingOrders.      *)
(*                                                                         *)
(*   commands/order-submit.command.ts                                      *)
(*   domain/manufacturing/manufacturing.repository.ts   create, the links  *)
(*                                                                         *)
(* The bot is one process: code between two awaits is one step.  A Flow is *)
(* one call of triggerOrderModal, with the session it opens; a Submit is   *)
(* one press of Submit Order.                                              *)
(***************************************************************************)
EXTENDS ManufacturingOrders

CONSTANTS
  Flow,         \* bound: calls of triggerOrderModal in a behaviour
  Submit,       \* presses of Submit Order under way at a time
  RateLimit,    \* orders a member may start within the window
  OrderLimit,   \* manufacturingOrderLimit
  MaxItems,     \* manufacturingMaxItemsPerOrder
  MaxModals     \* bound: item modals of a session under way at a time

ASSUME SubmissionAssumption ==
  /\ IsFiniteSet(Flow) /\ Null \notin Flow
  /\ RateLimit \in Nat \ {0} /\ OrderLimit \in Nat \ {0}
  /\ MaxItems \in Nat \ {0} /\ MaxModals \in Nat

VARIABLES
  flow,      \* the calls and their sessions
  latest,    \* the flow that stored a member's array of orderSubmitTimestamps
  old,       \* flows whose time stamp has left the window
  submit     \* the presses of Submit Order

svars == <<flow, latest, old, submit>>
vars == <<ovars, svars>>

Call ==
  [pc : {"idle", "limits", "count", "modal", "shown", "ended"},
   member : Member \cup {Null},
   entries : SUBSET Flow,    \* submitEntries, the array this call has built
   live : BOOLEAN,           \* is the session in the map and not expired?
   items : Nat, modals : 0..MaxModals]
Submission ==
  [pc : {"idle", "config", "insert", "thread", "link", "staff", "staffLink"},
   session : Flow \cup {Null}, order : 0..MaxOrders]

IdleCall == [pc |-> "idle", member |-> Null, entries |-> {}, live |-> FALSE,
             items |-> 0, modals |-> 0]
IdleSubmit == [pc |-> "idle", session |-> Null, order |-> 0]

TypeOK ==
  /\ OrdersTypeOK
  /\ flow \in [Flow -> Call]
  /\ latest \in [Member -> Flow \cup {Null}]
  /\ old \subseteq Flow
  /\ submit \in [Submit -> Submission]
  /\ \A s \in Submit : submit[s].pc # "idle" => submit[s].session # Null

Init ==
  /\ OrdersInit
  /\ flow = [f \in Flow |-> IdleCall]
  /\ latest = [m \in Member |-> Null]
  /\ old = {}
  /\ submit = [s \in Submit |-> IdleSubmit]

-----------------------------------------------------------------------------
(* triggerOrderModal *)

\* The member's entries within the window, as the map has them
Recorded(m) == IF latest[m] = Null THEN {} ELSE flow[latest[m]].entries \ old

\* The slot is reserved before the first await.
CountsShownOnly(f, m) == {g \in Recorded(m) : flow[g].pc = "shown"} \cup {f}
Reserved(f, m) == Recorded(m) \cup {f}

Trigger(f, m) ==
  /\ flow[f].pc = "idle"
  /\ flow' = [flow EXCEPT ![f] =
        [pc |-> "limits", member |-> m, entries |-> Reserved(f, m), live |-> FALSE,
         items |-> 0, modals |-> 0]]
  /\ latest' = [latest EXCEPT ![m] = f]
  /\ UNCHANGED <<ovars, old, submit>>

\* releaseSlot: the entry is taken out of the array the map has now.
OwnArray(f) == f
CurrentArray(f) == latest[flow[f].member]

Released(f) ==
  LET ended == [flow EXCEPT ![f].pc = "ended"]
  IN  IF CurrentArray(f) = Null THEN ended
      ELSE [ended EXCEPT ![CurrentArray(f)].entries = @ \ {f}]

\* Any check before the modal refuses, or throws, or showModal does: its session
\* is in the map by then, and stays there without a reservation.
Refuse(f) ==
  /\ flow[f].pc \in {"limits", "count", "modal"}
  /\ flow' = Released(f)
  /\ UNCHANGED <<ovars, latest, old, submit>>

WithinLimits(f) ==
  /\ flow[f].pc = "limits"
  /\ Cardinality(flow[f].entries) <= RateLimit
  /\ flow' = [flow EXCEPT ![f].pc = "count"]
  /\ UNCHANGED <<ovars, latest, old, submit>>

\* The role is there and the early count is below the limit: the session is
\* stored and showModal called, ...
OpenSession(f) ==
  /\ flow[f].pc = "count"
  /\ Cardinality(ActiveOf(flow[f].member)) < OrderLimit
  /\ flow' = [flow EXCEPT ![f].pc = "modal", ![f].live = TRUE]
  /\ UNCHANGED <<ovars, latest, old, submit>>

\* ... whose answer commits the slot.
ModalShown(f) ==
  /\ flow[f].pc = "modal"
  /\ flow' = [flow EXCEPT ![f].pc = "shown"]
  /\ UNCHANGED <<ovars, latest, old, submit>>

EntryAges(f) ==
  /\ flow[f].pc = "shown" /\ f \notin old
  /\ old' = old \cup {f}
  /\ UNCHANGED <<ovars, flow, latest, submit>>

-----------------------------------------------------------------------------
(* The session *)

\* handleOrderItemModal finds the session and waits for deferReply ...
ItemModal(f) ==
  /\ flow[f].live
  /\ flow[f].modals < MaxModals
  /\ flow' = [flow EXCEPT ![f].modals = @ + 1]
  /\ UNCHANGED <<ovars, latest, old, submit>>

\* ... and then looks at the limit and pushes, be the session gone by then or not.
HasRoom(f) == flow[f].items < MaxItems

PushItem(f) ==
  /\ flow[f].modals > 0
  /\ \E valid \in BOOLEAN :
       flow' = [flow EXCEPT ![f].modals = @ - 1,
                            ![f].items = IF valid /\ HasRoom(f) THEN @ + 1 ELSE @]
  /\ UNCHANGED <<ovars, latest, old, submit>>

SessionExpires(f) ==
  /\ flow[f].live
  /\ flow' = [flow EXCEPT ![f].live = FALSE]
  /\ UNCHANGED <<ovars, latest, old, submit>>

-----------------------------------------------------------------------------
(* Submit Order *)

At(s, pc) == submit' = [submit EXCEPT ![s].pc = pc]

\* The session is deleted before the first await.
KeepSession(f) == flow
DeleteSession(f) == [flow EXCEPT ![f].live = FALSE]

PressSubmit(s, f) ==
  /\ submit[s].pc = "idle"
  /\ flow[f].live /\ flow[f].items > 0
  /\ flow' = DeleteSession(f)
  /\ submit' = [submit EXCEPT ![s] = [pc |-> "config", session |-> f, order |-> 0]]
  /\ UNCHANGED <<ovars, latest, old>>

\* Configuration or forum channel are not usable, or a statement throws.
SubmitFails(s) ==
  /\ submit[s].pc \in {"config", "insert"}
  /\ submit' = [submit EXCEPT ![s] = IdleSubmit]
  /\ UNCHANGED <<ovars, flow, latest, old>>

\* create: the advisory lock of the member, the count, ...
MemberOf(s) == flow[submit[s].session].member
NoLock(m) == TRUE
LockFree(m) == \A s \in Submit : submit[s].pc = "insert" => MemberOf(s) # m

CountActive(s) ==
  /\ submit[s].pc = "config"
  /\ LockFree(MemberOf(s))
  /\ Cardinality(ActiveOf(MemberOf(s))) < OrderLimit
  /\ At(s, "insert")
  /\ UNCHANGED <<ovars, flow, latest, old>>

\* ... and the rows, with the items the live array has by now.
InsertOrder(s) ==
  /\ submit[s].pc = "insert"
  /\ \E o \in Order :
       /\ order[o].status = "absent"
       /\ \A p \in Order : p < o => order[p].status # "absent"
       /\ order' = [order EXCEPT ![o] =
            [status |-> "new", owner |-> MemberOf(s),
             items |-> flow[submit[s].session].items, linked |-> {}]]
       /\ submit' = [submit EXCEPT ![s].pc = "thread", ![s].order = o]
  /\ UNCHANGED <<posts, mistaken, click, disturbed, flow, latest, old>>

\* The member's thread, or no thread at all: too long a post, or Discord refuses.
CreateThread(s) ==
  /\ submit[s].pc = "thread"
  /\ posts' = [posts EXCEPT ![submit[s].order].member = "new"]
  /\ At(s, "link")
  /\ UNCHANGED <<order, mistaken, click, disturbed, flow, latest, old>>

ThreadFails(s) ==
  /\ submit[s].pc = "thread"
  /\ submit' = [submit EXCEPT ![s] = IdleSubmit]
  /\ UNCHANGED <<ovars, flow, latest, old>>

\* updateForumThreadId; failing is not fatal.
LinkThread(s) ==
  /\ submit[s].pc = "link"
  /\ order' = [order EXCEPT ![submit[s].order].linked = @ \cup {"member"}]
                  \/ UNCHANGED order
  /\ At(s, "staff")
  /\ UNCHANGED <<posts, mistaken, click, disturbed, flow, latest, old>>

\* The staff's thread is made in the background, from the order as it was
\* inserted; there is none without a usable staff channel.
CreateStaffThread(s) ==
  /\ submit[s].pc = "staff"
  /\ posts' = [posts EXCEPT ![submit[s].order].staff = "new"]
  /\ At(s, "staffLink")
  /\ UNCHANGED <<order, mistaken, click, disturbed, flow, latest, old>>

NoStaffThread(s) ==
  /\ submit[s].pc = "staff"
  /\ submit' = [submit EXCEPT ![s] = IdleSubmit]
  /\ UNCHANGED <<ovars, flow, latest, old>>

LinkStaffThread(s) ==
  /\ submit[s].pc = "staffLink"
  /\ order' = [order EXCEPT ![submit[s].order].linked = @ \cup {"staff"}]
                  \/ UNCHANGED order
  /\ submit' = [submit EXCEPT ![s] = IdleSubmit]
  /\ UNCHANGED <<posts, mistaken, click, disturbed, flow, latest, old>>

-----------------------------------------------------------------------------

\* Submissions that may still create a thread of the order
Creating(o) == {s \in Submit : submit[s].order = o}

ApplyClick(c) == Apply(c, Creating(click[c].order) # {}) /\ UNCHANGED svars

\* A restart forgets sessions, reservations and everything under way.
Restart ==
  /\ ClicksLost
  /\ disturbed' = disturbed \cup {o \in Order : Editing(o) # {}}
  /\ flow' = [f \in Flow |-> IF flow[f].pc = "idle" THEN IdleCall
                             ELSE [IdleCall EXCEPT !.pc = "ended",
                                                   !.member = flow[f].member]]
  /\ latest' = [m \in Member |-> Null]
  /\ submit' = [s \in Submit |-> IdleSubmit]
  /\ UNCHANGED old

FlowStep(f) ==
  \/ \E m \in Member : Trigger(f, m)
  \/ Refuse(f)
  \/ WithinLimits(f)
  \/ OpenSession(f)
  \/ ModalShown(f)
  \/ EntryAges(f)
  \/ ItemModal(f)
  \/ PushItem(f)
  \/ SessionExpires(f)

SubmitStep(s) ==
  \/ \E f \in Flow : PressSubmit(s, f)
  \/ SubmitFails(s)
  \/ CountActive(s)
  \/ InsertOrder(s)
  \/ CreateThread(s)
  \/ ThreadFails(s)
  \/ LinkThread(s)
  \/ CreateStaffThread(s)
  \/ NoStaffThread(s)
  \/ LinkStaffThread(s)

Next ==
  \/ \E f \in Flow : FlowStep(f)
  \/ \E s \in Submit : SubmitStep(s)
  \/ \E c \in Click : ClickStep(c) /\ UNCHANGED svars
  \/ \E c \in Click : ApplyClick(c)
  \/ Restart

Spec == Init /\ [][Next]_vars

-----------------------------------------------------------------------------
(* Properties *)

\* manufacturingOrderLimit holds although every check before the submission is
\* made without a lock: submissions of a member meet in create.
ActiveOrdersHold == \A m \in Member : Cardinality(ActiveOf(m)) <= OrderLimit

\* Within a window a member is shown at most RateLimit first modals, however
\* many calls wait between the reservation and the checks, and however their
\* arrays replace each other in the map.  A modal whose showModal throws is not
\* counted: if only the answer was lost, the member has it for nothing.
RateLimitHolds ==
  \A m \in Member :
    Cardinality({f \in Flow \ old : flow[f].member = m
                                     /\ flow[f].pc \in {"modal", "shown"}}) <= RateLimit

\* A call that was refused counts against nobody: its reservation is gone from
\* the array the map holds, which another call may have replaced meanwhile.
ReservationsAreReleased ==
  \A m \in Member :
    latest[m] # Null => \A f \in flow[latest[m]].entries : flow[f].pc # "ended"

\* Repeated presses and late modals: an order has at least one item and no more
\* than the limit.
OrderSizesHold ==
  \A o \in Order : order[o].status # "absent" => order[o].items \in 1..MaxItems

\* Both limits of the configuration hold through any overlap of calls, presses
\* and modals.
OrdersWithinLimits == ActiveOrdersHold /\ OrderSizesHold

\* A session is submitted once: while one press of Submit Order waits for Discord
\* and the database no other is at work on its session, and every order has used
\* up a session, so that a later press finds none.
OneOrderPerSession ==
  /\ \A s, t \in Submit : /\ submit[s].pc # "idle" /\ submit[t].pc # "idle"
                          /\ submit[s].session = submit[t].session
                          => s = t
  /\ \A m \in Member :
       Cardinality({o \in Order : order[o].owner = m})
         <= Cardinality({f \in Flow : /\ flow[f].member = m /\ ~flow[f].live
                                      /\ flow[f].pc \in {"modal", "shown", "ended"}})

\* As long as the changes of an order overlap neither each other nor the making
\* of its threads, and no edit fails, both posts show its status when they are
\* done: the row an UPDATE returns names every post there is.  The member's post
\* then offers the member's button.
QuietPostsAreTrue ==
  \A o \in Order \ disturbed :
    Editing(o) = {} =>
      /\ o \notin mistaken
      /\ \A thread \in Thread : posts[o][thread] \in {"none", order[o].status}
=============================================================================
