------------------------ MODULE ManufacturingOrders ------------------------
(***************************************************************************)
(* Manufacturing orders once they exist: their status in the database, the *)
(* post that shows it in the member's and in the staff's forum, and the    *)
(* buttons on those posts.                                                 *)
(*                                                                         *)
(*   domain/manufacturing/manufacturing.repository.ts   statements         *)
(*   domain/manufacturing/types.ts                      the lifecycle      *)
(*   domain/manufacturing/manufacturing.forum.ts        the posts          *)
(*   commands/order-actions.command.ts                  the buttons        *)
(*                                                                         *)
(* A button's handler reads the order, changes its status with one guarded *)
(* UPDATE, and then edits the post it was pressed on and the other one     *)
(* with the row that UPDATE returned.  Any number of handlers interleave.  *)
(***************************************************************************)
EXTENDS Naturals, FiniteSets

CONSTANTS
  MaxOrders,   \* bound: orders created in a behaviour
  Member,      \* members who place orders
  Null,        \* no member
  Click        \* button interactions under way at a time

ASSUME OrdersAssumption == MaxOrders \in Nat \ {0} /\ Null \notin Member

Order == 1..MaxOrders

VARIABLES
  order,      \* manufacturing_orders
  posts,      \* the status each thread's starter message shows
  mistaken,   \* orders whose member's post has got the staff's buttons
  click,      \* the button interactions
  disturbed   \* orders whose posts were edited out of turn, or not edited

ovars == <<order, posts, mistaken, click, disturbed>>

Status ==
  {"new", "accepted", "processing", "ready_for_pickup", "complete", "cancelled"}
Terminal == {"complete", "cancelled"}
Live == Status \ Terminal

\* The one button a staff post offers besides Cancel
Advance == [new |-> "accepted", accepted |-> "processing",
            processing |-> "ready_for_pickup", ready_for_pickup |-> "complete"]

ValidTransition(from, to) == from \in Live /\ to \in {Advance[from], "cancelled"}

Thread == {"member", "staff"}
Other(thread) == IF thread = "member" THEN "staff" ELSE "member"

Row == [status : {"absent"} \cup Status, owner : Member \cup {Null},
        items : Nat, linked : SUBSET Thread]   \* thread ids that were stored
Interaction ==
  [pc : {"idle", "read", "apply", "own", "counterpart"},
   order : Order, thread : Thread, to : Status,
   staff : BOOLEAN,            \* does the member who clicked have the staff role?
   from : SUBSET Status,       \* the statuses the UPDATE accepts
   linked : SUBSET Thread]     \* thread ids in the row the UPDATE returned

AbsentOrder == [status |-> "absent", owner |-> Null, items |-> 0, linked |-> {}]
IdleClick == [pc |-> "idle", order |-> 1, thread |-> "member", to |-> "new",
              staff |-> FALSE, from |-> {}, linked |-> {}]

OrdersTypeOK ==
  /\ order \in [Order -> Row]
  /\ posts \in [Order -> [Thread -> {"none"} \cup Status]]
  /\ mistaken \subseteq Order
  /\ click \in [Click -> Interaction]
  /\ disturbed \subseteq Order

OrdersInit ==
  /\ order = [o \in Order |-> AbsentOrder]
  /\ posts = [o \in Order |-> [thread \in Thread |-> "none"]]
  /\ mistaken = {}
  /\ click = [c \in Click |-> IdleClick]
  /\ disturbed = {}

ActiveOf(m) == {o \in Order : order[o].owner = m /\ order[o].status \in Live}

\* Handlers that have changed the order and not yet edited both posts
Editing(o) == {c \in Click : click[c].order = o /\ click[c].pc \in {"own", "counterpart"}}

-----------------------------------------------------------------------------
(* Pressing a button.  A post that has fallen behind still has its old     *)
(* buttons.                                                                *)

Press(c, o, thread, to, staff) ==
  /\ click[c].pc = "idle"
  /\ posts[o][thread] \in Live
  /\ click' = [click EXCEPT ![c] = [pc |-> "read", order |-> o, thread |-> thread,
        to |-> to, staff |-> staff, from |-> {}, linked |-> {}]]
  /\ UNCHANGED <<order, posts, mistaken, disturbed>>

StaffButtons(o, thread) == thread = "staff" \/ o \in mistaken

PressAdvance(c, o, thread) ==
  /\ StaffButtons(o, thread) /\ posts[o][thread] \in Live
  /\ Press(c, o, thread, Advance[posts[o][thread]], TRUE)

PressStaffCancel(c, o, thread) ==
  /\ StaffButtons(o, thread)
  /\ Press(c, o, thread, "cancelled", TRUE)

\* The order's owner, who may be staff, or any staff member
PressCancel(c, o, staff) ==
  /\ ~StaffButtons(o, "member")
  /\ Press(c, o, "member", "cancelled", staff)

-----------------------------------------------------------------------------
(* The handlers *)

\* What a cancellation may start from
CancellableByAll(staff) == Live
Cancellable(staff) == IF staff THEN Live ELSE {"new", "accepted"}

\* findById and the checks on what it returns; refusals are replies.
ReadOrder(c) ==
  LET k == click[c]
      seen == order[k.order].status
  IN  /\ k.pc = "read"
      /\ click' = [click EXCEPT ![c] =
            IF k.to = "cancelled" /\ seen \in Cancellable(k.staff)
              THEN [k EXCEPT !.pc = "apply", !.from = Cancellable(k.staff)]
            ELSE IF k.to # "cancelled" /\ ValidTransition(seen, k.to)
              THEN [k EXCEPT !.pc = "apply", !.from = {seen}]
            ELSE IdleClick]
      /\ UNCHANGED <<order, posts, mistaken, disturbed>>

\* transitionStatus and cancelOrder: UPDATE .. WHERE status = ANY (from)
AnyStatus(k) == TRUE
StillAllowed(k) == order[k.order].status \in k.from

\* The thread ids of the row say which posts the handler will edit: it misses
\* one that exists and is not linked yet, and one still being created.
MissesPost(o) == \E thread \in Thread :
                    posts[o][thread] # "none" /\ thread \notin order[o].linked

Apply(c, busy) ==
  LET k == click[c]
      o == k.order
  IN  /\ k.pc = "apply"
      /\ IF StillAllowed(k)
           THEN /\ order' = [order EXCEPT ![o].status = k.to]
                /\ click' = [click EXCEPT ![c] =
                     [k EXCEPT !.pc = "own", !.linked = order[o].linked]]
                /\ disturbed' = IF busy \/ Editing(o) # {} \/ MissesPost(o)
                                  THEN disturbed \cup {o} ELSE disturbed
           ELSE /\ click' = [click EXCEPT ![c] = IdleClick]
                /\ UNCHANGED <<order, disturbed>>
      /\ UNCHANGED <<posts, mistaken>>

\* The UPDATE throws, or it commits and the SELECT of the items after it throws.
ApplyThrows(c) ==
  LET k == click[c]
  IN  /\ k.pc = "apply"
      /\ click' = [click EXCEPT ![c] = IdleClick]
      /\ \/ UNCHANGED <<order, disturbed>>
         \/ /\ StillAllowed(k)
            /\ order' = [order EXCEPT ![k.order].status = k.to]
            /\ disturbed' = disturbed \cup {k.order}
      /\ UNCHANGED <<posts, mistaken>>

\* applyPostTransition: the post that was clicked, then the other one.  A post
\* is taken for the staff's unless the row says that it is the member's.  A
\* failed edit is logged, and the handler goes on.
TakenFor(k) == IF k.thread = "member" /\ "member" \in k.linked THEN "member" ELSE "staff"

Edited(o, thread, as, status) ==
  \/ /\ posts' = [posts EXCEPT ![o][thread] = status]
     /\ mistaken' = IF thread # as THEN mistaken \cup {o}
                    ELSE IF thread = "member" THEN mistaken \ {o} ELSE mistaken
     /\ UNCHANGED disturbed
  \/ /\ disturbed' = disturbed \cup {o}
     /\ UNCHANGED <<posts, mistaken>>

EditOwn(c) ==
  LET k == click[c]
  IN  /\ k.pc = "own"
      /\ Edited(k.order, k.thread, TakenFor(k), k.to)
      /\ click' = [click EXCEPT ![c].pc = "counterpart"]
      /\ UNCHANGED order

OwnPostOnly(k) == {}
Counterparts(k) == k.linked \ {TakenFor(k)}

EditCounterpart(c) ==
  LET k == click[c]
      other == Other(TakenFor(k))
  IN  /\ k.pc = "counterpart"
      /\ IF Counterparts(k) # {}
           THEN Edited(k.order, other, other, k.to)
           ELSE UNCHANGED <<posts, mistaken, disturbed>>
      /\ click' = [click EXCEPT ![c] = IdleClick]
      /\ UNCHANGED order

\* The bot restarts in the middle of handlers.
ClicksLost ==
  /\ click' = [c \in Click |-> IdleClick]
  /\ UNCHANGED <<order, posts, mistaken>>

ClickStep(c) ==
  \/ \E o \in Order, thread \in Thread : PressAdvance(c, o, thread)
  \/ \E o \in Order, thread \in Thread : PressStaffCancel(c, o, thread)
  \/ \E o \in Order, staff \in BOOLEAN : PressCancel(c, o, staff)
  \/ ReadOrder(c)
  \/ ApplyThrows(c)
  \/ EditOwn(c)
  \/ EditCounterpart(c)

-----------------------------------------------------------------------------
(* Properties *)

\* An order moves only along VALID_TRANSITIONS, and is cancelled without the
\* staff role only before production: whatever handlers read before it moved,
\* and whatever outdated buttons they came from.
OrdersFollowLifecycle ==
  [][\A o \in Order :
       order'[o].status # order[o].status /\ order[o].status # "absent" =>
         /\ ValidTransition(order[o].status, order'[o].status)
         /\ \E c \in Click :
              /\ click[c].pc = "apply" /\ click[c].order = o
              /\ click[c].to = order'[o].status
              /\ click[c].staff \/ order[o].status \in {"new", "accepted"}]_ovars
=============================================================================
