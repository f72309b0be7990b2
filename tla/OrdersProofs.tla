---------------------------- MODULE OrdersProofs ----------------------------
(***************************************************************************)
(* For any numbers of members, orders, buttons, sessions and submissions:  *)
(*                                                                         *)
(*   orders move along their lifecycle only (ClicksAreSound: the statuses  *)
(*   a handler lets its UPDATE start from all lead to the new one);        *)
(*   the rate limit of first modals (SlotsInv: how the arrays of time      *)
(*   stamps that overlapping calls build relate to each other);            *)
(*   the limits on orders and items, and one order per session             *)
(*   (SessionsInv: whose a session is, and what the lock protects);        *)
(*   the posts of orders whose changes do not overlap (PostsInv).          *)
(***************************************************************************)
EXTENDS OrderSubmission, FiniteSetTheorems, TLAPS

EarlyOrStaff(k, from) == k.staff = TRUE \/ from \in {"new", "accepted"}

SoundClick(k) ==
  /\ k.pc \in {"read", "apply"} /\ k.to # "cancelled" => k.staff = TRUE
  /\ k.pc = "apply" =>
       \A from \in k.from : ValidTransition(from, k.to) /\ EarlyOrStaff(k, from)

ClicksAreSound == \A c \in Click : SoundClick(click[c])

IInv == TypeOK /\ ClicksAreSound

-----------------------------------------------------------------------------
(* The buttons *)

\* A button that is not pressed is an interaction.
LEMMA IdleClickIsSound == IdleClick \in Interaction /\ SoundClick(IdleClick)
BY OrdersAssumption DEF IdleClick, Interaction, SoundClick, Order, Thread, Status

\* The button of a live order leads to a status, never to cancelled.
LEMMA AdvanceType == \A s \in Live : Advance[s] \in Status /\ Advance[s] # "cancelled"
BY DEF Advance, Live, Status, Terminal

\* What is to be shown of a step that changes one interaction
LEMMA ClickMoves ==
  ASSUME OrdersTypeOK, ClicksAreSound, NEW c \in Click, NEW k \in Interaction,
         SoundClick(k), click' = [click EXCEPT ![c] = k]
  PROVE  click' \in [Click -> Interaction] /\ ClicksAreSound'
BY DEF OrdersTypeOK, ClicksAreSound

\* Pressing a button, of whatever post, keeps the invariant.
LEMMA PressHolds ==
  ASSUME OrdersTypeOK, ClicksAreSound, NEW c \in Click, NEW o \in Order,
         NEW thread \in Thread, NEW to \in Status, NEW staff \in BOOLEAN,
         to # "cancelled" => staff = TRUE, Press(c, o, thread, to, staff)
  PROVE  OrdersTypeOK' /\ ClicksAreSound'
<1> DEFINE k == [pc |-> "read", order |-> o, thread |-> thread, to |-> to,
                 staff |-> staff, from |-> {}, linked |-> {}]
<1>1. k \in Interaction /\ SoundClick(k)
  BY DEF Interaction, SoundClick
<1>2. click' = [click EXCEPT ![c] = k]
  BY DEF Press
<1> HIDE DEF k
<1>3. click' \in [Click -> Interaction] /\ ClicksAreSound'
  BY <1>1, <1>2, ClickMoves
<1> QED BY <1>3 DEF Press, OrdersTypeOK

\* The handler's read of the order decides from where its UPDATE may start.
LEMMA ReadHolds ==
  ASSUME OrdersTypeOK, ClicksAreSound, NEW c \in Click, ReadOrder(c)
  PROVE  OrdersTypeOK' /\ ClicksAreSound'
<1> DEFINE k == click[c]
           seen == order[k.order].status
<1>1. k \in Interaction /\ SoundClick(k) /\ k.pc = "read"
  BY DEF OrdersTypeOK, ClicksAreSound, ReadOrder
<1>2. PICK j : /\ click' = [click EXCEPT ![c] = j]
               /\ \/ /\ k.to = "cancelled" /\ seen \in Cancellable(k.staff)
                     /\ j = [k EXCEPT !.pc = "apply", !.from = Cancellable(k.staff)]
                  \/ /\ k.to # "cancelled" /\ ValidTransition(seen, k.to)
                     /\ j = [k EXCEPT !.pc = "apply", !.from = {seen}]
                  \/ j = IdleClick
  BY DEF ReadOrder
<1> HIDE DEF k
<1>3. j \in Interaction /\ SoundClick(j)
  <2>1. CASE /\ k.to = "cancelled" /\ seen \in Cancellable(k.staff)
             /\ j = [k EXCEPT !.pc = "apply", !.from = Cancellable(k.staff)]
    <3>1. Cancellable(k.staff) \subseteq Live
      BY DEF Cancellable, Live, Status, Terminal
    <3>2. \A from \in Cancellable(k.staff) : EarlyOrStaff(k, from)
      BY <1>1 DEF Cancellable, EarlyOrStaff, Interaction
    <3>3. j \in Interaction
      BY <1>1, <2>1, <3>1 DEF Interaction, Live
    <3>4. j.pc = "apply" /\ j.to = "cancelled" /\ j.staff = k.staff /\ j.from = Cancellable(k.staff)
      BY <1>1, <2>1 DEF Interaction
    <3> QED BY <3>1, <3>2, <3>3, <3>4 DEF SoundClick, ValidTransition, EarlyOrStaff
  <2>2. CASE /\ k.to # "cancelled" /\ ValidTransition(seen, k.to)
             /\ j = [k EXCEPT !.pc = "apply", !.from = {seen}]
    <3>1. k.staff = TRUE /\ seen \in Live
      BY <1>1, <2>2 DEF SoundClick, ValidTransition
    <3>2. j \in Interaction
      BY <1>1, <2>2, <3>1 DEF Interaction, Live
    <3>3. j.pc = "apply" /\ j.to = k.to /\ j.staff = k.staff /\ j.from = {seen}
      BY <1>1, <2>2 DEF Interaction
    <3> QED BY <2>2, <3>1, <3>2, <3>3 DEF SoundClick, EarlyOrStaff
  <2>3. CASE j = IdleClick
    BY <2>3, IdleClickIsSound
  <2> QED BY <1>2, <2>1, <2>2, <2>3
<1>4. click' \in [Click -> Interaction] /\ ClicksAreSound'
  BY <1>2, <1>3, ClickMoves
<1> QED BY <1>4 DEF ReadOrder, OrdersTypeOK

\* The interaction is over, or only its pc and the row's threads change.
LEMMA ClickEnds ==
  ASSUME OrdersTypeOK, ClicksAreSound, NEW c \in Click,
         click' = [click EXCEPT ![c] = IdleClick]
  PROVE  click' \in [Click -> Interaction] /\ ClicksAreSound'
BY IdleClickIsSound, ClickMoves

\* The guarded UPDATE and what the handler makes of its outcome.
LEMMA ApplyHolds ==
  ASSUME OrdersTypeOK, ClicksAreSound, NEW c \in Click, NEW busy \in BOOLEAN,
         Apply(c, busy)
  PROVE  OrdersTypeOK' /\ ClicksAreSound'
<1> DEFINE k == click[c]
           o == k.order
           j == [k EXCEPT !.pc = "own", !.linked = order[o].linked]
<1>1. k \in Interaction /\ SoundClick(k) /\ k.pc = "apply" /\ o \in Order
  BY DEF OrdersTypeOK, ClicksAreSound, Apply, Interaction
<1>2. order[o] \in Row
  BY <1>1 DEF OrdersTypeOK
<1>3. UNCHANGED <<posts, mistaken>>
  BY DEF Apply
<1>4. CASE StillAllowed(k)
  <2>1. j \in Interaction /\ SoundClick(j)
    BY <1>1, <1>2 DEF Interaction, Row, SoundClick
  <2>2. /\ order' = [order EXCEPT ![o].status = k.to]
        /\ click' = [click EXCEPT ![c] = j]
        /\ disturbed' \in {disturbed, disturbed \cup {o}}
    BY <1>4 DEF Apply
  <2>3. order' \in [Order -> Row]
    BY <1>1, <1>2, <2>2 DEF OrdersTypeOK, Row, Interaction
  <2>4. disturbed' \subseteq Order
    BY <1>1, <2>2 DEF OrdersTypeOK
  <2> HIDE DEF j
  <2>5. click' \in [Click -> Interaction] /\ ClicksAreSound'
    BY <2>1, <2>2, ClickMoves
  <2> QED BY <1>3, <2>3, <2>4, <2>5 DEF OrdersTypeOK
<1>5. CASE ~StillAllowed(k)
  <2>1. click' = [click EXCEPT ![c] = IdleClick] /\ UNCHANGED <<order, disturbed>>
    BY <1>5 DEF Apply
  <2> QED BY <1>3, <2>1, ClickEnds DEF OrdersTypeOK
<1> QED BY <1>4, <1>5

\* An UPDATE that throws ends the handler.
LEMMA ApplyThrowsHolds ==
  ASSUME OrdersTypeOK, ClicksAreSound, NEW c \in Click, ApplyThrows(c)
  PROVE  OrdersTypeOK' /\ ClicksAreSound'
<1> DEFINE k == click[c]
<1>1. k \in Interaction /\ k.order \in Order /\ order[k.order] \in Row
  BY DEF OrdersTypeOK, Interaction
<1>2. click' \in [Click -> Interaction] /\ ClicksAreSound'
  BY ClickEnds DEF ApplyThrows
<1>3. \/ UNCHANGED <<order, disturbed>>
      \/ /\ order' = [order EXCEPT ![k.order].status = k.to]
         /\ disturbed' = disturbed \cup {k.order}
  BY DEF ApplyThrows
<1>4. order' \in [Order -> Row]
  <2>1. [order EXCEPT ![k.order].status = k.to] \in [Order -> Row]
    BY <1>1 DEF OrdersTypeOK, Interaction, Row
  <2> QED BY <1>3, <2>1 DEF OrdersTypeOK
<1>5. disturbed' \subseteq Order
  BY <1>1, <1>3 DEF OrdersTypeOK
<1> QED BY <1>2, <1>4, <1>5 DEF ApplyThrows, OrdersTypeOK

\* An edit of one post leaves orders and handlers sound.
LEMMA EditedHolds ==
  ASSUME OrdersTypeOK, NEW o \in Order, NEW thread \in Thread, NEW as \in Thread,
         NEW status \in Status, Edited(o, thread, as, status)
  PROVE  /\ posts' \in [Order -> [Thread -> {"none"} \cup Status]]
         /\ mistaken' \subseteq Order /\ disturbed' \subseteq Order
<1>1. \/ /\ posts' = [posts EXCEPT ![o][thread] = status]
         /\ mistaken' \in {mistaken \cup {o}, mistaken \ {o}, mistaken}
         /\ UNCHANGED disturbed
      \/ disturbed' = disturbed \cup {o} /\ UNCHANGED <<posts, mistaken>>
  BY DEF Edited
<1>2. [posts EXCEPT ![o][thread] = status] \in [Order -> [Thread -> {"none"} \cup Status]]
  BY DEF OrdersTypeOK
<1>3. posts' \in [Order -> [Thread -> {"none"} \cup Status]]
  BY <1>1, <1>2 DEF OrdersTypeOK
<1>4. mistaken' \subseteq Order /\ disturbed' \subseteq Order
  BY <1>1 DEF OrdersTypeOK
<1> QED BY <1>3, <1>4

\* Each edit of the two posts, successful or not.
LEMMA EditHolds ==
  ASSUME OrdersTypeOK, ClicksAreSound, NEW c \in Click,
         EditOwn(c) \/ EditCounterpart(c)
  PROVE  OrdersTypeOK' /\ ClicksAreSound'
<1> DEFINE k == click[c]
           j == [k EXCEPT !.pc = "counterpart"]
<1>1. k \in Interaction /\ SoundClick(k)
  BY DEF OrdersTypeOK, ClicksAreSound
<1>2. k.order \in Order /\ k.thread \in Thread /\ k.to \in Status
  BY <1>1 DEF Interaction
<1>3. TakenFor(k) \in Thread /\ Other(TakenFor(k)) \in Thread
  BY DEF TakenFor, Other, Thread
<1>4. j \in Interaction /\ SoundClick(j)
  BY <1>1 DEF Interaction, SoundClick
<1>5. click' \in {[click EXCEPT ![c] = j], [click EXCEPT ![c] = IdleClick]}
  BY DEF EditOwn, EditCounterpart
<1> HIDE DEF j
<1>6. click' \in [Click -> Interaction] /\ ClicksAreSound'
  BY <1>4, <1>5, ClickMoves, ClickEnds
<1>7. /\ posts' \in [Order -> [Thread -> {"none"} \cup Status]]
      /\ mistaken' \subseteq Order /\ disturbed' \subseteq Order
  <2>1. CASE EditOwn(c)
    BY <1>2, <1>3, <2>1, EditedHolds DEF EditOwn
  <2>2. CASE EditCounterpart(c)
    <3>1. CASE Counterparts(k) # {}
      BY <1>2, <1>3, <2>2, <3>1, EditedHolds DEF EditCounterpart
    <3>2. CASE Counterparts(k) = {}
      BY <2>2, <3>2 DEF EditCounterpart, OrdersTypeOK
    <3> QED BY <3>1, <3>2
  <2> QED BY <2>1, <2>2
<1>8. order' = order
  BY DEF EditOwn, EditCounterpart
<1> QED BY <1>6, <1>7, <1>8 DEF OrdersTypeOK

\* Every step of a handler keeps the invariant.
LEMMA ClickStepHolds ==
  ASSUME OrdersTypeOK, ClicksAreSound, NEW c \in Click, ClickStep(c)
  PROVE  OrdersTypeOK' /\ ClicksAreSound'
<1>1. ASSUME NEW o \in Order, NEW thread \in Thread, PressAdvance(c, o, thread)
      PROVE  OrdersTypeOK' /\ ClicksAreSound'
  <2>1. Advance[posts[o][thread]] \in Status /\ Advance[posts[o][thread]] # "cancelled"
    BY <1>1, AdvanceType DEF PressAdvance
  <2> QED BY <1>1, <2>1, PressHolds DEF PressAdvance
<1>2. ASSUME NEW o \in Order, NEW thread \in Thread, PressStaffCancel(c, o, thread)
      PROVE  OrdersTypeOK' /\ ClicksAreSound'
  <2>1. "cancelled" \in Status
    BY DEF Status
  <2> QED BY <1>2, <2>1, PressHolds DEF PressStaffCancel
<1>3. ASSUME NEW o \in Order, NEW staff \in BOOLEAN, PressCancel(c, o, staff)
      PROVE  OrdersTypeOK' /\ ClicksAreSound'
  <2>1. "cancelled" \in Status /\ "member" \in Thread
    BY DEF Status, Thread
  <2> QED BY <1>3, <2>1, PressHolds DEF PressCancel
<1> QED BY <1>1, <1>2, <1>3, ReadHolds, ApplyThrowsHolds, EditHolds DEF ClickStep

-----------------------------------------------------------------------------
(* Sessions and submissions *)

\* The invariant holds of the empty tables and the empty memory.
LEMMA InitHolds == Init => IInv
<1> SUFFICES ASSUME Init PROVE IInv
  OBVIOUS
<1> USE OrdersAssumption, SubmissionAssumption DEF Init, OrdersInit
<1>1. AbsentOrder \in Row
  BY DEF AbsentOrder, Row, Thread
<1>2. OrdersTypeOK
  BY <1>1, IdleClickIsSound DEF OrdersTypeOK
<1>3. IdleCall \in Call /\ IdleSubmit \in Submission /\ IdleSubmit.pc = "idle"
  BY DEF IdleCall, Call, IdleSubmit, Submission
<1>4. TypeOK
  BY <1>2, <1>3 DEF TypeOK
<1>5. ClicksAreSound
  BY IdleClickIsSound DEF ClicksAreSound
<1> QED BY <1>4, <1>5 DEF IInv

\* Opening a session, filling it and losing it keep the invariant.
LEMMA FlowStepHolds ==
  ASSUME IInv, NEW f \in Flow, FlowStep(f)
  PROVE  IInv'
<1> USE SubmissionAssumption
<1>1. flow[f] \in Call /\ flow \in [Flow -> Call]
  BY DEF IInv, TypeOK
<1>2. UNCHANGED <<ovars, submit>>
  BY DEF FlowStep, Trigger, Refuse, WithinLimits, OpenSession, ModalShown, EntryAges, ItemModal,
     PushItem, SessionExpires
<1>3. latest' \in [Member -> Flow \cup {Null}] /\ old' \subseteq Flow
  BY DEF IInv, TypeOK, FlowStep, Trigger, Refuse, WithinLimits, OpenSession, ModalShown, EntryAges,
     ItemModal, PushItem, SessionExpires
<1>4. flow' \in [Flow -> Call]
  <2>1. ASSUME NEW m \in Member, Trigger(f, m)
        PROVE  flow' \in [Flow -> Call]
    <3>1. Reserved(f, m) \subseteq Flow
      BY <1>1 DEF Reserved, Recorded, IInv, TypeOK, Call
    <3> DEFINE c == [pc |-> "limits", member |-> m, entries |-> Reserved(f, m),
                     live |-> FALSE, items |-> 0, modals |-> 0]
    <3>2. c \in Call
      BY <3>1 DEF Call
    <3>3. flow' = [flow EXCEPT ![f] = c]
      BY <2>1 DEF Trigger
    <3> HIDE DEF c
    <3> QED BY <1>1, <3>2, <3>3
  <2>2. CASE Refuse(f)
    <3> DEFINE ended == [flow EXCEPT ![f].pc = "ended"]
               g == CurrentArray(f)
    <3>1. ended \in [Flow -> Call]
      BY <1>1 DEF Call
    <3>2. flow' = IF g = Null THEN ended ELSE [ended EXCEPT ![g].entries = @ \ {f}]
      BY <2>2 DEF Refuse, Released
    <3> HIDE DEF ended, g
    <3>3. [ended EXCEPT ![g].entries = @ \ {f}] \in [Flow -> Call]
      <4>1. CASE g \in Flow
        <5>1. ended[g] \in Call
          BY <3>1, <4>1
        <5>2. [ended[g] EXCEPT !.entries = @ \ {f}] \in Call
          BY <5>1 DEF Call
        <5> QED BY <3>1, <4>1, <5>2
      <4>2. CASE g \notin Flow
        BY <3>1, <4>2
      <4> QED BY <4>1, <4>2
    <3> QED BY <3>1, <3>2, <3>3
  <2>3. CASE WithinLimits(f) \/ OpenSession(f) \/ ModalShown(f) \/ SessionExpires(f)
    <3>1. /\ [flow[f] EXCEPT !.pc = "count"] \in Call
          /\ [flow[f] EXCEPT !.live = FALSE] \in Call
          /\ [flow[f] EXCEPT !.pc = "modal", !.live = TRUE] \in Call
          /\ [flow[f] EXCEPT !.pc = "shown"] \in Call
      BY <1>1 DEF Call
    <3>2. \E c \in Call : flow' = [flow EXCEPT ![f] = c]
      BY <1>1, <2>3, <3>1 DEF WithinLimits, OpenSession, ModalShown, SessionExpires
    <3> QED BY <1>1, <3>2
  <2>4. CASE EntryAges(f)
    BY <1>1, <2>4 DEF EntryAges
  <2>5. CASE ItemModal(f)
    BY <1>1, <2>5 DEF ItemModal, Call
  <2>6. CASE PushItem(f)
    <3>1. PICK n \in {flow[f].items, flow[f].items + 1} :
                 flow' = [flow EXCEPT ![f] = [flow[f] EXCEPT !.modals = @ - 1, !.items = n]]
      BY <1>1, <2>6 DEF PushItem
    <3>2. [flow[f] EXCEPT !.modals = @ - 1, !.items = n] \in Call
      <4>1. flow[f].modals > 0
        BY <2>6 DEF PushItem
      <4>2. flow[f].modals - 1 \in 0..MaxModals /\ n \in Nat
        BY <1>1, <3>1, <4>1 DEF Call
      <4> QED BY <1>1, <4>2 DEF Call
    <3> QED BY <1>1, <3>1, <3>2
  <2> QED BY <2>1, <2>2, <2>3, <2>4, <2>5, <2>6 DEF FlowStep
<1> QED BY <1>2, <1>3, <1>4 DEF IInv, TypeOK, OrdersTypeOK, ClicksAreSound, ovars

\* A submission changes the posts to "new" or leaves them, and no interaction.
LEMMA SubmitStepHolds ==
  ASSUME IInv, NEW s \in Submit, SubmitStep(s)
  PROVE  IInv'
<1> USE OrdersAssumption, SubmissionAssumption
<1> DEFINE u == submit[s]
<1>1. u \in Submission /\ (u.pc # "idle" => u.session \in Flow)
  BY DEF IInv, TypeOK, Submission
<1>2. UNCHANGED <<click, mistaken, disturbed, latest, old>>
  BY DEF SubmitStep, PressSubmit, SubmitFails, CountActive, InsertOrder, CreateThread,
     ThreadFails, LinkThread, CreateStaffThread, NoStaffThread, LinkStaffThread, ovars, At
<1>3. /\ submit' \in [Submit -> Submission]
      /\ \A q \in Submit : submit'[q].pc # "idle" => submit'[q].session # Null
  <2>1. PICK c \in Submission : /\ submit' = [submit EXCEPT ![s] = c]
                                /\ c.pc # "idle" => c.session # Null
    <3>1. IdleSubmit \in Submission /\ IdleSubmit.pc = "idle"
      BY DEF IdleSubmit, Submission
    <3>2. CASE SubmitFails(s) \/ ThreadFails(s) \/ NoStaffThread(s) \/ LinkStaffThread(s)
      BY <3>1, <3>2 DEF SubmitFails, ThreadFails, NoStaffThread, LinkStaffThread
    <3>3. CASE CountActive(s) \/ CreateThread(s) \/ LinkThread(s) \/ CreateStaffThread(s)
      <4>1. PICK pc \in {"insert", "link", "staff", "staffLink"} :
                   submit' = [submit EXCEPT ![s].pc = pc]
        BY <3>3 DEF CountActive, CreateThread, LinkThread, CreateStaffThread, At
      <4>2. submit' = [submit EXCEPT ![s] = [u EXCEPT !.pc = pc]]
        BY <4>1
      <4>3. /\ [u EXCEPT !.pc = pc] \in Submission
            /\ [u EXCEPT !.pc = pc].session = u.session /\ u.pc # "idle"
        BY <1>1, <3>3 DEF Submission, CountActive, CreateThread, LinkThread, CreateStaffThread
      <4> QED BY <1>1, <4>2, <4>3
    <3>4. CASE \E f \in Flow : PressSubmit(s, f)
      <4>1. PICK f \in Flow : submit' = [submit EXCEPT ![s] =
                                 [pc |-> "config", session |-> f, order |-> 0]]
        BY <3>4 DEF PressSubmit
      <4> DEFINE c == [pc |-> "config", session |-> f, order |-> 0]
      <4>2. c \in Submission /\ c.session # Null
        BY DEF Submission
      <4> QED BY <4>1, <4>2
    <3>5. CASE InsertOrder(s)
      <4>1. PICK o \in Order : submit' = [submit EXCEPT ![s].pc = "thread", ![s].order = o]
        BY <3>5 DEF InsertOrder
      <4> DEFINE c == [u EXCEPT !.pc = "thread", !.order = o]
      <4>2. submit' = [submit EXCEPT ![s] = c]
        BY <4>1
      <4>3. o \in 0..MaxOrders /\ u.pc # "idle"
        BY <3>5 DEF InsertOrder, Order
      <4>4. c \in Submission /\ c.session = u.session
        BY <1>1, <4>3 DEF Submission
      <4> HIDE DEF c
      <4> QED BY <1>1, <4>2, <4>3, <4>4 DEF IInv, TypeOK
    <3> HIDE DEF u
    <3> QED BY <3>2, <3>3, <3>4, <3>5, Zenon DEF SubmitStep
  <2> QED BY <2>1 DEF IInv, TypeOK
<1>4. order' \in [Order -> Row]
  <2>1. CASE InsertOrder(s)
    <3>1. PICK o \in Order : order' = [order EXCEPT ![o] =
                 [status |-> "new", owner |-> MemberOf(s), items |-> flow[u.session].items,
                  linked |-> {}]]
      BY <2>1 DEF InsertOrder
    <3>2. flow[u.session] \in Call
      BY <1>1, <2>1 DEF InsertOrder, IInv, TypeOK
    <3>3. MemberOf(s) \in Member \cup {Null} /\ flow[u.session].items \in Nat
      BY <3>2 DEF MemberOf, Call
    <3>4. [status |-> "new", owner |-> MemberOf(s), items |-> flow[u.session].items,
           linked |-> {}] \in Row
      BY <3>3 DEF Row, Status
    <3> QED BY <3>1, <3>4 DEF IInv, TypeOK, OrdersTypeOK
  <2>2. CASE LinkThread(s) \/ LinkStaffThread(s)
    <3>1. PICK thread \in Thread :
                 order' \in {[order EXCEPT ![u.order].linked = @ \cup {thread}], order}
      BY <2>2 DEF LinkThread, LinkStaffThread, Thread
    <3>2. CASE u.order \in Order
      <4>1. order[u.order] \in Row
        BY <3>2 DEF IInv, TypeOK, OrdersTypeOK
      <4>2. order[u.order].linked \cup {thread} \in SUBSET Thread
        BY <4>1 DEF Row
      <4>3. [order[u.order] EXCEPT !.linked = order[u.order].linked \cup {thread}] \in Row
        BY <4>1, <4>2 DEF Row
      <4>4. order' \in {[order EXCEPT ![u.order] =
                  [order[u.order] EXCEPT !.linked = order[u.order].linked \cup {thread}]], order}
        BY <3>1
      <4> QED BY <3>2, <4>3, <4>4 DEF IInv, TypeOK, OrdersTypeOK
    <3>3. CASE u.order \notin Order
      BY <3>1, <3>3 DEF IInv, TypeOK, OrdersTypeOK
    <3> QED BY <3>2, <3>3
  <2>3. CASE ~(InsertOrder(s) \/ LinkThread(s) \/ LinkStaffThread(s))
    <3>1. order' = order
      BY <2>3 DEF SubmitStep, PressSubmit, SubmitFails, CountActive, CreateThread,
         ThreadFails, CreateStaffThread, NoStaffThread, ovars
    <3> QED BY <3>1 DEF IInv, TypeOK, OrdersTypeOK
  <2> QED BY <2>1, <2>2, <2>3
<1>5. posts' \in [Order -> [Thread -> {"none"} \cup Status]]
  <2>1. CASE CreateThread(s) \/ CreateStaffThread(s)
    <3>1. PICK thread \in Thread : posts' = [posts EXCEPT ![u.order][thread] = "new"]
      BY <2>1 DEF CreateThread, CreateStaffThread, Thread
    <3>2. "new" \in Status
      BY DEF Status
    <3> QED BY <3>1, <3>2 DEF IInv, TypeOK, OrdersTypeOK
  <2>2. CASE ~(CreateThread(s) \/ CreateStaffThread(s))
    <3>1. posts' = posts
      BY <2>2 DEF SubmitStep, PressSubmit, SubmitFails, CountActive, InsertOrder,
         ThreadFails, LinkThread, NoStaffThread, LinkStaffThread, ovars
    <3> QED BY <3>1 DEF IInv, TypeOK, OrdersTypeOK
  <2> QED BY <2>1, <2>2
<1>6. flow' \in [Flow -> Call]
  <2>1. ASSUME NEW f \in Flow, PressSubmit(s, f)
        PROVE  flow' \in [Flow -> Call]
    <3>1. flow[f] \in Call /\ flow \in [Flow -> Call]
      BY DEF IInv, TypeOK
    <3>2. [flow[f] EXCEPT !.live = FALSE] \in Call
      BY <3>1 DEF Call
    <3>3. flow' = [flow EXCEPT ![f] = [flow[f] EXCEPT !.live = FALSE]]
      BY <2>1 DEF PressSubmit, DeleteSession
    <3> QED BY <3>1, <3>2, <3>3
  <2>2. CASE \A f \in Flow : ~PressSubmit(s, f)
    <3>1. flow' = flow
      BY <2>2 DEF SubmitStep, SubmitFails, CountActive, InsertOrder, CreateThread,
         ThreadFails, LinkThread, CreateStaffThread, NoStaffThread, LinkStaffThread
    <3> QED BY <3>1 DEF IInv, TypeOK
  <2> QED BY <2>1, <2>2
<1>7. OrdersTypeOK'
  BY <1>2, <1>4, <1>5 DEF IInv, TypeOK, OrdersTypeOK
<1> QED BY <1>2, <1>3, <1>6, <1>7 DEF IInv, TypeOK, ClicksAreSound

\* A restart keeps the invariant: the orders and posts stay.
LEMMA RestartHolds ==
  ASSUME IInv, Restart
  PROVE  IInv'
<1> USE OrdersAssumption, SubmissionAssumption
<1>1. click' \in [Click -> Interaction] /\ ClicksAreSound'
  BY IdleClickIsSound DEF Restart, ClicksLost, ClicksAreSound
<1>2. OrdersTypeOK'
  BY <1>1 DEF Restart, ClicksLost, OrdersTypeOK, IInv, TypeOK
<1>3. flow' \in [Flow -> Call]
  <2>1. IdleCall \in Call
    BY DEF IdleCall, Call
  <2>2. ASSUME NEW f \in Flow
        PROVE  [IdleCall EXCEPT !.pc = "ended", !.member = flow[f].member] \in Call
    <3>1. flow[f].member \in Member \cup {Null}
      BY DEF IInv, TypeOK, Call
    <3> QED BY <2>1, <3>1 DEF Call
  <2> QED BY <2>1, <2>2 DEF Restart
<1>4. IdleSubmit \in Submission /\ IdleSubmit.pc = "idle"
  BY DEF IdleSubmit, Submission
<1>5. /\ submit' \in [Submit -> Submission]
      /\ \A s \in Submit : submit'[s].pc # "idle" => submit'[s].session # Null
  BY <1>4 DEF Restart
<1>6. latest' \in [Member -> Flow \cup {Null}] /\ old' \subseteq Flow
  BY DEF Restart, IInv, TypeOK
<1> QED BY <1>1, <1>2, <1>3, <1>5, <1>6 DEF IInv, TypeOK

-----------------------------------------------------------------------------
(* The theorems *)

\* The invariant holds in every behaviour, for any constants.
LEMMA Inductive == Spec => []IInv
<1>1. IInv /\ [Next]_vars => IInv'
  <2> SUFFICES ASSUME IInv, [Next]_vars PROVE IInv'
    OBVIOUS
  <2>1. ASSUME OrdersTypeOK' /\ ClicksAreSound', UNCHANGED svars
        PROVE  IInv'
    BY <2>1 DEF IInv, TypeOK, svars
  <2>2. ASSUME NEW c \in Click, ApplyClick(c)
        PROVE  IInv'
    <3>1. (Creating(click[c].order) # {}) \in BOOLEAN
      OBVIOUS
    <3> QED BY <2>1, <2>2, <3>1, ApplyHolds DEF ApplyClick, IInv, TypeOK
  <2>3. ASSUME NEW c \in Click, ClickStep(c), UNCHANGED svars
        PROVE  IInv'
    BY <2>1, <2>3, ClickStepHolds DEF IInv, TypeOK
  <2>4. CASE UNCHANGED vars
    BY <2>4 DEF vars, ovars, svars, IInv, TypeOK, OrdersTypeOK, ClicksAreSound
  <2> QED BY <2>2, <2>3, <2>4, FlowStepHolds, SubmitStepHolds, RestartHolds DEF Next
<1> QED BY <1>1, InitHolds, PTL DEF Spec

\* Type correctness.
THEOREM TypeCorrect == Spec => []TypeOK
<1>1. IInv => TypeOK
  BY DEF IInv
<1> QED BY <1>1, Inductive, PTL

\* An order moves along VALID_TRANSITIONS only, and by a handler whose member may.
THEOREM LifecycleIsFollowed == Spec => OrdersFollowLifecycle
<1> DEFINE Moves(o) ==
      order'[o].status # order[o].status /\ order[o].status # "absent" =>
         /\ ValidTransition(order[o].status, order'[o].status)
         /\ \E c \in Click :
              /\ click[c].pc = "apply" /\ click[c].order = o
              /\ click[c].to = order'[o].status
              /\ click[c].staff \/ order[o].status \in {"new", "accepted"}
<1>1. IInv /\ [Next]_vars => [\A o \in Order : Moves(o)]_ovars
  <2> SUFFICES ASSUME IInv, [Next]_vars, NEW o \in Order,
                      order'[o].status # order[o].status, order[o].status # "absent"
               PROVE  Moves(o)
    OBVIOUS
  <2>1. order \in [Order -> Row]
    BY DEF IInv, TypeOK, OrdersTypeOK
  <2>2. ASSUME NEW c \in Click, click[c].pc = "apply", StillAllowed(click[c]),
               order' = [order EXCEPT ![click[c].order].status = click[c].to]
        PROVE  Moves(o)
    <3>1. click[c].order = o /\ order'[o].status = click[c].to
      BY <2>1, <2>2 DEF Row
    <3>2. order[o].status \in click[c].from
      BY <2>2, <3>1 DEF StillAllowed
    <3>3. SoundClick(click[c])
      BY DEF IInv, ClicksAreSound
    <3> QED BY <2>2, <3>1, <3>2, <3>3 DEF SoundClick, EarlyOrStaff
  <2>3. ASSUME NEW c \in Click, ApplyClick(c)
        PROVE  Moves(o)
    <3>1. click[c].pc = "apply" /\ StillAllowed(click[c])
      BY <2>3 DEF ApplyClick, Apply
    <3>2. order' = [order EXCEPT ![click[c].order].status = click[c].to]
      BY <2>3, <3>1 DEF ApplyClick, Apply
    <3> QED BY <2>2, <3>1, <3>2
  <2>4. ASSUME NEW c \in Click, ApplyThrows(c)
        PROVE  Moves(o)
    <3>1. /\ click[c].pc = "apply" /\ StillAllowed(click[c])
          /\ order' = [order EXCEPT ![click[c].order].status = click[c].to]
      BY <2>4 DEF ApplyThrows
    <3> QED BY <2>2, <3>1
  <2>5. ASSUME NEW c \in Click, ClickStep(c), ~ApplyThrows(c)
        PROVE  FALSE
    <3>1. order' = order
      BY <2>5 DEF ClickStep, PressAdvance, PressStaffCancel, PressCancel, Press,
         ReadOrder, EditOwn, EditCounterpart
    <3> QED BY <3>1
  <2>6. ASSUME NEW s \in Submit, SubmitStep(s)
        PROVE  FALSE
    <3>1. CASE InsertOrder(s)
      <4>1. PICK p \in Order : /\ order[p].status = "absent"
                               /\ \A q \in Order \ {p} : order'[q] = order[q]
        BY <2>1, <3>1 DEF InsertOrder
      <4> QED BY <4>1
    <3>2. CASE LinkThread(s) \/ LinkStaffThread(s)
      <4>1. order' = order \/ \E thread \in Thread :
              order' = [order EXCEPT ![submit[s].order].linked = @ \cup {thread}]
        BY <3>2 DEF LinkThread, LinkStaffThread, Thread
      <4>2. order'[o].status = order[o].status
        BY ZenonT(60), <2>1, <4>1 DEF Row
      <4> QED BY <4>2
    <3>3. CASE ~(InsertOrder(s) \/ LinkThread(s) \/ LinkStaffThread(s))
      <4>1. order' = order
        BY <2>6, <3>3 DEF SubmitStep, PressSubmit, SubmitFails, CountActive, CreateThread,
           ThreadFails, CreateStaffThread, NoStaffThread, ovars
      <4> QED BY <4>1
    <3> QED BY <3>1, <3>2, <3>3
  <2>7. ASSUME NEW f \in Flow, FlowStep(f)
        PROVE  FALSE
    <3>1. order' = order
      BY <2>7 DEF FlowStep, Trigger, Refuse, WithinLimits, OpenSession, ModalShown, EntryAges,
         ItemModal, PushItem, SessionExpires, ovars
    <3> QED BY <3>1
  <2>8. CASE Restart \/ UNCHANGED vars
    <3>1. order' = order
      BY <2>8 DEF Restart, ClicksLost, vars, ovars
    <3> QED BY <3>1
  <2> QED BY <2>3, <2>4, <2>5, <2>6, <2>7, <2>8 DEF Next
<1> QED BY <1>1, Inductive, PTL DEF Spec, OrdersFollowLifecycle

-----------------------------------------------------------------------------
(* The rate limit.  The calls of a member that hold a place, and those of  *)
(* them that are past the check of the limit                               *)

Here(m) == {f \in Flow \ old : /\ flow[f].member = m
                               /\ flow[f].pc \in {"limits", "count", "modal", "shown"}}
Passed(m) == {f \in Here(m) : flow[f].pc # "limits"}

\* A call that was not made yet is blank; only a shown modal ages out.
FlowsFit ==
  \A f \in Flow :
    /\ flow[f].pc = "idle" =>
         flow[f].member = Null /\ flow[f].entries = {} /\ flow[f].modals = 0
    /\ flow[f].pc # "idle" => flow[f].member \in Member
    /\ flow[f].live => flow[f].pc \in {"modal", "shown", "ended"}
    /\ f \in old => flow[f].pc \in {"shown", "ended"}

\* The arrays hold calls of the member whose they are.
ArraysAreOwn ==
  /\ \A g \in Flow : \A f \in flow[g].entries :
       flow[f].member = flow[g].member /\ flow[f].pc # "idle"
  /\ \A m \in Member : latest[m] # Null => flow[latest[m]].member = m

\* The array of the map holds every call that has a place, and so does the own
\* array of the call.
ArraysAreComplete ==
  \A m \in Member : \A f \in Here(m) : f \in Recorded(m) /\ f \in flow[f].entries

\* Of two arrays one knows of the other's call, or has nothing the other has not.
ArraysAreNested ==
  \A g \in Flow, m \in Member : flow[g].member = m =>
    \A f \in Here(m) :
      f \in flow[g].entries \/ flow[g].entries \cap Here(m) \subseteq flow[f].entries

\* Those past the check are all in one array that was found to be short enough.
PassedAreFew ==
  \A m \in Member :
    Passed(m) # {} =>
      \E g \in Flow : /\ flow[g].member = m
                      /\ Cardinality(flow[g].entries) <= RateLimit
                      /\ Passed(m) \subseteq flow[g].entries

SlotsInv ==
  /\ FlowsFit
  /\ ArraysAreOwn
  /\ ReservationsAreReleased
  /\ ArraysAreComplete
  /\ ArraysAreNested
  /\ PassedAreFew

\* Steps that make no call and refuse none: at most one call goes on.
Proceeds ==
  /\ latest' = latest /\ old \subseteq old'
  /\ \A g \in old' \ old : flow[g].pc = "shown"
  /\ \A g \in Flow :
       /\ flow'[g].member = flow[g].member /\ flow'[g].entries = flow[g].entries
       /\ \/ flow'[g].pc = flow[g].pc
          \/ /\ flow[g].pc = "limits" /\ flow'[g].pc = "count"
             /\ Cardinality(flow[g].entries) <= RateLimit
          \/ flow[g].pc = "count" /\ flow'[g].pc = "modal"
          \/ flow[g].pc = "modal" /\ flow'[g].pc = "shown"
  /\ \A g, h \in Flow : flow'[g].pc # flow[g].pc /\ flow'[h].pc # flow[h].pc => g = h

\* The checks and the session change their own call only.
LEMMA LimitsFacts ==
  ASSUME TypeOK, NEW f \in Flow, WithinLimits(f)
  PROVE  /\ \A g \in Flow \ {f} : flow'[g] = flow[g]
         /\ flow'[f].member = flow[f].member /\ flow'[f].entries = flow[f].entries
         /\ flow[f].pc = "limits" /\ flow'[f].pc = "count"
         /\ Cardinality(flow[f].entries) <= RateLimit
         /\ flow'[f].live = flow[f].live /\ flow'[f].items = flow[f].items
<1>1. flow[f] \in Call /\ flow \in [Flow -> Call]
  BY DEF TypeOK
<1>2. flow' = [flow EXCEPT ![f] = [flow[f] EXCEPT !.pc = "count"]]
  BY DEF WithinLimits
<1> QED BY <1>1, <1>2 DEF Call, WithinLimits

\* The session is there before the modal.
LEMMA OpenFacts ==
  ASSUME TypeOK, NEW f \in Flow, OpenSession(f)
  PROVE  /\ \A g \in Flow \ {f} : flow'[g] = flow[g]
         /\ flow'[f].member = flow[f].member /\ flow'[f].entries = flow[f].entries
         /\ flow[f].pc = "count" /\ flow'[f].pc = "modal"
         /\ flow'[f].live = TRUE /\ flow'[f].items = flow[f].items
<1>1. flow[f] \in Call /\ flow \in [Flow -> Call]
  BY DEF TypeOK
<1>2. flow' = [flow EXCEPT ![f] = [flow[f] EXCEPT !.pc = "modal", !.live = TRUE]]
  BY DEF OpenSession
<1> QED BY <1>1, <1>2 DEF Call, OpenSession

\* The modal's answer leaves the session as it is.
LEMMA ShownFacts ==
  ASSUME TypeOK, NEW f \in Flow, ModalShown(f)
  PROVE  /\ \A g \in Flow \ {f} : flow'[g] = flow[g]
         /\ flow'[f].member = flow[f].member /\ flow'[f].entries = flow[f].entries
         /\ flow[f].pc = "modal" /\ flow'[f].pc = "shown"
         /\ flow'[f].live = flow[f].live /\ flow'[f].items = flow[f].items
<1>1. flow[f] \in Call /\ flow \in [Flow -> Call]
  BY DEF TypeOK
<1>2. flow' = [flow EXCEPT ![f] = [flow[f] EXCEPT !.pc = "shown"]]
  BY DEF ModalShown
<1> QED BY <1>1, <1>2 DEF Call, ModalShown

\* A modal opens, or its item is pushed, or the session expires.
LEMMA SessionFacts ==
  ASSUME TypeOK, NEW f \in Flow, ItemModal(f) \/ PushItem(f) \/ SessionExpires(f)
  PROVE  /\ \A g \in Flow \ {f} : flow'[g] = flow[g]
         /\ flow'[f].member = flow[f].member /\ flow'[f].entries = flow[f].entries
         /\ flow'[f].pc = flow[f].pc
         /\ flow[f].live \/ flow[f].modals > 0
         /\ flow'[f].live => flow[f].live
         /\ \/ flow'[f].items = flow[f].items
            \/ HasRoom(f) /\ flow'[f].items = flow[f].items + 1
<1>1. flow[f] \in Call /\ flow \in [Flow -> Call]
  BY DEF TypeOK
<1>2. CASE ItemModal(f)
  <2>1. flow' = [flow EXCEPT ![f] = [flow[f] EXCEPT !.modals = @ + 1]]
    BY <1>2 DEF ItemModal
  <2> QED BY <1>1, <1>2, <2>1 DEF Call, ItemModal
<1>3. CASE PushItem(f)
  <2>1. PICK n : /\ n = flow[f].items \/ (HasRoom(f) /\ n = flow[f].items + 1)
                 /\ flow' = [flow EXCEPT ![f] = [flow[f] EXCEPT !.modals = @ - 1, !.items = n]]
    BY <1>1, <1>3 DEF PushItem
  <2> QED BY <1>1, <1>3, <2>1 DEF Call, PushItem
<1>4. CASE SessionExpires(f)
  <2>1. flow' = [flow EXCEPT ![f] = [flow[f] EXCEPT !.live = FALSE]]
    BY <1>4 DEF SessionExpires
  <2> QED BY <1>1, <1>4, <2>1 DEF Call, SessionExpires
<1> QED BY <1>2, <1>3, <1>4

\* A submission takes a session that is live and has items.
LEMMA TakeFacts ==
  ASSUME TypeOK, NEW s \in Submit, NEW f \in Flow, PressSubmit(s, f)
  PROVE  /\ \A g \in Flow \ {f} : flow'[g] = flow[g]
         /\ flow'[f].member = flow[f].member /\ flow'[f].entries = flow[f].entries
         /\ flow'[f].pc = flow[f].pc /\ flow'[f].items = flow[f].items
         /\ flow[f].live /\ ~flow'[f].live /\ flow[f].items > 0
         /\ submit[s].pc = "idle"
         /\ submit'[s].pc = "config" /\ submit'[s].session = f /\ submit'[s].order = 0
         /\ \A t \in Submit \ {s} : submit'[t] = submit[t]
<1>1. flow[f] \in Call /\ flow \in [Flow -> Call] /\ submit \in [Submit -> Submission]
  BY DEF TypeOK
<1>2. flow' = [flow EXCEPT ![f] = [flow[f] EXCEPT !.live = FALSE]]
  BY DEF PressSubmit, DeleteSession
<1> QED BY <1>1, <1>2 DEF Call, PressSubmit

\* A refusal takes the call out of the array the map has, and nothing else.
LEMMA RefuseFacts ==
  ASSUME TypeOK, NEW f \in Flow, Refuse(f)
  PROVE  /\ flow[f].pc \in {"limits", "count", "modal"} /\ flow'[f].pc = "ended"
         /\ UNCHANGED <<latest, old>>
         /\ \A g \in Flow \ {f} : flow'[g].pc = flow[g].pc
         /\ \A g \in Flow :
              /\ flow'[g].member = flow[g].member /\ flow'[g].live = flow[g].live
              /\ flow'[g].items = flow[g].items /\ flow'[g].modals = flow[g].modals
              /\ flow'[g].entries = IF g = latest[flow[f].member]
                                    THEN flow[g].entries \ {f} ELSE flow[g].entries
<1> DEFINE ended == [flow EXCEPT ![f].pc = "ended"]
           a == latest[flow[f].member]
<1>1. flow[f] \in Call /\ flow \in [Flow -> Call]
  BY DEF TypeOK
<1>2. flow' = IF a = Null THEN ended ELSE [ended EXCEPT ![a].entries = @ \ {f}]
  BY DEF Refuse, Released, CurrentArray
<1>3. /\ ended \in [Flow -> Call] /\ ended[f].pc = "ended"
      /\ \A g \in Flow \ {f} : ended[g] = flow[g]
      /\ \A g \in Flow : /\ ended[g].member = flow[g].member /\ ended[g].live = flow[g].live
                         /\ ended[g].items = flow[g].items /\ ended[g].modals = flow[g].modals
                         /\ ended[g].entries = flow[g].entries
  BY <1>1 DEF Call
<1>4. /\ flow[f].pc \in {"limits", "count", "modal"} /\ UNCHANGED <<latest, old>>
  BY DEF Refuse
<1> HIDE DEF ended, a
<1>5. CASE a \in Flow
  <2>1. flow' = [ended EXCEPT ![a] = [ended[a] EXCEPT !.entries = @ \ {f}]]
    BY <1>2, <1>5, SubmissionAssumption
  <2>2. ended[a] \in Call
    BY <1>3, <1>5
  <2>3. /\ flow'[a].pc = ended[a].pc /\ flow'[a].member = ended[a].member
        /\ flow'[a].live = ended[a].live /\ flow'[a].items = ended[a].items
        /\ flow'[a].modals = ended[a].modals
        /\ flow'[a].entries = ended[a].entries \ {f}
        /\ \A g \in Flow \ {a} : flow'[g] = ended[g]
    BY <1>3, <1>5, <2>1, <2>2 DEF Call
  <2>4. flow'[f].pc = "ended" /\ \A g \in Flow \ {f} : flow'[g].pc = flow[g].pc
    BY <1>3, <1>5, <2>3
  <2>5. ASSUME NEW g \in Flow
        PROVE  /\ flow'[g].member = flow[g].member /\ flow'[g].live = flow[g].live
               /\ flow'[g].items = flow[g].items /\ flow'[g].modals = flow[g].modals
               /\ flow'[g].entries = IF g = a THEN flow[g].entries \ {f} ELSE flow[g].entries
    <3>1. CASE g = a
      BY <1>3, <2>3, <3>1
    <3>2. CASE g # a
      BY <1>3, <2>3, <3>2
    <3> QED BY <3>1, <3>2
  <2> QED BY <1>4, <2>4, <2>5 DEF a
<1>6. CASE a \notin Flow
  <2>1. flow' = ended
    BY <1>2, <1>3, <1>6
  <2> QED BY <1>3, <1>4, <1>6, <2>1 DEF a
<1> QED BY <1>5, <1>6

\* A call starts from the array its member has.
LEMMA TriggerFacts ==
  ASSUME TypeOK, NEW f \in Flow, NEW m \in Member, Trigger(f, m)
  PROVE  /\ flow[f].pc = "idle" /\ old' = old
         /\ latest' = [latest EXCEPT ![m] = f]
         /\ \A g \in Flow \ {f} : flow'[g] = flow[g]
         /\ flow'[f].pc = "limits" /\ flow'[f].member = m /\ ~flow'[f].live
         /\ flow'[f].entries = Recorded(m) \cup {f} /\ flow'[f].items = 0
<1> DEFINE c == [pc |-> "limits", member |-> m, entries |-> Reserved(f, m), live |-> FALSE,
                 items |-> 0, modals |-> 0]
<1>1. flow' = [flow EXCEPT ![f] = c] /\ flow \in [Flow -> Call]
  BY DEF Trigger, TypeOK
<1>2. /\ c.pc = "limits" /\ c.member = m /\ ~c.live /\ c.items = 0
      /\ c.entries = Recorded(m) \cup {f}
  BY DEF Reserved
<1> HIDE DEF c
<1> QED BY <1>1, <1>2 DEF Trigger

\* Every step makes a call, refuses one, restarts the bot or lets one go on.
LEMMA StepKinds ==
  ASSUME TypeOK, FlowsFit, [Next]_vars
  PROVE  \/ \E f \in Flow, m \in Member : Trigger(f, m)
         \/ \E f \in Flow : Refuse(f)
         \/ Restart
         \/ Proceeds
<1>1. ASSUME flow' = flow, latest' = latest, old' = old PROVE Proceeds
  BY <1>1 DEF Proceeds
<1>2. ASSUME NEW f \in Flow, FlowStep(f), \A m \in Member : ~Trigger(f, m), ~Refuse(f)
      PROVE  Proceeds
  <2>1. CASE WithinLimits(f)
    <3>1. latest' = latest /\ old' = old
      BY <2>1 DEF WithinLimits
    <3> QED BY <2>1, <3>1, LimitsFacts DEF Proceeds
  <2>2. CASE OpenSession(f)
    <3>1. latest' = latest /\ old' = old
      BY <2>2 DEF OpenSession
    <3> QED BY ZenonT(60), <2>2, <3>1, OpenFacts DEF Proceeds
  <2>5. CASE ModalShown(f)
    <3>1. latest' = latest /\ old' = old
      BY <2>5 DEF ModalShown
    <3> QED BY ZenonT(60), <2>5, <3>1, ShownFacts DEF Proceeds
  <2>3. CASE ItemModal(f) \/ PushItem(f) \/ SessionExpires(f)
    <3>1. latest' = latest /\ old' = old
      BY <2>3 DEF ItemModal, PushItem, SessionExpires
    <3> QED BY <2>3, <3>1, SessionFacts DEF Proceeds
  <2>4. CASE EntryAges(f)
    BY <2>4 DEF EntryAges, Proceeds
  <2> QED BY <1>2, <2>1, <2>2, <2>3, <2>4, <2>5 DEF FlowStep
<1>3. ASSUME NEW s \in Submit, SubmitStep(s) PROVE Proceeds
  <2>1. latest' = latest /\ old' = old
    BY <1>3 DEF SubmitStep, PressSubmit, SubmitFails, CountActive, InsertOrder, CreateThread,
       ThreadFails, LinkThread, CreateStaffThread, NoStaffThread, LinkStaffThread
  <2>2. ASSUME NEW f \in Flow, PressSubmit(s, f) PROVE Proceeds
    BY <2>1, <2>2, TakeFacts DEF Proceeds
  <2>3. CASE \A f \in Flow : ~PressSubmit(s, f)
    <3>1. flow' = flow
      BY <1>3, <2>3 DEF SubmitStep, SubmitFails, CountActive, InsertOrder, CreateThread,
         ThreadFails, LinkThread, CreateStaffThread, NoStaffThread, LinkStaffThread
    <3> QED BY <1>1, <2>1, <3>1
  <2> QED BY <2>2, <2>3
<1>4. ASSUME UNCHANGED svars PROVE Proceeds
  BY <1>1, <1>4 DEF svars
<1>5. UNCHANGED vars => UNCHANGED svars
  BY DEF vars, svars
<1>6. ASSUME NEW c \in Click, ApplyClick(c) PROVE UNCHANGED svars
  BY <1>6 DEF ApplyClick
<1> QED BY <1>2, <1>3, <1>4, <1>5, <1>6 DEF Next

\* Calls stay what they are.
LEMMA FlowsFitKept == ASSUME TypeOK, FlowsFit, [Next]_vars PROVE FlowsFit'
<1>0. flow \in [Flow -> Call] /\ old \subseteq Flow
  BY DEF TypeOK
<1>1. ASSUME NEW f \in Flow, NEW m \in Member, Trigger(f, m) PROVE FlowsFit'
  <2>1. f \notin old
    BY <1>1, TriggerFacts DEF FlowsFit
  <2> QED BY <1>1, <2>1, TriggerFacts DEF FlowsFit
<1>2. ASSUME NEW f \in Flow, Refuse(f) PROVE FlowsFit'
  <2>1. /\ flow[f].pc # "idle" /\ flow[f].pc # "shown" /\ flow'[f].pc = "ended" /\ old' = old
        /\ \A g \in Flow \ {f} : flow'[g].pc = flow[g].pc
        /\ \A g \in Flow : /\ flow'[g].member = flow[g].member /\ flow'[g].live = flow[g].live
                           /\ flow'[g].modals = flow[g].modals
                           /\ flow'[g].entries \subseteq flow[g].entries
    BY ZenonT(60), <1>2, RefuseFacts
  <2> QED BY <2>1 DEF FlowsFit
<1>3. CASE Restart
  <2>1. IdleCall.pc = "idle" /\ IdleCall.member = Null /\ IdleCall.entries = {}
        /\ IdleCall.modals = 0 /\ ~IdleCall.live
    BY DEF IdleCall
  <2>2. ASSUME NEW g \in Flow
        PROVE  /\ flow[g].pc = "idle" => flow'[g] = IdleCall
               /\ flow[g].pc # "idle" => /\ flow'[g].pc = "ended" /\ ~flow'[g].live
                                         /\ flow'[g].member = flow[g].member
    BY <1>3 DEF Restart, IdleCall
  <2>3. old' = old
    BY <1>3 DEF Restart
  <2>4. ASSUME NEW g \in Flow
        PROVE  /\ flow'[g].pc = "idle" => flow'[g] = IdleCall
               /\ flow'[g].pc # "idle" => flow'[g].member \in Member
               /\ ~flow'[g].live
               /\ g \in old' => flow'[g].pc \in {"shown", "ended"}
    BY <2>1, <2>2, <2>3 DEF FlowsFit
  <2> QED BY <2>1, <2>4 DEF FlowsFit
<1>4. ASSUME flow' = flow, old' = old PROVE FlowsFit'
  BY <1>4 DEF FlowsFit
<1>5. ASSUME NEW f \in Flow,
             \A g \in Flow \ {f} : flow'[g] = flow[g],
             flow[f].pc # "idle", flow'[f].member = flow[f].member,
             flow'[f].pc # "idle",
             flow'[f].live => flow'[f].pc \in {"modal", "shown", "ended"},
             f \in old => flow'[f].pc \in {"shown", "ended"}, old' = old
      PROVE  FlowsFit'
  BY <1>5 DEF FlowsFit
<1>6. ASSUME NEW f \in Flow, FlowStep(f) PROVE FlowsFit'
  <2>1. CASE WithinLimits(f)
    <3>1. old' = old
      BY <2>1 DEF WithinLimits
    <3>2. f \notin old /\ ~flow'[f].live /\ flow[f].pc # "idle"
      BY <2>1, LimitsFacts DEF FlowsFit
    <3> QED BY <1>5, <2>1, <3>1, <3>2, LimitsFacts
  <2>2. CASE OpenSession(f)
    <3>1. old' = old
      BY <2>2 DEF OpenSession
    <3>2. f \notin old /\ flow[f].pc # "idle"
      BY <2>2, OpenFacts DEF FlowsFit
    <3> QED BY <1>5, <2>2, <3>1, <3>2, OpenFacts
  <2>5. CASE ModalShown(f)
    <3>1. old' = old
      BY <2>5 DEF ModalShown
    <3>2. f \notin old /\ flow[f].pc # "idle"
      BY <2>5, ShownFacts DEF FlowsFit
    <3> QED BY <1>5, <2>5, <3>1, <3>2, ShownFacts
  <2>3. CASE ItemModal(f) \/ PushItem(f) \/ SessionExpires(f)
    <3>1. old' = old
      BY <2>3 DEF ItemModal, PushItem, SessionExpires
    <3>2. /\ \A g \in Flow \ {f} : flow'[g] = flow[g]
          /\ flow'[f].member = flow[f].member /\ flow'[f].pc = flow[f].pc
          /\ flow[f].live \/ flow[f].modals > 0
          /\ flow'[f].live => flow[f].live
      BY <2>3, SessionFacts
    <3>3. flow[f].pc # "idle"
      BY <3>2 DEF FlowsFit
    <3>4. \A g \in Flow : g = f \/ flow'[g] = flow[g]
      BY <3>2
    <3> QED BY <3>1, <3>2, <3>3, <3>4 DEF FlowsFit
  <2>4. CASE EntryAges(f)
    BY <2>4 DEF EntryAges, FlowsFit
  <2> QED BY <1>1, <1>2, <1>6, <2>1, <2>2, <2>3, <2>4, <2>5 DEF FlowStep
<1>7. ASSUME NEW s \in Submit, SubmitStep(s) PROVE FlowsFit'
  <2>1. old' = old
    BY <1>7 DEF SubmitStep, PressSubmit, SubmitFails, CountActive, InsertOrder, CreateThread,
       ThreadFails, LinkThread, CreateStaffThread, NoStaffThread, LinkStaffThread
  <2>2. ASSUME NEW f \in Flow, PressSubmit(s, f) PROVE FlowsFit'
    <3>1. /\ flow[f].pc \in {"modal", "shown", "ended"}
          /\ f \in old => flow[f].pc \in {"shown", "ended"}
      BY <2>2, TakeFacts DEF FlowsFit
    <3>2. /\ \A g \in Flow \ {f} : flow'[g] = flow[g]
          /\ flow'[f].member = flow[f].member /\ flow'[f].pc = flow[f].pc /\ ~flow'[f].live
      BY <2>2, TakeFacts
    <3> QED BY <1>5, <2>1, <3>1, <3>2
  <2>3. CASE \A f \in Flow : ~PressSubmit(s, f)
    <3>1. flow' = flow
      BY <1>7, <2>3 DEF SubmitStep, SubmitFails, CountActive, InsertOrder, CreateThread,
         ThreadFails, LinkThread, CreateStaffThread, NoStaffThread, LinkStaffThread
    <3> QED BY <1>4, <2>1, <3>1
  <2> QED BY <2>2, <2>3
<1>8. UNCHANGED vars => flow' = flow /\ old' = old
  BY DEF vars, svars
<1>9. ASSUME NEW c \in Click, (ClickStep(c) /\ UNCHANGED svars) \/ ApplyClick(c)
      PROVE  flow' = flow /\ old' = old
  BY <1>9 DEF ApplyClick, svars
<1> QED BY <1>3, <1>4, <1>6, <1>7, <1>8, <1>9 DEF Next

\* A call that goes on passes the check only if its array is short enough, and
\* then all that have passed are in one of two arrays.
LEMMA ProceedsKeepsSlots == ASSUME TypeOK, SlotsInv, Proceeds PROVE
  ArraysAreOwn' /\ ReservationsAreReleased' /\ ArraysAreComplete' /\ ArraysAreNested' /\ PassedAreFew'
<1> USE SubmissionAssumption
<1>1. /\ latest' = latest /\ old \subseteq old' /\ latest \in [Member -> Flow \cup {Null}]
      /\ \A g \in Flow : /\ flow'[g].member = flow[g].member
                         /\ flow'[g].entries = flow[g].entries
                         /\ flow'[g].pc = "idle" <=> flow[g].pc = "idle"
                         /\ flow'[g].pc = "ended" <=> flow[g].pc = "ended"
      /\ \A g \in Flow : flow[g].entries \subseteq Flow
  BY DEF Proceeds, TypeOK, Call
<1>2. \A m \in Member : Here(m)' \subseteq Here(m)
  BY DEF Here, Proceeds
<1>3. ArraysAreOwn'
  BY <1>1 DEF SlotsInv, ArraysAreOwn
<1>4. ReservationsAreReleased'
  BY <1>1 DEF SlotsInv, ReservationsAreReleased
<1>5. ArraysAreComplete'
  <2> SUFFICES ASSUME NEW m \in Member, NEW f \in Here(m)'
               PROVE  f \in Recorded(m)' /\ f \in flow'[f].entries
    BY DEF ArraysAreComplete
  <2>1. f \in Here(m) /\ f \in Flow /\ f \notin old'
    BY <1>2 DEF Here
  <2>2. f \in Recorded(m) /\ f \in flow[f].entries
    BY <2>1 DEF SlotsInv, ArraysAreComplete
  <2>3. latest[m] # Null /\ latest[m] \in Flow /\ f \in flow[latest[m]].entries
    BY <1>1, <2>2 DEF Recorded
  <2> QED BY <1>1, <2>1, <2>2, <2>3 DEF Recorded
<1>6. ArraysAreNested'
  <2> SUFFICES ASSUME NEW g \in Flow, NEW m \in Member, flow'[g].member = m, NEW f \in Here(m)'
               PROVE  \/ f \in flow'[g].entries
                      \/ flow'[g].entries \cap Here(m)' \subseteq flow'[f].entries
    BY DEF ArraysAreNested
  <2>1. f \in Here(m) /\ f \in Flow /\ flow[g].member = m
    BY <1>1, <1>2 DEF Here
  <2>2. f \in flow[g].entries \/ flow[g].entries \cap Here(m) \subseteq flow[f].entries
    BY <2>1 DEF SlotsInv, ArraysAreNested
  <2> QED BY <1>1, <1>2, <2>1, <2>2
<1>7. PassedAreFew'
  <2> SUFFICES ASSUME NEW m \in Member, Passed(m)' # {}
               PROVE  \E g \in Flow : /\ flow[g].member = m
                                      /\ Cardinality(flow[g].entries) <= RateLimit
                                      /\ Passed(m)' \subseteq flow[g].entries
    BY <1>1 DEF PassedAreFew
  <2>1. CASE Passed(m)' \subseteq Passed(m)
    BY <2>1 DEF SlotsInv, PassedAreFew
  <2>2. ASSUME NEW f \in Passed(m)', f \notin Passed(m) PROVE
               \E g \in Flow : /\ flow[g].member = m
                               /\ Cardinality(flow[g].entries) <= RateLimit
                               /\ Passed(m)' \subseteq flow[g].entries
    <3>1. /\ f \in Flow /\ f \in Here(m) /\ flow[f].member = m
          /\ flow[f].pc = "limits" /\ flow'[f].pc # "limits"
          /\ Cardinality(flow[f].entries) <= RateLimit
      BY <1>1, <1>2, <2>2 DEF Passed, Here, Proceeds
    <3>2. ASSUME NEW g \in Passed(m)', g # f PROVE g \in Passed(m)
      <4>1. g \in Here(m) /\ g \in Flow /\ flow'[g].pc # "limits"
        BY <1>2, <3>2 DEF Passed, Here
      <4>2. flow'[g].pc = flow[g].pc
        BY <3>1, <3>2, <4>1 DEF Proceeds
      <4> QED BY <4>1, <4>2 DEF Passed
    <3>3. Passed(m)' \subseteq Passed(m) \cup {f}
      BY <3>2
    <3>4. f \in flow[f].entries
      BY <3>1 DEF SlotsInv, ArraysAreComplete
    <3>5. CASE Passed(m) = {}
      BY <3>1, <3>3, <3>4, <3>5
    <3>6. CASE Passed(m) # {}
      <4>1. PICK g \in Flow : /\ flow[g].member = m
                              /\ Cardinality(flow[g].entries) <= RateLimit
                              /\ Passed(m) \subseteq flow[g].entries
        BY <3>6 DEF SlotsInv, PassedAreFew
      <4>2. CASE f \in flow[g].entries
        BY <3>3, <4>1, <4>2
      <4>3. CASE f \notin flow[g].entries
        <5>1. flow[g].entries \cap Here(m) \subseteq flow[f].entries
          BY <3>1, <4>1, <4>3 DEF SlotsInv, ArraysAreNested
        <5>2. Passed(m) \subseteq Here(m)
          BY DEF Passed
        <5> QED BY <3>1, <3>3, <3>4, <4>1, <5>1, <5>2
      <4> QED BY <4>2, <4>3
    <3> QED BY <3>5, <3>6
  <2> QED BY <2>1, <2>2
<1> QED BY <1>3, <1>4, <1>5, <1>6, <1>7

\* A new call builds on the array the map has, which holds every call with a place.
LEMMA TriggerKeepsSlots ==
  ASSUME TypeOK, SlotsInv, NEW f \in Flow, NEW m \in Member, Trigger(f, m)
  PROVE  ArraysAreOwn' /\ ReservationsAreReleased' /\ ArraysAreComplete' /\ ArraysAreNested'
         /\ PassedAreFew'
<1> USE SubmissionAssumption
<1>1. /\ flow[f].pc = "idle" /\ old' = old
      /\ latest' = [latest EXCEPT ![m] = f]
      /\ \A g \in Flow \ {f} : flow'[g] = flow[g]
      /\ flow'[f].pc = "limits" /\ flow'[f].member = m
      /\ flow'[f].entries = Recorded(m) \cup {f}
      /\ latest \in [Member -> Flow \cup {Null}]
      /\ \A g \in Flow : flow[g].entries \subseteq Flow
  BY TriggerFacts DEF TypeOK, Call
<1>2. /\ flow[f].entries = {} /\ f \notin old /\ flow[f].member = Null
      /\ \A g \in Flow : f \notin flow[g].entries
      /\ \A n \in Member : latest[n] # f
  <2>1. flow[f].entries = {} /\ f \notin old /\ flow[f].member = Null
    BY <1>1 DEF SlotsInv, FlowsFit
  <2>2. ASSUME NEW g \in Flow PROVE f \notin flow[g].entries
    BY <1>1 DEF SlotsInv, ArraysAreOwn
  <2>3. ASSUME NEW n \in Member PROVE latest[n] # f
    BY <2>1, OrdersAssumption DEF SlotsInv, ArraysAreOwn
  <2> QED BY <2>1, <2>2, <2>3
<1>3. /\ \A n \in Member \ {m} : Here(n)' = Here(n)
      /\ Here(m)' = Here(m) \cup {f}
      /\ f \notin Here(m)
  BY <1>1, <1>2 DEF Here
<1>4. /\ Recorded(m) \subseteq Flow \ {f}
      /\ \A g \in Recorded(m) : flow[g].member = m /\ flow[g].pc \notin {"idle", "ended"}
  <2>1. CASE latest[m] = Null
    BY <2>1 DEF Recorded
  <2>2. CASE latest[m] \in Flow
    BY <1>1, <1>2, <2>2 DEF Recorded, SlotsInv, ArraysAreOwn, ReservationsAreReleased
  <2> QED BY <1>1, <2>1, <2>2
<1>5. ArraysAreOwn'
  <2>1. \A g \in Flow : \A h \in flow'[g].entries :
          flow'[h].member = flow'[g].member /\ flow'[h].pc # "idle"
    <3> SUFFICES ASSUME NEW g \in Flow, NEW h \in flow'[g].entries
                 PROVE  flow'[h].member = flow'[g].member /\ flow'[h].pc # "idle"
      OBVIOUS
    <3>1. CASE g = f
      BY <1>1, <1>4, <3>1
    <3>2. CASE g # f
      <4>1. h \in flow[g].entries /\ h \in Flow \ {f} /\ flow'[g] = flow[g] /\ flow'[h] = flow[h]
        BY <1>1, <1>2, <3>2
      <4> QED BY <4>1 DEF SlotsInv, ArraysAreOwn
    <3> QED BY <3>1, <3>2
  <2>2. \A n \in Member : latest'[n] # Null => flow'[latest'[n]].member = n
    BY <1>1, <1>2 DEF SlotsInv, ArraysAreOwn
  <2> QED BY <2>1, <2>2 DEF ArraysAreOwn
<1>6. ReservationsAreReleased'
  <2> SUFFICES ASSUME NEW n \in Member, latest'[n] # Null, NEW h \in flow'[latest'[n]].entries
               PROVE  flow'[h].pc # "ended"
    BY DEF ReservationsAreReleased
  <2>1. CASE n = m
    BY <1>1, <1>4, <2>1
  <2>2. CASE n # m
    <3>1. latest'[n] = latest[n] /\ latest[n] \in Flow \ {f} /\ flow'[latest[n]] = flow[latest[n]]
      BY <1>1, <1>2, <2>2
    <3>2. h \in Flow \ {f} /\ flow'[h] = flow[h]
      BY <1>1, <1>2, <3>1
    <3> QED BY <3>1, <3>2 DEF SlotsInv, ReservationsAreReleased
  <2> QED BY <2>1, <2>2
<1>7. ArraysAreComplete'
  <2> SUFFICES ASSUME NEW n \in Member, NEW h \in Here(n)'
               PROVE  h \in Recorded(n)' /\ h \in flow'[h].entries
    BY DEF ArraysAreComplete
  <2>1. CASE n = m
    <3>1. h = f \/ h \in Here(m)
      BY <1>3, <2>1
    <3>2. Recorded(m)' = (Recorded(m) \cup {f}) \ old
      BY <1>1 DEF Recorded
    <3>3. h \in Here(m) => h \in Recorded(m) /\ h \in flow[h].entries /\ h \notin old /\ h \in Flow \ {f}
      BY <1>3 DEF SlotsInv, ArraysAreComplete, Here
    <3> QED BY <1>1, <1>2, <2>1, <3>1, <3>2, <3>3
  <2>2. CASE n # m
    <3>1. h \in Here(n) /\ h \in Flow \ {f}
      BY <1>1, <1>3, <2>2 DEF Here
    <3>2. Recorded(n)' = Recorded(n)
      BY <1>1, <1>2, <2>2 DEF Recorded
    <3> QED BY <1>1, <3>1, <3>2 DEF SlotsInv, ArraysAreComplete
  <2> QED BY <2>1, <2>2
<1>8. ASSUME NEW g \in Flow, NEW n \in Member, flow'[g].member = n, NEW h \in Here(n)'
      PROVE  \/ h \in flow'[g].entries
             \/ flow'[g].entries \cap Here(n)' \subseteq flow'[h].entries
  <2>1. CASE g = f
    <3>1. n = m
      BY <1>1, <1>8, <2>1
    <3>2. h = f \/ h \in Recorded(m)
      BY <1>3, <1>8, <3>1 DEF SlotsInv, ArraysAreComplete
    <3> QED BY <1>1, <2>1, <3>2
  <2>2. CASE g # f
    <3>1. flow'[g] = flow[g] /\ flow[g].member = n
      BY <1>1, <1>8, <2>2
    <3>2. CASE h = f
      <4>1. n = m
        BY <1>1, <1>2, <1>3, <1>8, <3>2 DEF Here
      <4>2. flow[g].entries \cap Here(m)' \subseteq Here(m)
        BY <1>2, <1>3
      <4>3. Here(m) \subseteq Recorded(m)
        BY DEF SlotsInv, ArraysAreComplete
      <4> QED BY <1>1, <3>1, <3>2, <4>1, <4>2, <4>3
    <3>3. CASE h # f
      <4>1. h \in Here(n) /\ h \in Flow \ {f} /\ flow'[h] = flow[h]
        BY <1>1, <1>3, <1>8, <3>3 DEF Here
      <4>2. h \in flow[g].entries \/ flow[g].entries \cap Here(n) \subseteq flow[h].entries
        BY <3>1, <4>1 DEF SlotsInv, ArraysAreNested
      <4>3. flow[g].entries \cap Here(n)' \subseteq Here(n)
        BY <1>2, <1>3
      <4> QED BY <3>1, <4>1, <4>2, <4>3
    <3> QED BY <3>2, <3>3
  <2> QED BY <2>1, <2>2
<1>9. ArraysAreNested'
  BY <1>8 DEF ArraysAreNested
<1>10. PassedAreFew'
  <2> SUFFICES ASSUME NEW n \in Member, Passed(n)' # {}
               PROVE  \E g \in Flow : /\ flow'[g].member = n
                                      /\ Cardinality(flow'[g].entries) <= RateLimit
                                      /\ Passed(n)' \subseteq flow'[g].entries
    BY DEF PassedAreFew
  <2>1. Passed(n)' = Passed(n)
    BY <1>1, <1>2 DEF Passed, Here
  <2>2. PICK g \in Flow : /\ flow[g].member = n
                          /\ Cardinality(flow[g].entries) <= RateLimit
                          /\ Passed(n) \subseteq flow[g].entries
    BY <2>1 DEF SlotsInv, PassedAreFew
  <2>3. g # f
    BY <1>2, <2>1, <2>2
  <2> QED BY <1>1, <2>1, <2>2, <2>3
<1> QED BY <1>5, <1>6, <1>7, <1>9, <1>10

\* A refused call leaves the array of the map, which is the one it counted in.
LEMMA RefuseKeepsSlots ==
  ASSUME TypeOK, SlotsInv, NEW f \in Flow, Refuse(f)
  PROVE  ArraysAreOwn' /\ ReservationsAreReleased' /\ ArraysAreComplete' /\ ArraysAreNested'
         /\ PassedAreFew'
<1> USE SubmissionAssumption
<1>1. /\ flow[f].pc \in {"limits", "count", "modal"} /\ flow'[f].pc = "ended"
      /\ latest' = latest /\ old' = old /\ latest \in [Member -> Flow \cup {Null}]
      /\ \A g \in Flow \ {f} : flow'[g].pc = flow[g].pc
      /\ \A g \in Flow : /\ flow'[g].member = flow[g].member
                         /\ flow'[g].entries \subseteq flow[g].entries
                         /\ flow[g].entries \ {f} \subseteq flow'[g].entries
                         /\ flow[g].entries \subseteq Flow
      /\ \A g \in Flow : g = latest[flow[f].member] => f \notin flow'[g].entries
  <2>1. /\ flow[f].pc \in {"limits", "count", "modal"} /\ flow'[f].pc = "ended"
        /\ UNCHANGED <<latest, old>>
        /\ \A g \in Flow \ {f} : flow'[g].pc = flow[g].pc
    BY RefuseFacts
  <2>2. latest \in [Member -> Flow \cup {Null}] /\ \A g \in Flow : flow[g].entries \subseteq Flow
    BY DEF TypeOK, Call
  <2>3. ASSUME NEW g \in Flow
        PROVE  /\ flow'[g].member = flow[g].member
               /\ flow'[g].entries = IF g = latest[flow[f].member]
                                     THEN flow[g].entries \ {f} ELSE flow[g].entries
    BY RefuseFacts
  <2> QED BY <2>1, <2>2, <2>3
<1>2. \A m \in Member : Here(m)' = Here(m) \ {f}
  BY <1>1 DEF Here
<1>3. ArraysAreOwn'
  BY <1>1 DEF SlotsInv, ArraysAreOwn
<1>4. ReservationsAreReleased'
  <2> SUFFICES ASSUME NEW n \in Member, latest[n] # Null, NEW h \in flow'[latest[n]].entries
               PROVE  flow'[h].pc # "ended"
    BY <1>1 DEF ReservationsAreReleased
  <2>1. latest[n] \in Flow /\ h \in flow[latest[n]].entries /\ h \in Flow
    BY <1>1
  <2>2. flow[h].pc # "ended" /\ flow[h].member = n
    BY <2>1 DEF SlotsInv, ArraysAreOwn, ReservationsAreReleased
  <2>3. h # f
    BY <1>1, <2>1, <2>2
  <2> QED BY <1>1, <2>1, <2>2, <2>3
<1>5. ArraysAreComplete'
  <2> SUFFICES ASSUME NEW m \in Member, NEW h \in Here(m)'
               PROVE  h \in Recorded(m)' /\ h \in flow'[h].entries
    BY DEF ArraysAreComplete
  <2>1. h \in Here(m) /\ h # f /\ h \in Flow /\ h \notin old
    BY <1>2 DEF Here
  <2>2. h \in Recorded(m) /\ h \in flow[h].entries
    BY <2>1 DEF SlotsInv, ArraysAreComplete
  <2>3. latest[m] # Null /\ latest[m] \in Flow /\ h \in flow[latest[m]].entries
    BY <1>1, <2>2 DEF Recorded
  <2>4. h \in flow'[latest[m]].entries /\ h \in flow'[h].entries
    BY <1>1, <2>1, <2>2, <2>3
  <2> QED BY <1>1, <2>1, <2>3, <2>4 DEF Recorded
<1>6. ArraysAreNested'
  <2> SUFFICES ASSUME NEW g \in Flow, NEW m \in Member, flow'[g].member = m, NEW h \in Here(m)'
               PROVE  \/ h \in flow'[g].entries
                      \/ flow'[g].entries \cap Here(m)' \subseteq flow'[h].entries
    BY DEF ArraysAreNested
  <2>1. h \in Here(m) /\ h # f /\ h \in Flow /\ flow[g].member = m
    BY <1>1, <1>2 DEF Here
  <2>2. h \in flow[g].entries \/ flow[g].entries \cap Here(m) \subseteq flow[h].entries
    BY <2>1 DEF SlotsInv, ArraysAreNested
  <2>3. CASE h \in flow[g].entries
    BY <1>1, <2>1, <2>3
  <2>4. CASE flow[g].entries \cap Here(m) \subseteq flow[h].entries
    BY <1>1, <1>2, <2>1, <2>4
  <2> QED BY <2>2, <2>3, <2>4
<1>7. PassedAreFew'
  <2> SUFFICES ASSUME NEW m \in Member, Passed(m)' # {}
               PROVE  \E g \in Flow : /\ flow'[g].member = m
                                      /\ Cardinality(flow'[g].entries) <= RateLimit
                                      /\ Passed(m)' \subseteq flow'[g].entries
    BY DEF PassedAreFew
  <2>1. Passed(m)' \subseteq Passed(m) \ {f}
    BY <1>1, <1>2 DEF Passed, Here
  <2>2. PICK g \in Flow : /\ flow[g].member = m
                          /\ Cardinality(flow[g].entries) <= RateLimit
                          /\ Passed(m) \subseteq flow[g].entries
    BY <2>1 DEF SlotsInv, PassedAreFew
  <2>3. IsFiniteSet(flow[g].entries)
    BY <1>1, FS_Subset
  <2>4. Cardinality(flow'[g].entries) <= Cardinality(flow[g].entries)
        /\ Cardinality(flow[g].entries) \in Nat /\ Cardinality(flow'[g].entries) \in Nat
    BY <1>1, <2>3, FS_Subset, FS_CardinalityType
  <2>5. Cardinality(flow'[g].entries) <= RateLimit
    BY <2>2, <2>4
  <2> QED BY <1>1, <2>1, <2>2, <2>5
<1> QED BY <1>3, <1>4, <1>5, <1>6, <1>7

\* Where nobody has a place and no array holds anything, all is well.
LEMMA BlankSlots ==
  ASSUME \A g \in Flow : flow[g].entries = {} /\ flow[g].pc \in {"idle", "ended"},
         \A m \in Member : latest[m] = Null
  PROVE  ArraysAreOwn /\ ReservationsAreReleased /\ ArraysAreComplete /\ ArraysAreNested
         /\ PassedAreFew
<1>1. \A m \in Member : Here(m) = {}
  BY DEF Here
<1>2. \A m \in Member : Passed(m) = {}
  BY <1>1 DEF Passed
<1> QED BY <1>1, <1>2 DEF ArraysAreOwn, ReservationsAreReleased, ArraysAreComplete, ArraysAreNested,
    PassedAreFew

\* Every step keeps the places.
LEMMA SlotsKept == ASSUME TypeOK, SlotsInv, [Next]_vars PROVE SlotsInv'
<1>1. FlowsFit'
  BY FlowsFitKept DEF SlotsInv
<1>2. \/ \E f \in Flow, m \in Member : Trigger(f, m)
      \/ \E f \in Flow : Refuse(f)
      \/ Restart
      \/ Proceeds
  BY StepKinds DEF SlotsInv
<1>3. CASE Restart
  <2>1. \A g \in Flow : flow'[g].entries = {} /\ flow'[g].pc \in {"idle", "ended"}
    BY <1>3 DEF Restart, IdleCall
  <2>2. \A m \in Member : latest'[m] = Null
    BY <1>3 DEF Restart
  <2>3. ArraysAreOwn' /\ ReservationsAreReleased' /\ ArraysAreComplete' /\ ArraysAreNested'
        /\ PassedAreFew'
    <3>1. \A m \in Member : Here(m)' = {}
      BY <2>1 DEF Here
    <3>2. \A m \in Member : Passed(m)' = {}
      BY <3>1 DEF Passed
    <3> QED BY <2>1, <2>2, <3>1, <3>2 DEF ArraysAreOwn, ReservationsAreReleased,
        ArraysAreComplete, ArraysAreNested, PassedAreFew
  <2> QED BY <1>1, <2>3 DEF SlotsInv
<1>4. CASE Proceeds
  BY <1>1, <1>4, ProceedsKeepsSlots DEF SlotsInv
<1>5. ASSUME NEW f \in Flow, NEW m \in Member, Trigger(f, m) PROVE SlotsInv'
  BY <1>1, <1>5, TriggerKeepsSlots DEF SlotsInv
<1>6. ASSUME NEW f \in Flow, Refuse(f) PROVE SlotsInv'
  BY <1>1, <1>6, RefuseKeepsSlots DEF SlotsInv
<1> QED BY <1>2, <1>3, <1>4, <1>5, <1>6

\* No call was made yet.
LEMMA SlotsStart == Init => SlotsInv
<1> SUFFICES ASSUME Init PROVE SlotsInv
  OBVIOUS
<1>1. \A g \in Flow : flow[g] = IdleCall
  BY DEF Init
<1>2. \A g \in Flow : /\ flow[g].entries = {} /\ flow[g].pc = "idle" /\ flow[g].member = Null
                      /\ flow[g].modals = 0 /\ ~flow[g].live
  BY <1>1 DEF IdleCall
<1>3. old = {} /\ \A m \in Member : latest[m] = Null
  BY DEF Init
<1>4. FlowsFit
  BY <1>2, <1>3 DEF FlowsFit
<1> QED BY <1>2, <1>3, <1>4, BlankSlots DEF SlotsInv

\* The places are as they should be in every behaviour.
LEMMA SlotsHold == Spec => []SlotsInv
<1> QED BY SlotsStart, SlotsKept, TypeCorrect, PTL DEF Spec

\* Within a window a member is shown at most RateLimit modals.
THEOREM ModalsAreLimited == Spec => []RateLimitHolds
<1>1. ASSUME TypeOK, SlotsInv PROVE RateLimitHolds
  <2> SUFFICES ASSUME NEW m \in Member
               PROVE  Cardinality({f \in Flow \ old : /\ flow[f].member = m
                                                     /\ flow[f].pc \in {"modal", "shown"}})
                        <= RateLimit
    BY DEF RateLimitHolds
  <2> DEFINE S == {f \in Flow \ old : flow[f].member = m /\ flow[f].pc \in {"modal", "shown"}}
  <2>1. S \subseteq Passed(m)
    BY DEF Passed, Here
  <2>2. CASE Passed(m) = {}
    <3>1. S = {}
      BY <2>1, <2>2
    <3> QED BY <3>1, FS_EmptySet, SubmissionAssumption
  <2>3. CASE Passed(m) # {}
    <3>1. PICK g \in Flow : /\ Cardinality(flow[g].entries) <= RateLimit
                            /\ Passed(m) \subseteq flow[g].entries
      BY <2>3, <1>1 DEF SlotsInv, PassedAreFew
    <3>2. flow[g].entries \subseteq Flow
      BY <1>1 DEF TypeOK, Call
    <3>3. IsFiniteSet(flow[g].entries) /\ S \subseteq flow[g].entries
      BY <2>1, <3>1, <3>2, FS_Subset, SubmissionAssumption
    <3>4. /\ Cardinality(S) <= Cardinality(flow[g].entries)
          /\ IsFiniteSet(S)
      BY <3>3, FS_Subset
    <3>5. Cardinality(S) \in Nat /\ Cardinality(flow[g].entries) \in Nat
      BY <3>3, <3>4, FS_CardinalityType
    <3> QED BY <3>1, <3>4, <3>5, SubmissionAssumption
  <2> QED BY <2>2, <2>3
<1> QED BY <1>1, TypeCorrect, SlotsHold, PTL

\* A refused call's reservation is gone from the array of the map.
THEOREM RefusedCallsAreReleased == Spec => []ReservationsAreReleased
<1>1. SlotsInv => ReservationsAreReleased
  BY DEF SlotsInv
<1> QED BY <1>1, SlotsHold, PTL

-----------------------------------------------------------------------------
(* Sessions and the orders made of them *)

\* The presses of Submit Order under way, and those of them before the INSERT
Pressed == {s \in Submit : submit[s].pc # "idle"}
Submitting == {s \in Submit : submit[s].pc \in {"config", "insert"}}

\* A session that was stored
Opened == {"modal", "shown", "ended"}

\* A press has its session to itself, and the session has items.
SessionsAreTaken ==
  \A s \in Pressed :
    /\ flow[submit[s].session].pc \in Opened /\ ~flow[submit[s].session].live
    /\ flow[submit[s].session].items > 0
    /\ \A t \in Pressed : submit[t].session = submit[s].session => t = s

\* The orders and the calls of a member, and those of the calls an order may
\* still come from
OrdersOf(m) == {o \in Order : order[o].owner = m}
FlowsOf(m) == {f \in Flow : flow[f].member = m}
Busy(m) == {f \in FlowsOf(m) : \/ flow[f].live \/ flow[f].pc \in {"limits", "count"}
                               \/ \E s \in Submitting : submit[s].session = f}

CountsAgree ==
  \A m \in Member :
    Cardinality(OrdersOf(m)) + Cardinality(Busy(m)) <= Cardinality(FlowsOf(m))

\* The member's lock: one submission at a time is past the count, which still holds.
LocksHold ==
  \A m \in Member, s \in Submit : submit[s].pc = "insert" /\ MemberOf(s) = m =>
    /\ Cardinality(ActiveOf(m)) < OrderLimit
    /\ \A t \in Submit : submit[t].pc = "insert" /\ MemberOf(t) = m => t = s

SessionsInv ==
  /\ \A f \in Flow : flow[f].items <= MaxItems
  /\ SessionsAreTaken
  /\ \A o \in Order : order[o].status = "absent" => order[o].owner = Null
  /\ CountsAgree
  /\ LocksHold
  /\ OrdersWithinLimits

\* What every step but the INSERT does to the rows
RowsStay ==
  \A o \in Order :
    /\ order'[o].owner = order[o].owner /\ order'[o].items = order[o].items
    /\ \/ order'[o].status = order[o].status
       \/ order[o].status \in Live /\ order'[o].status \in Status

\* Sets of orders and of calls are finite.
LEMMA Counted ==
  /\ \A S \in SUBSET Order : IsFiniteSet(S) /\ Cardinality(S) \in Nat
  /\ \A S \in SUBSET Flow : IsFiniteSet(S) /\ Cardinality(S) \in Nat
<1>1. IsFiniteSet(Order) /\ IsFiniteSet(Flow)
  BY FS_Interval, OrdersAssumption, SubmissionAssumption DEF Order
<1> QED BY <1>1, FS_Subset, FS_CardinalityType

\* Rows that stay make no order active and none of another size.
LEMMA RowsKeepLimits ==
  ASSUME SessionsInv, RowsStay
  PROVE  /\ \A o \in Order : order'[o].status = "absent" => order'[o].owner = Null
         /\ OrderSizesHold'
         /\ \A m \in Member : OrdersOf(m)' = OrdersOf(m)
         /\ \A m \in Member : Cardinality(ActiveOf(m)') <= Cardinality(ActiveOf(m))
         /\ \A m \in Member : Cardinality(ActiveOf(m)') \in Nat /\ Cardinality(ActiveOf(m)) \in Nat
<1>1. "absent" \notin Status
  BY DEF Status
<1>2. \A o \in Order : order'[o].status = "absent" <=> order[o].status = "absent"
  BY <1>1 DEF RowsStay, Live
<1>3. \A o \in Order : order'[o].status = "absent" => order'[o].owner = Null
  BY <1>2 DEF RowsStay, SessionsInv
<1>4. OrderSizesHold'
  BY <1>2 DEF RowsStay, SessionsInv, OrdersWithinLimits, OrderSizesHold
<1>5. \A m \in Member : OrdersOf(m)' = OrdersOf(m)
  BY DEF RowsStay, OrdersOf
<1>6. ASSUME NEW m \in Member
      PROVE  /\ Cardinality(ActiveOf(m)') <= Cardinality(ActiveOf(m))
             /\ Cardinality(ActiveOf(m)') \in Nat /\ Cardinality(ActiveOf(m)) \in Nat
  <2>1. ActiveOf(m)' \subseteq ActiveOf(m) /\ ActiveOf(m) \subseteq Order /\ ActiveOf(m)' \subseteq Order
    BY DEF RowsStay, ActiveOf
  <2> QED BY <2>1, Counted, FS_Subset
<1> QED BY <1>3, <1>4, <1>5, <1>6

\* A step that inserts nothing, takes no session twice and makes no call keeps
\* the limits.
LEMMA SessionsStay ==
  ASSUME SessionsInv, RowsStay, SessionsAreTaken',
         \A g \in Flow : flow'[g].member = flow[g].member /\ flow'[g].items <= MaxItems,
         \A m \in Member : Busy(m)' \subseteq Busy(m),
         \A s \in Submit : submit'[s].pc = "insert" =>
           /\ MemberOf(s)' = MemberOf(s)
           /\ \/ submit[s].pc = "insert"
              \/ /\ LockFree(MemberOf(s))
                 /\ \A t \in Submit \ {s} : submit'[t] = submit[t]
                 /\ Cardinality(ActiveOf(MemberOf(s))) < OrderLimit
  PROVE  SessionsInv'
<1> USE SubmissionAssumption
<1>1. /\ \A o \in Order : order'[o].status = "absent" => order'[o].owner = Null
      /\ OrderSizesHold'
      /\ \A m \in Member : OrdersOf(m)' = OrdersOf(m)
      /\ \A m \in Member : Cardinality(ActiveOf(m)') <= Cardinality(ActiveOf(m))
      /\ \A m \in Member : Cardinality(ActiveOf(m)') \in Nat /\ Cardinality(ActiveOf(m)) \in Nat
  BY RowsKeepLimits
<1>2. ActiveOrdersHold'
  <2> SUFFICES ASSUME NEW m \in Member PROVE Cardinality(ActiveOf(m)') <= OrderLimit
    BY DEF ActiveOrdersHold
  <2>1. Cardinality(ActiveOf(m)) <= OrderLimit
    BY DEF SessionsInv, OrdersWithinLimits, ActiveOrdersHold
  <2> QED BY <1>1, <2>1
<1>3. CountsAgree'
  <2> SUFFICES ASSUME NEW m \in Member
               PROVE  Cardinality(OrdersOf(m)') + Cardinality(Busy(m)') <= Cardinality(FlowsOf(m)')
    BY DEF CountsAgree
  <2>1. FlowsOf(m)' = FlowsOf(m) /\ FlowsOf(m) \subseteq Flow /\ Busy(m) \subseteq Flow
        /\ OrdersOf(m) \subseteq Order
    BY DEF FlowsOf, Busy, OrdersOf
  <2>2. Cardinality(Busy(m)') <= Cardinality(Busy(m)) /\ Busy(m)' \subseteq Flow
    BY <2>1, Counted, FS_Subset
  <2>3. /\ Cardinality(Busy(m)') \in Nat /\ Cardinality(Busy(m)) \in Nat
        /\ Cardinality(OrdersOf(m)) \in Nat /\ Cardinality(FlowsOf(m)) \in Nat
    BY <2>1, <2>2, Counted
  <2>4. Cardinality(OrdersOf(m)) + Cardinality(Busy(m)) <= Cardinality(FlowsOf(m))
    BY DEF SessionsInv, CountsAgree
  <2>5. Cardinality(OrdersOf(m)') = Cardinality(OrdersOf(m))
        /\ Cardinality(FlowsOf(m)') = Cardinality(FlowsOf(m))
    BY <1>1, <2>1
  <2> QED BY <2>2, <2>3, <2>4, <2>5
<1>4. LocksHold'
  <2> SUFFICES ASSUME NEW m \in Member, NEW s \in Submit, submit'[s].pc = "insert", MemberOf(s)' = m
               PROVE  /\ Cardinality(ActiveOf(m)') < OrderLimit
                      /\ \A t \in Submit : submit'[t].pc = "insert" /\ MemberOf(t)' = m => t = s
    BY DEF LocksHold
  <2>1. MemberOf(s) = m
    OBVIOUS
  <2>2. Cardinality(ActiveOf(m)) < OrderLimit
    BY <2>1 DEF SessionsInv, LocksHold
  <2>3. ASSUME NEW t \in Submit, submit'[t].pc = "insert", MemberOf(t)' = m, t # s PROVE FALSE
    <3>1. MemberOf(t) = m
      BY <2>3
    <3>2. CASE submit[s].pc = "insert" /\ submit[t].pc = "insert"
      BY <2>1, <2>3, <3>1, <3>2 DEF SessionsInv, LocksHold
    <3>3. CASE submit[s].pc # "insert"
      <4>1. LockFree(m) /\ submit'[t] = submit[t]
        BY <2>1, <2>3, <3>3
      <4> QED BY <2>3, <3>1, <4>1 DEF LockFree
    <3>4. CASE submit[t].pc # "insert"
      <4>1. LockFree(m) /\ submit'[s] = submit[s]
        BY <2>3, <3>1, <3>4
      <4> QED BY <2>1, <4>1 DEF LockFree
    <3> QED BY <3>2, <3>3, <3>4
  <2> QED BY <1>1, <2>2, <2>3
<1> QED BY <1>1, <1>2, <1>3, <1>4 DEF SessionsInv, OrdersWithinLimits

\* Rows stay in every step but an INSERT: links leave owner, items and status
\* alone, and an UPDATE starts from a live status.
LEMMA RowsStayInSteps ==
  ASSUME IInv, [Next]_vars, \A s \in Submit : ~InsertOrder(s)
  PROVE  RowsStay
<1>1. order \in [Order -> Row]
  BY DEF IInv, TypeOK, OrdersTypeOK
<1>2. ASSUME order' = order PROVE RowsStay
  BY <1>2 DEF RowsStay
<1>3. ASSUME NEW f \in Flow, FlowStep(f) PROVE RowsStay
  <2>1. order' = order
    BY <1>3 DEF FlowStep, Trigger, Refuse, WithinLimits, OpenSession, ModalShown, EntryAges,
       ItemModal, PushItem, SessionExpires, ovars
  <2> QED BY <1>2, <2>1
<1>4. ASSUME NEW s \in Submit, SubmitStep(s) PROVE RowsStay
  <2>1. CASE LinkThread(s) \/ LinkStaffThread(s)
    <3>1. order' = order \/ \E linked : order' = [order EXCEPT ![submit[s].order] =
                                                 [order[submit[s].order] EXCEPT !.linked = linked]]
      BY <2>1 DEF LinkThread, LinkStaffThread
    <3>2. ASSUME NEW linked, NEW o \in Order,
                 order' = [order EXCEPT ![submit[s].order] =
                             [order[submit[s].order] EXCEPT !.linked = linked]]
          PROVE  /\ order'[o].owner = order[o].owner /\ order'[o].items = order[o].items
                 /\ order'[o].status = order[o].status
      BY <1>1, <3>2 DEF Row
    <3> QED BY <1>2, <3>1, <3>2 DEF RowsStay
  <2>2. CASE ~(LinkThread(s) \/ LinkStaffThread(s))
    <3>1. order' = order
      BY <1>4, <2>2 DEF SubmitStep, PressSubmit, SubmitFails, CountActive, CreateThread,
         ThreadFails, CreateStaffThread, NoStaffThread, ovars
    <3> QED BY <1>2, <3>1
  <2> QED BY <2>1, <2>2
<1>5. ASSUME NEW c \in Click, click[c].pc = "apply", StillAllowed(click[c]),
             order' = [order EXCEPT ![click[c].order].status = click[c].to]
      PROVE  RowsStay
  <2>1. click[c].order \in Order /\ click[c].to \in Status
    BY DEF IInv, TypeOK, OrdersTypeOK, Interaction
  <2>2. SoundClick(click[c]) /\ order[click[c].order].status \in click[c].from
    BY <1>5 DEF IInv, ClicksAreSound, StillAllowed
  <2>3. order[click[c].order].status \in Live
    BY <1>5, <2>2 DEF SoundClick, ValidTransition
  <2> QED BY <1>1, <1>5, <2>1, <2>3 DEF RowsStay, Row
<1>6. ASSUME NEW c \in Click, ApplyClick(c) PROVE RowsStay
  <2>1. CASE StillAllowed(click[c])
    <3>1. click[c].pc = "apply" /\ order' = [order EXCEPT ![click[c].order].status = click[c].to]
      BY <1>6, <2>1 DEF ApplyClick, Apply
    <3> QED BY <1>5, <2>1, <3>1
  <2>2. CASE ~StillAllowed(click[c])
    <3>1. order' = order
      BY <1>6, <2>2 DEF ApplyClick, Apply
    <3> QED BY <1>2, <3>1
  <2> QED BY <2>1, <2>2
<1>7. ASSUME NEW c \in Click, ClickStep(c) PROVE RowsStay
  <2>1. CASE ApplyThrows(c)
    <3>1. \/ order' = order
          \/ /\ click[c].pc = "apply" /\ StillAllowed(click[c])
             /\ order' = [order EXCEPT ![click[c].order].status = click[c].to]
      BY <2>1 DEF ApplyThrows
    <3> QED BY <1>2, <1>5, <3>1
  <2>2. CASE ~ApplyThrows(c)
    <3>1. order' = order
      BY <1>7, <2>2 DEF ClickStep, PressAdvance, PressStaffCancel, PressCancel, Press,
         ReadOrder, EditOwn, EditCounterpart
    <3> QED BY <1>2, <3>1
  <2> QED BY <2>1, <2>2
<1>8. CASE Restart \/ UNCHANGED vars
  <2>1. order' = order
    BY <1>8 DEF Restart, ClicksLost, vars, ovars
  <2> QED BY <1>2, <2>1
<1> QED BY <1>3, <1>4, <1>6, <1>7, <1>8 DEF Next

\* A call that does not start only goes on: it becomes no candidate for an order
\* that it was not.
GoesOn ==
  \A g \in Flow :
    /\ flow'[g].member = flow[g].member
    /\ flow'[g].items <= MaxItems /\ (flow[g].items > 0 => flow'[g].items > 0)
    /\ flow'[g].pc = flow[g].pc \/ flow[g].pc \in {"limits", "count"}
         \/ (flow[g].pc = "modal" /\ flow'[g].pc \in Opened)
    /\ flow'[g].pc \in {"limits", "count"} => flow[g].pc \in {"limits", "count"}
    /\ flow'[g].live => flow[g].live \/ flow[g].pc = "count"

\* The checks, the refusals, the modals and the expiry let a call go on.
LEMMA FlowStepsGoOn ==
  ASSUME TypeOK, SessionsInv, NEW f \in Flow, FlowStep(f), \A m \in Member : ~Trigger(f, m)
  PROVE  GoesOn
<1> USE SubmissionAssumption
<1>1. \A g \in Flow : flow[g].items \in Nat /\ flow[g].items <= MaxItems
  BY DEF TypeOK, Call, SessionsInv
<1>2. CASE Refuse(f)
  <2>1. /\ flow[f].pc \in {"limits", "count", "modal"} /\ flow'[f].pc = "ended"
        /\ \A g \in Flow \ {f} : flow'[g].pc = flow[g].pc
        /\ \A g \in Flow : /\ flow'[g].member = flow[g].member /\ flow'[g].live = flow[g].live
                           /\ flow'[g].items = flow[g].items
    BY <1>2, RefuseFacts
  <2> QED BY <1>1, <2>1 DEF GoesOn, Opened
<1>3. CASE WithinLimits(f)
  <2>1. /\ \A g \in Flow \ {f} : flow'[g] = flow[g]
        /\ flow'[f].member = flow[f].member /\ flow[f].pc = "limits" /\ flow'[f].pc = "count"
        /\ flow'[f].live = flow[f].live /\ flow'[f].items = flow[f].items
    BY <1>3, LimitsFacts
  <2> QED BY <1>1, <2>1 DEF GoesOn
<1>4. CASE OpenSession(f)
  <2>1. /\ \A g \in Flow \ {f} : flow'[g] = flow[g]
        /\ flow'[f].member = flow[f].member /\ flow[f].pc = "count" /\ flow'[f].pc = "modal"
        /\ flow'[f].items = flow[f].items
    BY <1>4, OpenFacts
  <2> QED BY <1>1, <2>1 DEF GoesOn
<1>7. CASE ModalShown(f)
  <2>1. /\ \A g \in Flow \ {f} : flow'[g] = flow[g]
        /\ flow'[f].member = flow[f].member /\ flow[f].pc = "modal" /\ flow'[f].pc = "shown"
        /\ flow'[f].live = flow[f].live /\ flow'[f].items = flow[f].items
    BY <1>7, ShownFacts
  <2> QED BY <1>1, <2>1 DEF GoesOn, Opened
<1>5. CASE ItemModal(f) \/ PushItem(f) \/ SessionExpires(f)
  <2>1. /\ \A g \in Flow \ {f} : flow'[g] = flow[g]
        /\ flow'[f].member = flow[f].member /\ flow'[f].pc = flow[f].pc
        /\ flow'[f].live => flow[f].live
        /\ \/ flow'[f].items = flow[f].items
           \/ flow[f].items < MaxItems /\ flow'[f].items = flow[f].items + 1
    BY <1>5, SessionFacts DEF HasRoom
  <2>2. (flow[f].items > 0 => flow'[f].items > 0) /\ flow'[f].items <= MaxItems
    BY <1>1, <2>1
  <2> QED BY <1>1, <2>1, <2>2 DEF GoesOn
<1>6. CASE EntryAges(f)
  BY <1>1, <1>6 DEF EntryAges, GoesOn
<1> QED BY <1>2, <1>3, <1>4, <1>5, <1>6, <1>7 DEF FlowStep

\* Where calls go on and submissions stay, so do the limits.
LEMMA GoingOnKeepsSessions ==
  ASSUME TypeOK, FlowsFit, SessionsInv, RowsStay, GoesOn, submit' = submit
  PROVE  SessionsInv'
<1>1. \A g \in Flow : flow[g].items \in Nat /\ flow'[g].member = flow[g].member
  BY DEF TypeOK, Call, GoesOn
<1>2. \A s \in Pressed : submit[s].session \in Flow
  BY DEF Pressed, TypeOK, Submission
<1>3. Pressed' = Pressed /\ Submitting' = Submitting
  BY DEF Pressed, Submitting
<1>4. ASSUME NEW s \in Pressed
      PROVE  /\ flow'[submit[s].session].pc \in Opened /\ ~flow'[submit[s].session].live
             /\ flow'[submit[s].session].items > 0
             /\ \A t \in Pressed : submit[t].session = submit[s].session => t = s
  <2> DEFINE g == submit[s].session
  <2>1. g \in Flow /\ flow[g].pc \in Opened /\ ~flow[g].live /\ flow[g].items > 0
    BY <1>2 DEF SessionsInv, SessionsAreTaken
  <2>2. flow'[g].pc \in Opened /\ ~flow'[g].live /\ flow'[g].items > 0
    BY <2>1 DEF GoesOn, Opened
  <2> QED BY <2>2 DEF SessionsInv, SessionsAreTaken
<1>5. SessionsAreTaken'
  BY <1>3, <1>4 DEF SessionsAreTaken
<1>6. \A m \in Member : Busy(m)' \subseteq Busy(m)
  BY <1>3 DEF Busy, FlowsOf, GoesOn
<1>7. \A s \in Submit : submit'[s].pc = "insert" => MemberOf(s)' = MemberOf(s)
  BY <1>1, <1>2 DEF Pressed, MemberOf
<1> QED BY <1>5, <1>6, <1>7, SessionsStay DEF GoesOn

\* A call that starts may become an order, and is one more of the member's calls.
LEMMA TriggerKeepsSessions ==
  ASSUME TypeOK, FlowsFit, SessionsInv, RowsStay, NEW f \in Flow, NEW m \in Member, Trigger(f, m)
  PROVE  SessionsInv'
<1> USE SubmissionAssumption
<1>1. /\ flow[f].pc = "idle" /\ flow[f].member = Null /\ m # Null
      /\ \A g \in Flow \ {f} : flow'[g] = flow[g]
      /\ flow'[f].pc = "limits" /\ flow'[f].member = m /\ ~flow'[f].live /\ flow'[f].items = 0
      /\ order' = order /\ submit' = submit
  <2>1. /\ flow[f].pc = "idle" /\ \A g \in Flow \ {f} : flow'[g] = flow[g]
        /\ flow'[f].pc = "limits" /\ flow'[f].member = m /\ ~flow'[f].live /\ flow'[f].items = 0
    BY TriggerFacts
  <2>2. order' = order /\ submit' = submit
    BY DEF Trigger, ovars
  <2> QED BY <2>1, <2>2, OrdersAssumption DEF FlowsFit
<1>2. ~flow[f].live
  BY <1>1 DEF FlowsFit
<1>3. /\ \A s \in Pressed : submit[s].session \in Flow \ {f}
      /\ Pressed' = Pressed /\ Submitting' = Submitting /\ Submitting \subseteq Pressed
  <2>1. ASSUME NEW s \in Pressed PROVE submit[s].session \in Flow \ {f}
    <3>1. submit[s].session \in Flow
      BY DEF Pressed, TypeOK, Submission
    <3>2. flow[submit[s].session].pc # "idle"
      BY DEF SessionsInv, SessionsAreTaken, Opened
    <3> QED BY <1>1, <3>1, <3>2
  <2> QED BY <1>1, <2>1 DEF Submitting, Pressed
<1>4. SessionsAreTaken'
  BY <1>1, <1>3 DEF SessionsInv, SessionsAreTaken
<1>5. /\ \A o \in Order : order'[o].status = "absent" => order'[o].owner = Null
      /\ OrdersWithinLimits'
      /\ \A n \in Member : OrdersOf(n)' = OrdersOf(n) /\ ActiveOf(n)' = ActiveOf(n)
  BY <1>1 DEF SessionsInv, OrdersWithinLimits, ActiveOrdersHold, OrderSizesHold, OrdersOf, ActiveOf
<1>6. CountsAgree'
  <2> SUFFICES ASSUME NEW n \in Member
               PROVE  Cardinality(OrdersOf(n)') + Cardinality(Busy(n)') <= Cardinality(FlowsOf(n)')
    BY DEF CountsAgree
  <2>1. Cardinality(OrdersOf(n)) + Cardinality(Busy(n)) <= Cardinality(FlowsOf(n))
    BY DEF SessionsInv, CountsAgree
  <2>2. FlowsOf(n) \subseteq Flow /\ Busy(n) \subseteq Flow /\ OrdersOf(n) \subseteq Order
        /\ f \notin FlowsOf(n) /\ f \notin Busy(n)
    BY <1>1, OrdersAssumption DEF FlowsOf, Busy, OrdersOf
  <2>3. /\ Cardinality(Busy(n)) \in Nat /\ IsFiniteSet(Busy(n)) /\ Cardinality(OrdersOf(n)) \in Nat
        /\ Cardinality(FlowsOf(n)) \in Nat /\ IsFiniteSet(FlowsOf(n))
    BY <2>2, Counted
  <2>4. CASE n = m
    <3>1. FlowsOf(n)' = FlowsOf(n) \cup {f}
      BY <1>1, <2>4 DEF FlowsOf
    <3>2. Busy(n)' = Busy(n) \cup {f}
      <4>1. ASSUME NEW g \in Flow \ {f} PROVE g \in Busy(n)' <=> g \in Busy(n)
        BY <1>1, <1>3 DEF Busy, FlowsOf
      <4>2. f \in Busy(n)'
        BY <1>1, <2>4 DEF Busy, FlowsOf
      <4>3. Busy(n)' \subseteq Flow
        BY DEF Busy, FlowsOf
      <4> QED BY <2>2, <4>1, <4>2, <4>3
    <3>3. /\ Cardinality(FlowsOf(n)') = Cardinality(FlowsOf(n)) + 1
          /\ Cardinality(Busy(n)') = Cardinality(Busy(n)) + 1
      BY <2>2, <2>3, <3>1, <3>2, FS_AddElement
    <3> QED BY <1>5, <2>1, <2>3, <3>3
  <2>5. CASE n # m
    <3>1. FlowsOf(n)' = FlowsOf(n)
      BY <1>1, <2>5, OrdersAssumption DEF FlowsOf
    <3>2. Busy(n)' = Busy(n)
      <4>1. ASSUME NEW g \in Flow \ {f} PROVE g \in Busy(n)' <=> g \in Busy(n)
        BY <1>1, <1>3 DEF Busy, FlowsOf
      <4>2. f \notin Busy(n)'
        BY <1>1, <2>5 DEF Busy, FlowsOf
      <4>3. Busy(n)' \subseteq Flow
        BY DEF Busy, FlowsOf
      <4> QED BY <2>2, <4>1, <4>2, <4>3
    <3> QED BY <1>5, <2>1, <3>1, <3>2
  <2> QED BY <2>4, <2>5
<1>7. LocksHold'
  <2>1. \A s \in Submit : submit'[s].pc = "insert" => MemberOf(s)' = MemberOf(s)
    BY <1>1, <1>3 DEF Pressed, MemberOf
  <2> QED BY <1>1, <1>5, <2>1 DEF SessionsInv, LocksHold
<1>8. \A g \in Flow : flow'[g].items <= MaxItems
  BY <1>1 DEF SessionsInv
<1> QED BY <1>4, <1>5, <1>6, <1>7, <1>8 DEF SessionsInv

\* Pressing Submit Order takes a session that no submission has.
LEMMA PressKeepsSessions ==
  ASSUME TypeOK, FlowsFit, SessionsInv, RowsStay, NEW s \in Submit, NEW f \in Flow, PressSubmit(s, f)
  PROVE  SessionsInv'
<1>1. /\ \A g \in Flow \ {f} : flow'[g] = flow[g]
      /\ flow'[f].member = flow[f].member /\ flow'[f].pc = flow[f].pc
      /\ flow'[f].items = flow[f].items /\ flow[f].items > 0
      /\ flow[f].live /\ ~flow'[f].live
      /\ submit[s].pc = "idle" /\ submit'[s].pc = "config" /\ submit'[s].session = f
      /\ \A t \in Submit \ {s} : submit'[t] = submit[t]
  BY TakeFacts
<1>2. flow[f].pc \in Opened
  BY <1>1 DEF FlowsFit, Opened
<1>3. /\ s \notin Pressed /\ Pressed' = Pressed \cup {s}
      /\ s \notin Submitting /\ Submitting' = Submitting \cup {s} /\ Submitting \subseteq Pressed
  BY <1>1 DEF Pressed, Submitting
<1>4. \A t \in Pressed : submit[t].session \in Flow \ {f} /\ submit'[t] = submit[t]
  <2>1. ASSUME NEW t \in Pressed PROVE submit[t].session \in Flow \ {f}
    <3>1. submit[t].session \in Flow
      BY DEF Pressed, TypeOK, Submission
    <3>2. ~flow[submit[t].session].live
      BY DEF SessionsInv, SessionsAreTaken
    <3> QED BY <1>1, <3>1, <3>2
  <2> QED BY <1>1, <1>3, <2>1 DEF Pressed
<1>5. SessionsAreTaken'
  <2> SUFFICES ASSUME NEW t \in Pressed'
               PROVE  /\ flow'[submit'[t].session].pc \in Opened /\ ~flow'[submit'[t].session].live
                      /\ flow'[submit'[t].session].items > 0
                      /\ \A u \in Pressed' : submit'[u].session = submit'[t].session => u = t
    BY DEF SessionsAreTaken
  <2>1. CASE t = s
    BY <1>1, <1>2, <1>3, <1>4, <2>1
  <2>2. CASE t # s
    <3>1. t \in Pressed
      BY <1>3, <2>2
    <3> QED BY <1>1, <1>3, <1>4, <3>1 DEF SessionsInv, SessionsAreTaken
  <2> QED BY <2>1, <2>2
<1>6. \A m \in Member : Busy(m)' \subseteq Busy(m)
  <2> SUFFICES ASSUME NEW m \in Member, NEW g \in Busy(m)' PROVE g \in Busy(m)
    OBVIOUS
  <2>1. CASE g = f
    BY <1>1, <2>1 DEF Busy, FlowsOf
  <2>2. CASE g # f
    <3>1. g \in Flow /\ flow'[g] = flow[g] /\ g \in FlowsOf(m)
      BY <1>1, <2>2 DEF Busy, FlowsOf
    <3>2. CASE \E t \in Submitting' : submit'[t].session = g
      <4>1. PICK t \in Submitting' : submit'[t].session = g
        BY <3>2
      <4>2. t \in Submitting /\ submit[t].session = g
        BY <1>1, <1>3, <1>4, <2>2, <4>1
      <4> QED BY <3>1, <4>2 DEF Busy
    <3>3. CASE ~\E t \in Submitting' : submit'[t].session = g
      BY <3>1, <3>3 DEF Busy
    <3> QED BY <3>2, <3>3
  <2> QED BY <2>1, <2>2
<1>7. \A t \in Submit : submit'[t].pc = "insert" => MemberOf(t)' = MemberOf(t) /\ submit[t].pc = "insert"
  BY <1>1, <1>4 DEF Pressed, MemberOf
<1>8. \A g \in Flow : flow'[g].member = flow[g].member /\ flow'[g].items <= MaxItems
  BY <1>1 DEF SessionsInv
<1> QED BY <1>5, <1>6, <1>7, <1>8, SessionsStay

\* Where calls stay and submissions take nothing, the limits stay.
LEMMA SubmissionsKeepSessions ==
  ASSUME TypeOK, SessionsInv, RowsStay, flow' = flow, NEW s \in Submit,
         \A t \in Submit \ {s} : submit'[t] = submit[t],
         submit'[s].pc \in {"config", "insert"} =>
           submit[s].pc \in {"config", "insert"},
         submit'[s].pc # "idle" =>
           submit[s].pc # "idle" /\ submit'[s].session = submit[s].session,
         submit'[s].pc = "insert" =>
           LockFree(MemberOf(s)) /\ Cardinality(ActiveOf(MemberOf(s))) < OrderLimit
  PROVE  SessionsInv'
<1>1. /\ Submitting' \subseteq Submitting /\ Submitting' \subseteq Pressed'
      /\ Pressed' \subseteq Pressed
      /\ \A t \in Pressed' : submit'[t].session = submit[t].session
  BY DEF Submitting, Pressed
<1>2. SessionsAreTaken'
  BY <1>1 DEF SessionsInv, SessionsAreTaken
<1>3. \A m \in Member : Busy(m)' \subseteq Busy(m)
  BY <1>1 DEF Busy, FlowsOf
<1>4. \A t \in Submit : submit'[t].pc = "insert" => MemberOf(t)' = MemberOf(t)
  BY <1>1 DEF MemberOf, Pressed
<1>5. \A g \in Flow : flow'[g].member = flow[g].member /\ flow'[g].items <= MaxItems
  BY DEF SessionsInv
<1>6. \A t \in Submit : submit'[t].pc = "insert" =>
        \/ submit[t].pc = "insert"
        \/ /\ LockFree(MemberOf(t))
           /\ \A u \in Submit \ {t} : submit'[u] = submit[u]
           /\ Cardinality(ActiveOf(MemberOf(t))) < OrderLimit
  OBVIOUS
<1> QED BY <1>2, <1>3, <1>4, <1>5, <1>6, SessionsStay

\* What an INSERT does: an absent row gets the member and the items of the session.
LEMMA InsertFacts ==
  ASSUME TypeOK, NEW s \in Submit, InsertOrder(s)
  PROVE  \E o \in Order :
           /\ order[o].status = "absent"
           /\ \A p \in Order \ {o} : order'[p] = order[p]
           /\ order'[o].status = "new" /\ order'[o].owner = MemberOf(s)
           /\ order'[o].items = flow[submit[s].session].items
           /\ submit[s].pc = "insert" /\ submit'[s].pc = "thread" /\ submit'[s].order = o
           /\ order'[o].linked = {} /\ submit'[s].session = submit[s].session
           /\ \A t \in Submit \ {s} : submit'[t] = submit[t]
<1>1. PICK o \in Order :
        /\ order[o].status = "absent"
        /\ order' = [order EXCEPT ![o] =
             [status |-> "new", owner |-> MemberOf(s),
              items |-> flow[submit[s].session].items, linked |-> {}]]
        /\ submit' = [submit EXCEPT ![s].pc = "thread", ![s].order = o]
  BY DEF InsertOrder
<1> DEFINE r == [status |-> "new", owner |-> MemberOf(s),
                 items |-> flow[submit[s].session].items, linked |-> {}]
           u == [submit[s] EXCEPT !.pc = "thread", !.order = o]
<1>2. order' = [order EXCEPT ![o] = r] /\ submit' = [submit EXCEPT ![s] = u]
  BY <1>1
<1>3. r.status = "new" /\ r.owner = MemberOf(s) /\ r.items = flow[submit[s].session].items
      /\ r.linked = {}
  OBVIOUS
<1>4. u.pc = "thread" /\ u.order = o /\ u.session = submit[s].session
  BY DEF TypeOK, Submission
<1>5. order \in [Order -> Row] /\ submit \in [Submit -> Submission]
  BY DEF TypeOK, OrdersTypeOK
<1>6. submit[s].pc = "insert"
  BY DEF InsertOrder
<1> HIDE DEF r, u
<1> QED BY <1>1, <1>2, <1>3, <1>4, <1>5, <1>6

\* The INSERT makes an order of a session, which makes no other.
LEMMA InsertKeepsSessions ==
  ASSUME TypeOK, FlowsFit, SessionsInv, NEW s \in Submit, InsertOrder(s)
  PROVE  SessionsInv'
<1> USE SubmissionAssumption
<1>1. PICK o \in Order :
           /\ order[o].status = "absent"
           /\ \A p \in Order \ {o} : order'[p] = order[p]
           /\ order'[o].status = "new" /\ order'[o].owner = MemberOf(s)
           /\ order'[o].items = flow[submit[s].session].items
           /\ submit[s].pc = "insert" /\ submit'[s].pc = "thread"
           /\ submit'[s].session = submit[s].session
           /\ \A t \in Submit \ {s} : submit'[t] = submit[t]
  BY InsertFacts
<1>2. flow' = flow
  BY DEF InsertOrder
<1> DEFINE f == submit[s].session
           m == MemberOf(s)
<1>3. /\ s \in Submitting /\ f \in Flow /\ flow[f].pc \in Opened /\ ~flow[f].live
      /\ flow[f].items \in Nat /\ flow[f].items > 0 /\ flow[f].items <= MaxItems
      /\ \A t \in Submitting : submit[t].session = f => t = s
  <2>1. s \in Submitting /\ s \in Pressed /\ f \in Flow /\ Submitting \subseteq Pressed
    BY <1>1 DEF Submitting, Pressed, TypeOK, Submission
  <2> QED BY <2>1 DEF SessionsInv, SessionsAreTaken, TypeOK, Call
<1>4. m \in Member /\ m # Null /\ flow[f].member = m
  BY <1>3, OrdersAssumption DEF FlowsFit, MemberOf, Opened
<1>5. order[o].owner = Null
  BY <1>1 DEF SessionsInv
<1>6. Submitting' = Submitting \ {s} /\ \A t \in Submitting' : submit'[t] = submit[t]
  BY <1>1 DEF Submitting
<1>7. SessionsAreTaken'
  <2>1. Pressed' = Pressed /\ \A t \in Pressed : submit'[t].session = submit[t].session
    BY <1>1 DEF Pressed
  <2> QED BY <1>2, <2>1 DEF SessionsInv, SessionsAreTaken
<1>8. /\ \A p \in Order : order'[p].status = "absent" => order'[p].owner = Null
      /\ OrderSizesHold'
  <2>1. order'[o].items \in 1..MaxItems
    BY <1>1, <1>3
  <2> QED BY <1>1, <2>1 DEF SessionsInv, OrdersWithinLimits, OrderSizesHold
<1>9. ASSUME NEW n \in Member, n # m
      PROVE  OrdersOf(n)' = OrdersOf(n) /\ ActiveOf(n)' = ActiveOf(n) /\ Busy(n)' = Busy(n)
  <2>1. \A p \in Order : order'[p].owner = n <=> order[p].owner = n
    BY <1>1, <1>5, <1>9, OrdersAssumption
  <2>2. \A p \in Order : order'[p].owner = n => order'[p] = order[p]
    BY <1>1, <1>9
  <2>3. ASSUME NEW g \in FlowsOf(n) PROVE g # f
    BY <1>4, <1>9 DEF FlowsOf
  <2>4. \A g \in FlowsOf(n) : (\E t \in Submitting' : submit'[t].session = g)
                               <=> (\E t \in Submitting : submit[t].session = g)
    BY <1>6, <2>3
  <2>5. FlowsOf(n)' = FlowsOf(n)
    BY <1>2 DEF FlowsOf
  <2>6. Busy(n)' = Busy(n)
    BY <1>2, <2>4, <2>5 DEF Busy
  <2> QED BY <2>1, <2>2, <2>6 DEF OrdersOf, ActiveOf
<1>10. /\ OrdersOf(m) \subseteq Order /\ ActiveOf(m) \subseteq Order /\ Busy(m) \subseteq Flow
       /\ FlowsOf(m) \subseteq Flow
       /\ o \notin OrdersOf(m) /\ o \notin ActiveOf(m) /\ f \in Busy(m)
  BY <1>3, <1>4, <1>5 DEF OrdersOf, ActiveOf, Busy, FlowsOf
<1> HIDE DEF f, m
<1>11. ASSUME NEW n, n = m
       PROVE  /\ OrdersOf(n)' = OrdersOf(m) \cup {o} /\ ActiveOf(n)' = ActiveOf(m) \cup {o}
              /\ Busy(n)' = Busy(m) \ {f}
  <2>1. order'[o].owner = n /\ order'[o].status \in Live
    BY <1>1, <1>11 DEF m, Live, Status, Terminal
  <2>2. OrdersOf(n)' = OrdersOf(m) \cup {o}
    BY <1>1, <1>11, <2>1 DEF OrdersOf
  <2>3. ActiveOf(n)' = ActiveOf(m) \cup {o}
    BY <1>1, <1>11, <2>1 DEF ActiveOf
  <2>4. ASSUME NEW g \in FlowsOf(n)
        PROVE  (\E t \in Submitting' : submit'[t].session = g)
                 <=> (\E t \in Submitting : submit[t].session = g) /\ g # f
    <3>1. CASE g = f
      BY <1>3, <1>6, <3>1 DEF f
    <3>2. CASE g # f
      BY <1>6, <3>2 DEF f
    <3> QED BY <3>1, <3>2
  <2>5. FlowsOf(n)' = FlowsOf(n)
    BY <1>2 DEF FlowsOf
  <2>6. f \notin Busy(n)'
    <3>1. f \in FlowsOf(n) => ~\E t \in Submitting' : submit'[t].session = f
      BY <2>4
    <3>2. ~flow'[f].live /\ flow'[f].pc \notin {"limits", "count"}
      BY <1>2, <1>3 DEF Opened
    <3> QED BY <2>5, <3>1, <3>2 DEF Busy
  <2>7. ASSUME NEW g \in FlowsOf(n), g # f PROVE g \in Busy(n)' <=> g \in Busy(n)
    BY <1>2, <2>4, <2>5, <2>7 DEF Busy
  <2>8. Busy(n)' \subseteq FlowsOf(n) /\ Busy(n) \subseteq FlowsOf(n)
    BY <2>5 DEF Busy
  <2> QED BY <1>11, <2>2, <2>3, <2>6, <2>7, <2>8
<1>12. /\ Cardinality(OrdersOf(m) \cup {o}) = Cardinality(OrdersOf(m)) + 1
       /\ Cardinality(ActiveOf(m) \cup {o}) = Cardinality(ActiveOf(m)) + 1
       /\ Cardinality(Busy(m) \ {f}) = Cardinality(Busy(m)) - 1
       /\ Cardinality(OrdersOf(m)) \in Nat /\ Cardinality(ActiveOf(m)) \in Nat
       /\ Cardinality(Busy(m)) \in Nat /\ Cardinality(FlowsOf(m)) \in Nat
  <2>1. /\ IsFiniteSet(OrdersOf(m)) /\ IsFiniteSet(ActiveOf(m)) /\ IsFiniteSet(Busy(m))
        /\ Cardinality(OrdersOf(m)) \in Nat /\ Cardinality(ActiveOf(m)) \in Nat
        /\ Cardinality(Busy(m)) \in Nat /\ Cardinality(FlowsOf(m)) \in Nat
    BY <1>10, Counted
  <2>2. Cardinality(OrdersOf(m) \cup {o}) = Cardinality(OrdersOf(m)) + 1
    BY <1>10, <2>1, FS_AddElement
  <2>3. Cardinality(ActiveOf(m) \cup {o}) = Cardinality(ActiveOf(m)) + 1
    BY <1>10, <2>1, FS_AddElement
  <2>4. Cardinality(Busy(m) \ {f}) = Cardinality(Busy(m)) - 1
    BY <1>10, <2>1, FS_RemoveElement
  <2> QED BY <2>1, <2>2, <2>3, <2>4
<1>13. CountsAgree'
  <2> SUFFICES ASSUME NEW n \in Member
               PROVE  Cardinality(OrdersOf(n)') + Cardinality(Busy(n)') <= Cardinality(FlowsOf(n)')
    BY DEF CountsAgree
  <2>1. FlowsOf(n)' = FlowsOf(n)
    BY <1>2 DEF FlowsOf
  <2>2. Cardinality(OrdersOf(n)) + Cardinality(Busy(n)) <= Cardinality(FlowsOf(n))
    BY DEF SessionsInv, CountsAgree
  <2>3. CASE n # m
    BY <1>9, <2>1, <2>2, <2>3
  <2>4. CASE n = m
    <3>1. Cardinality(OrdersOf(n)') = Cardinality(OrdersOf(m)) + 1
          /\ Cardinality(Busy(n)') = Cardinality(Busy(m)) - 1
          /\ Cardinality(FlowsOf(n)') = Cardinality(FlowsOf(m))
      BY <1>11, <1>12, <2>1, <2>4
    <3>2. Cardinality(OrdersOf(m)) + Cardinality(Busy(m)) <= Cardinality(FlowsOf(m))
      BY <2>2, <2>4
    <3> QED BY <1>12, <3>1, <3>2
  <2> QED BY <2>3, <2>4
<1>14. Cardinality(ActiveOf(m)) < OrderLimit
  BY <1>1, <1>4 DEF SessionsInv, LocksHold, m
<1>15. ActiveOrdersHold'
  <2> SUFFICES ASSUME NEW n \in Member PROVE Cardinality(ActiveOf(n)') <= OrderLimit
    BY DEF ActiveOrdersHold
  <2>1. CASE n # m
    BY <1>9, <2>1 DEF SessionsInv, OrdersWithinLimits, ActiveOrdersHold
  <2>2. CASE n = m
    <3>1. Cardinality(ActiveOf(n)') = Cardinality(ActiveOf(m)) + 1
      BY <1>11, <1>12, <2>2
    <3> QED BY <1>12, <1>14, <3>1
  <2> QED BY <2>1, <2>2
<1>16. LocksHold'
  <2> SUFFICES ASSUME NEW n \in Member, NEW t \in Submit, submit'[t].pc = "insert", MemberOf(t)' = n
               PROVE  /\ Cardinality(ActiveOf(n)') < OrderLimit
                      /\ \A u \in Submit : submit'[u].pc = "insert" /\ MemberOf(u)' = n => u = t
    BY DEF LocksHold
  <2>1. ASSUME NEW u \in Submit, submit'[u].pc = "insert"
        PROVE  u # s /\ submit[u].pc = "insert" /\ MemberOf(u)' = MemberOf(u)
    BY <1>1, <1>2, <2>1 DEF MemberOf
  <2>2. t # s /\ submit[t].pc = "insert" /\ MemberOf(t) = n
    BY <2>1
  <2>3. n # m
    BY <1>1, <1>4, <2>2 DEF SessionsInv, LocksHold, m
  <2>4. Cardinality(ActiveOf(n)') < OrderLimit
    BY <1>9, <2>2, <2>3 DEF SessionsInv, LocksHold
  <2> QED BY <2>1, <2>2, <2>4 DEF SessionsInv, LocksHold
<1>17. \A g \in Flow : flow'[g].items <= MaxItems
  BY <1>2 DEF SessionsInv
<1> QED BY <1>7, <1>8, <1>13, <1>15, <1>16, <1>17 DEF SessionsInv, OrdersWithinLimits

\* Every step of a submission but the press and the INSERT leaves its session,
\* and reaches the INSERT only past the count under the lock.
LEMMA SubmitStepsKeepSessions ==
  ASSUME IInv, FlowsFit, SessionsInv, [Next]_vars, NEW s \in Submit, SubmitStep(s)
  PROVE  SessionsInv'
<1>1. CASE InsertOrder(s)
  BY <1>1, InsertKeepsSessions DEF IInv
<1>2. CASE ~InsertOrder(s)
  <2>1. RowsStay
    <3>1. ASSUME order' = order PROVE RowsStay
      BY <3>1 DEF RowsStay
    <3>2. CASE \A t \in Submit : ~InsertOrder(t)
      BY <3>2, RowsStayInSteps
    <3>3. ASSUME NEW t \in Submit, InsertOrder(t), t # s PROVE FALSE
      <4>1. submit[t].pc = "insert" /\ submit'[t].pc = "thread"
        BY <3>3, InsertFacts DEF IInv
      <4>2. submit'[t] = submit[t]
        BY <1>2, <3>3 DEF SubmitStep, PressSubmit, SubmitFails, CountActive, CreateThread,
           ThreadFails, LinkThread, CreateStaffThread, NoStaffThread, LinkStaffThread, At,
           IInv, TypeOK
      <4> QED BY <4>1, <4>2
    <3> QED BY <1>2, <3>2, <3>3
  <2>2. ASSUME NEW f \in Flow, PressSubmit(s, f) PROVE SessionsInv'
    BY <2>1, <2>2, PressKeepsSessions DEF IInv
  <2>3. CASE \A f \in Flow : ~PressSubmit(s, f)
    <3>1. flow' = flow
      BY <1>2, <2>3 DEF SubmitStep, SubmitFails, CountActive, CreateThread,
         ThreadFails, LinkThread, CreateStaffThread, NoStaffThread, LinkStaffThread
    <3>2. submit \in [Submit -> Submission]
      BY DEF IInv, TypeOK
    <3>3. \A t \in Submit \ {s} : submit'[t] = submit[t]
      BY <1>2, <2>3, <3>2 DEF SubmitStep, SubmitFails, CountActive, CreateThread,
         ThreadFails, LinkThread, CreateStaffThread, NoStaffThread, LinkStaffThread, At
    <3>4. CASE CountActive(s)
      <4>1. /\ submit[s].pc = "config" /\ submit'[s].session = submit[s].session
            /\ LockFree(MemberOf(s)) /\ Cardinality(ActiveOf(MemberOf(s))) < OrderLimit
        BY <3>2, <3>4 DEF CountActive, At, Submission
      <4> QED BY <2>1, <3>1, <3>3, <4>1, SubmissionsKeepSessions DEF IInv
    <3>5. CASE ~CountActive(s)
      <4>1. IdleSubmit.pc = "idle"
        BY DEF IdleSubmit
      <4>2. /\ submit'[s].pc \notin {"config", "insert"}
            /\ submit'[s].pc # "idle" =>
                 submit[s].pc # "idle" /\ submit'[s].session = submit[s].session
        BY <1>2, <2>3, <3>2, <3>5, <4>1 DEF SubmitStep, SubmitFails, CreateThread,
           ThreadFails, LinkThread, CreateStaffThread, NoStaffThread, LinkStaffThread, At, Submission
      <4> QED BY <2>1, <3>1, <3>3, <4>2, SubmissionsKeepSessions DEF IInv
    <3> QED BY <3>4, <3>5
  <2> QED BY <2>2, <2>3
<1> QED BY <1>1, <1>2

\* A restart drops the sessions with their submissions; what they inserted stays.
LEMMA RestartKeepsSessions ==
  ASSUME IInv, FlowsFit, SessionsInv, RowsStay, Restart
  PROVE  SessionsInv'
<1>1. \A s \in Submit : submit'[s].pc = "idle"
  BY DEF Restart, IdleSubmit
<1>2. Pressed' = {} /\ Submitting' = {}
  BY <1>1 DEF Pressed, Submitting
<1>3. ASSUME NEW g \in Flow
      PROVE  /\ flow'[g].member = flow[g].member /\ flow'[g].items <= MaxItems
             /\ ~flow'[g].live /\ flow'[g].pc \in {"idle", "ended"}
  <2>1. CASE flow[g].pc = "idle"
    <3>1. flow'[g] = IdleCall /\ flow[g].member = Null
      BY <2>1 DEF Restart, FlowsFit
    <3> QED BY <3>1, SubmissionAssumption DEF IdleCall
  <2>2. CASE flow[g].pc # "idle"
    <3>1. flow'[g] = [IdleCall EXCEPT !.pc = "ended", !.member = flow[g].member]
      BY <2>2 DEF Restart
    <3> QED BY <3>1, SubmissionAssumption DEF IdleCall
  <2> QED BY <2>1, <2>2
<1>4. SessionsAreTaken'
  BY <1>2 DEF SessionsAreTaken
<1>5. \A m \in Member : Busy(m)' = {}
  BY <1>2, <1>3 DEF Busy, FlowsOf
<1> QED BY <1>1, <1>3, <1>4, <1>5, SessionsStay

\* Every step keeps the limits.
LEMMA SessionsKept ==
  ASSUME IInv, FlowsFit, SessionsInv, [Next]_vars
  PROVE  SessionsInv'
<1>1. ASSUME NEW s \in Submit, SubmitStep(s) PROVE SessionsInv'
  BY <1>1, SubmitStepsKeepSessions
<1>2. CASE \A s \in Submit : ~SubmitStep(s)
  <2>1. RowsStay
    <3>1. \A s \in Submit : ~InsertOrder(s)
      BY <1>2 DEF SubmitStep
    <3> QED BY <3>1, RowsStayInSteps
  <2>2. ASSUME NEW f \in Flow, NEW m \in Member, Trigger(f, m) PROVE SessionsInv'
    BY <2>1, <2>2, TriggerKeepsSessions DEF IInv
  <2>3. ASSUME NEW f \in Flow, FlowStep(f), \A m \in Member : ~Trigger(f, m) PROVE SessionsInv'
    <3>1. GoesOn
      BY <2>3, FlowStepsGoOn DEF IInv
    <3>2. submit' = submit
      BY <2>3 DEF FlowStep, Refuse, WithinLimits, OpenSession, ModalShown, EntryAges,
         ItemModal, PushItem, SessionExpires
    <3> QED BY <2>1, <3>1, <3>2, GoingOnKeepsSessions DEF IInv
  <2>4. CASE Restart
    BY <2>1, <2>4, RestartKeepsSessions
  <2>5. ASSUME flow' = flow, submit' = submit PROVE SessionsInv'
    <3>1. GoesOn
      BY <2>5 DEF GoesOn, SessionsInv
    <3> QED BY <2>1, <2>5, <3>1, GoingOnKeepsSessions DEF IInv
  <2>6. ASSUME NEW c \in Click, (ClickStep(c) /\ UNCHANGED svars) \/ ApplyClick(c) PROVE SessionsInv'
    <3>1. flow' = flow /\ submit' = submit
      BY <2>6 DEF ApplyClick, svars
    <3> QED BY <2>5, <3>1
  <2>7. CASE UNCHANGED vars
    <3>1. flow' = flow /\ submit' = submit
      BY <2>7 DEF vars, svars
    <3> QED BY <2>5, <3>1
  <2> QED BY <1>2, <2>2, <2>3, <2>4, <2>6, <2>7 DEF Next
<1> QED BY <1>1, <1>2

\* Nobody has a session or an order yet.
LEMMA SessionsStart == Init => SessionsInv
<1> SUFFICES ASSUME Init PROVE SessionsInv
  OBVIOUS
<1> USE SubmissionAssumption
<1>1. \A o \in Order : order[o].status = "absent" /\ order[o].owner = Null
  BY DEF Init, OrdersInit, AbsentOrder
<1>2. \A f \in Flow : flow[f].items = 0 /\ ~flow[f].live /\ flow[f].pc = "idle"
                      /\ flow[f].member = Null
  BY DEF Init, IdleCall
<1>3. \A s \in Submit : submit[s].pc = "idle"
  BY DEF Init, IdleSubmit
<1>4. Pressed = {} /\ Submitting = {}
  BY <1>3 DEF Pressed, Submitting
<1>5. ASSUME NEW m \in Member
      PROVE  OrdersOf(m) = {} /\ FlowsOf(m) = {} /\ Busy(m) = {} /\ ActiveOf(m) = {}
  BY <1>1, <1>2, OrdersAssumption DEF OrdersOf, FlowsOf, Busy, ActiveOf
<1>6. CountsAgree /\ ActiveOrdersHold
  BY <1>5, FS_EmptySet DEF CountsAgree, ActiveOrdersHold
<1>7. SessionsAreTaken /\ LocksHold /\ OrderSizesHold
  BY <1>1, <1>3, <1>4 DEF SessionsAreTaken, LocksHold, OrderSizesHold
<1> QED BY <1>1, <1>2, <1>6, <1>7 DEF SessionsInv, OrdersWithinLimits

\* The limits hold in every behaviour.
LEMMA SessionsHold == Spec => []SessionsInv
<1>1. SlotsInv => FlowsFit
  BY DEF SlotsInv
<1> QED BY <1>1, SessionsStart, SessionsKept, Inductive, SlotsHold, PTL DEF Spec

\* No member has more active orders than the limit, no order more items or none.
THEOREM OrdersAreLimited == Spec => []OrdersWithinLimits
<1>1. SessionsInv => OrdersWithinLimits
  BY DEF SessionsInv
<1> QED BY <1>1, SessionsHold, PTL

\* No two presses under way share a session, and every order has used one up.
THEOREM SessionsMakeOneOrder == Spec => []OneOrderPerSession
<1>1. ASSUME TypeOK, FlowsFit, SessionsInv PROVE OneOrderPerSession
  <2> DEFINE Used(m) == {f \in Flow : /\ flow[f].member = m /\ ~flow[f].live
                                      /\ flow[f].pc \in {"modal", "shown", "ended"}}
  <2>1. ASSUME NEW s \in Submit, NEW t \in Submit, submit[s].pc # "idle", submit[t].pc # "idle",
               submit[s].session = submit[t].session
        PROVE  s = t
    BY <1>1, <2>1 DEF SessionsInv, SessionsAreTaken, Pressed
  <2>2. ASSUME NEW m \in Member PROVE Cardinality(OrdersOf(m)) <= Cardinality(Used(m))
    <3>1. Cardinality(OrdersOf(m)) + Cardinality(Busy(m)) <= Cardinality(FlowsOf(m))
      BY <1>1 DEF SessionsInv, CountsAgree
    <3>2. /\ OrdersOf(m) \subseteq Order /\ Busy(m) \subseteq FlowsOf(m) /\ FlowsOf(m) \subseteq Flow
          /\ Used(m) \subseteq Flow
      BY DEF OrdersOf, Busy, FlowsOf
    <3>3. FlowsOf(m) \ Busy(m) \subseteq Used(m)
      <4> SUFFICES ASSUME NEW f \in FlowsOf(m), f \notin Busy(m) PROVE f \in Used(m)
        OBVIOUS
      <4>1. f \in Flow /\ flow[f].member = m /\ m # Null
        BY OrdersAssumption DEF FlowsOf
      <4>2. ~flow[f].live /\ flow[f].pc \notin {"limits", "count"}
        BY DEF Busy
      <4>3. flow[f].pc # "idle"
        BY <1>1, <4>1 DEF FlowsFit
      <4> QED BY <1>1, <4>1, <4>2, <4>3 DEF TypeOK, Call
    <3>4. /\ IsFiniteSet(FlowsOf(m)) /\ IsFiniteSet(Busy(m)) /\ IsFiniteSet(Used(m))
          /\ Cardinality(OrdersOf(m)) \in Nat /\ Cardinality(Busy(m)) \in Nat
          /\ Cardinality(FlowsOf(m)) \in Nat /\ Cardinality(Used(m)) \in Nat
          /\ Cardinality(FlowsOf(m) \ Busy(m)) \in Nat
      BY <3>2, Counted
    <3>5. FlowsOf(m) \cap Busy(m) = Busy(m)
      BY <3>2
    <3>6. Cardinality(FlowsOf(m) \ Busy(m)) = Cardinality(FlowsOf(m)) - Cardinality(Busy(m))
      BY <3>4, <3>5, FS_Difference
    <3>7. Cardinality(FlowsOf(m) \ Busy(m)) <= Cardinality(Used(m))
      BY <3>3, <3>4, FS_Subset
    <3>8. Cardinality(OrdersOf(m)) <= Cardinality(FlowsOf(m) \ Busy(m))
      BY <3>1, <3>4, <3>6
    <3> QED BY <3>4, <3>7, <3>8
  <2> QED BY <2>1, <2>2 DEF OneOrderPerSession, OrdersOf
<1>2. SlotsInv => FlowsFit
  BY DEF SlotsInv
<1> QED BY <1>1, <1>2, TypeCorrect, SlotsHold, SessionsHold, PTL

-----------------------------------------------------------------------------
(* The posts of orders whose changes do not overlap *)

\* What is not inserted yet has no post, no button pressed and no thread to come.
AbsentIsBlank(o) ==
  order[o].status = "absent" =>
    /\ \A thread \in Thread : posts[o][thread] = "none"
    /\ o \notin mistaken
    /\ \A c \in Click : click[c].pc # "idle" => click[c].order # o
    /\ Creating(o) = {}

\* A button is one of a post that exists.
ButtonsHavePosts ==
  \A c \in Click : click[c].pc # "idle" => posts[click[c].order][click[c].thread] # "none"

\* An order that is left alone is edited by one handler at most, which knows the
\* row as it is and every post there is; its threads are made before it changes.
Quiet(o) ==
  o \notin disturbed =>
    /\ Creating(o) # {} => order[o].status = "new" /\ Editing(o) = {}
    /\ \A c, d \in Editing(o) : c = d
    /\ o \notin mistaken
    /\ \A c \in Editing(o) :
         /\ click[c].to = order[o].status /\ click[c].linked = order[o].linked
         /\ \A thread \in Thread : posts[o][thread] # "none" => thread \in order[o].linked
         /\ click[c].pc = "counterpart" => posts[o][click[c].thread] = order[o].status
    /\ Editing(o) = {} => \A thread \in Thread : posts[o][thread] \in {"none", order[o].status}

PostsInv ==
  /\ \A o \in Order : AbsentIsBlank(o)
  /\ ButtonsHavePosts
  /\ \A o \in Order : Quiet(o)

\* What does not touch an order's row, posts and handlers leaves it quiet.
LEMMA UntouchedIsQuiet ==
  ASSUME NEW o \in Order, Quiet(o), order'[o] = order[o], posts'[o] = posts[o],
         o \in mistaken' => o \in mistaken, o \in disturbed => o \in disturbed',
         Creating(o)' \subseteq Creating(o), Editing(o)' = Editing(o),
         \A c \in Editing(o) : click'[c] = click[c]
  PROVE  Quiet(o)'
<1> SUFFICES ASSUME o \notin disturbed' PROVE Quiet(o)'
  BY DEF Quiet
<1>1. o \notin disturbed
  OBVIOUS
<1> QED BY <1>1 DEF Quiet

\* Before its UPDATE a handler touches no order and no post.
LEMMA ButtonFacts ==
  ASSUME TypeOK, NEW c \in Click,
         \/ \E o \in Order, thread \in Thread : PressAdvance(c, o, thread)
         \/ \E o \in Order, thread \in Thread : PressStaffCancel(c, o, thread)
         \/ \E o \in Order, staff \in BOOLEAN : PressCancel(c, o, staff)
         \/ ReadOrder(c)
  PROVE  /\ UNCHANGED <<order, posts, mistaken, disturbed>>
         /\ click[c].pc \notin {"own", "counterpart"} /\ click'[c].pc \notin {"own", "counterpart"}
         /\ \A d \in Click \ {c} : click'[d] = click[d]
         /\ click'[c].pc # "idle" =>
              \/ posts[click'[c].order][click'[c].thread] \in Live
              \/ /\ click[c].pc # "idle"
                 /\ click'[c].order = click[c].order /\ click'[c].thread = click[c].thread
<1>1. click \in [Click -> Interaction] /\ click[c] \in Interaction
  BY DEF TypeOK, OrdersTypeOK
<1>2. IdleClick.pc = "idle"
  BY DEF IdleClick
<1>3. ASSUME NEW o, NEW thread, NEW to, NEW staff, Press(c, o, thread, to, staff)
      PROVE  /\ UNCHANGED <<order, posts, mistaken, disturbed>>
             /\ click[c].pc = "idle" /\ click'[c].pc = "read"
             /\ \A d \in Click \ {c} : click'[d] = click[d]
             /\ posts[click'[c].order][click'[c].thread] \in Live
  <2> DEFINE j == [pc |-> "read", order |-> o, thread |-> thread, to |-> to,
                   staff |-> staff, from |-> {}, linked |-> {}]
  <2>1. click' = [click EXCEPT ![c] = j] /\ j.pc = "read" /\ j.order = o /\ j.thread = thread
    BY <1>3 DEF Press
  <2>2. /\ UNCHANGED <<order, posts, mistaken, disturbed>>
        /\ click[c].pc = "idle" /\ posts[o][thread] \in Live
    BY <1>3 DEF Press
  <2> HIDE DEF j
  <2> QED BY <1>1, <2>1, <2>2
<1>4. CASE ReadOrder(c)
  <2>1. click' \in {[click EXCEPT ![c] = [click[c] EXCEPT !.pc = "apply", !.from = Cancellable(click[c].staff)]],
                    [click EXCEPT ![c] = [click[c] EXCEPT !.pc = "apply", !.from = {order[click[c].order].status}]],
                    [click EXCEPT ![c] = IdleClick]}
        /\ click[c].pc = "read" /\ UNCHANGED <<order, posts, mistaken, disturbed>>
    BY <1>4 DEF ReadOrder
  <2>2. PICK j : /\ click' = [click EXCEPT ![c] = j]
                 /\ j = IdleClick \/ \E from : j = [click[c] EXCEPT !.pc = "apply", !.from = from]
    BY <2>1
  <2>3. j.pc \in {"idle", "apply"} /\ (j.pc # "idle" => j.order = click[c].order /\ j.thread = click[c].thread)
    BY <1>1, <1>2, <2>2 DEF Interaction
  <2> QED BY <1>1, <2>1, <2>2, <2>3
<1>6. ASSUME NEW o, NEW thread, NEW to, NEW staff, Press(c, o, thread, to, staff)
      PROVE  /\ UNCHANGED <<order, posts, mistaken, disturbed>>
             /\ click[c].pc \notin {"own", "counterpart"} /\ click'[c].pc \notin {"own", "counterpart"}
             /\ \A d \in Click \ {c} : click'[d] = click[d]
             /\ posts[click'[c].order][click'[c].thread] \in Live
  BY <1>3, <1>6
<1> QED BY <1>4, <1>6 DEF PressAdvance, PressStaffCancel, PressCancel

\* Such a step leaves every order quiet.
LEMMA ButtonsKeepPosts ==
  ASSUME PostsInv, NEW c \in Click, submit' = submit,
         UNCHANGED <<order, posts, mistaken, disturbed>>,
         click[c].pc \notin {"own", "counterpart"}, click'[c].pc \notin {"own", "counterpart"},
         \A d \in Click \ {c} : click'[d] = click[d],
         click'[c].pc # "idle" =>
           \/ posts[click'[c].order][click'[c].thread] \in Live /\ click'[c].thread \in Thread
           \/ /\ click[c].pc # "idle"
              /\ click'[c].order = click[c].order /\ click'[c].thread = click[c].thread
  PROVE  PostsInv'
<1>1. "none" \notin Live
  BY DEF Live, Status
<1>2. ASSUME NEW o \in Order PROVE AbsentIsBlank(o)'
  <2> SUFFICES ASSUME order[o].status = "absent", NEW d \in Click, click'[d].pc # "idle", click'[d].order = o
               PROVE  FALSE
    BY DEF PostsInv, AbsentIsBlank, Creating
  <2>1. CASE d # c
    BY <2>1 DEF PostsInv, AbsentIsBlank
  <2>2. CASE d = c
    BY <1>1, <2>2 DEF PostsInv, AbsentIsBlank
  <2> QED BY <2>1, <2>2
<1>3. ButtonsHavePosts'
  <2> SUFFICES ASSUME NEW d \in Click, click'[d].pc # "idle"
               PROVE  posts[click'[d].order][click'[d].thread] # "none"
    BY DEF ButtonsHavePosts
  <2>1. CASE d # c
    BY <2>1 DEF PostsInv, ButtonsHavePosts
  <2>2. CASE d = c
    BY <1>1, <2>2 DEF PostsInv, ButtonsHavePosts
  <2> QED BY <2>1, <2>2
<1>4. ASSUME NEW o \in Order PROVE Quiet(o)'
  <2>1. Editing(o)' = Editing(o) /\ \A d \in Editing(o) : click'[d] = click[d]
    BY DEF Editing
  <2>2. Creating(o)' = Creating(o)
    BY DEF Creating
  <2> QED BY <2>1, <2>2, UntouchedIsQuiet DEF PostsInv
<1> QED BY <1>2, <1>3, <1>4 DEF PostsInv

\* An UPDATE on an order that is neither edited nor getting a thread, and whose
\* posts are all linked, makes its handler the one that edits it.
LEMMA UpdateKeepsPosts ==
  ASSUME IInv, PostsInv, submit' = submit, UNCHANGED <<posts, mistaken>>,
         NEW c \in Click, click[c].pc = "apply",
         NEW o \in Order, o = click[c].order,
         order' = [order EXCEPT ![o].status = click[c].to],
         \A d \in Click \ {c} : click'[d] = click[d],
         disturbed \subseteq disturbed', disturbed' \subseteq disturbed \cup {o},
         \/ click'[c].pc = "idle" /\ o \in disturbed'
         \/ /\ click'[c].pc = "own" /\ click'[c].order = o /\ click'[c].thread = click[c].thread
            /\ click'[c].to = click[c].to /\ click'[c].linked = order[o].linked
            /\ o \in disturbed' \/ (Creating(o) = {} /\ Editing(o) = {} /\ ~MissesPost(o))
  PROVE  PostsInv'
<1>1. /\ \A p \in Order \ {o} : order'[p] = order[p]
      /\ order'[o].status = click[c].to /\ order'[o].linked = order[o].linked
      /\ click[c].to \in Status
  BY DEF IInv, TypeOK, OrdersTypeOK, Row, Interaction
<1>2. "absent" \notin Status
  BY DEF Status
<1>3. ASSUME NEW p \in Order PROVE AbsentIsBlank(p)'
  <2> SUFFICES ASSUME order'[p].status = "absent" PROVE AbsentIsBlank(p)'
    BY DEF AbsentIsBlank
  <2>1. p # o /\ order[p].status = "absent"
    BY <1>1, <1>2
  <2>2. AbsentIsBlank(p) /\ Creating(p)' = Creating(p)
    BY DEF PostsInv, Creating
  <2>3. \A d \in Click : click'[d].pc # "idle" => click'[d].order # p
    BY <2>1, <2>2 DEF AbsentIsBlank
  <2> QED BY <2>1, <2>2, <2>3 DEF AbsentIsBlank
<1>4. ButtonsHavePosts'
  <2>1. \A d \in Click : click'[d].pc # "idle" =>
          click[d].pc # "idle" /\ click'[d].order = click[d].order /\ click'[d].thread = click[d].thread
    OBVIOUS
  <2> QED BY <2>1 DEF PostsInv, ButtonsHavePosts
<1>5. ASSUME NEW p \in Order, p # o PROVE Quiet(p)'
  <2>1. Editing(p)' = Editing(p) /\ \A d \in Editing(p) : click'[d] = click[d]
    BY <1>5 DEF Editing
  <2>2. Creating(p)' = Creating(p)
    BY DEF Creating
  <2> QED BY <1>1, <1>5, <2>1, <2>2, UntouchedIsQuiet DEF PostsInv
<1>6. Quiet(o)'
  <2> SUFFICES ASSUME o \notin disturbed' PROVE Quiet(o)'
    BY DEF Quiet
  <2>1. /\ click'[c].pc = "own" /\ click'[c].order = o
        /\ click'[c].to = click[c].to /\ click'[c].linked = order[o].linked
        /\ Creating(o) = {} /\ Editing(o) = {} /\ ~MissesPost(o)
    OBVIOUS
  <2>2. o \notin mistaken
    BY DEF PostsInv, Quiet
  <2>3. Creating(o)' = {} /\ Editing(o)' = {c}
    BY <2>1 DEF Creating, Editing
  <2>4. \A thread \in Thread : posts[o][thread] # "none" => thread \in order[o].linked
    BY <2>1 DEF MissesPost
  <2> QED BY <1>1, <2>1, <2>2, <2>3, <2>4 DEF Quiet
<1> QED BY <1>3, <1>4, <1>5, <1>6 DEF PostsInv

\* The guarded UPDATE, accepted, refused or throwing.
LEMMA ApplyKeepsPosts ==
  ASSUME IInv, PostsInv, NEW c \in Click,
         ApplyClick(c) \/ (ApplyThrows(c) /\ UNCHANGED svars)
  PROVE  PostsInv'
<1> DEFINE k == click[c]
           o == k.order
           j == [k EXCEPT !.pc = "own", !.linked = order[o].linked]
<1>1. /\ k \in Interaction /\ o \in Order /\ k.pc = "apply" /\ submit' = submit
      /\ UNCHANGED <<posts, mistaken>>
  BY DEF IInv, TypeOK, OrdersTypeOK, Interaction, ApplyClick, Apply, ApplyThrows, svars
<1>2. IdleClick.pc = "idle" /\ click \in [Click -> Interaction]
  BY DEF IdleClick, IInv, TypeOK, OrdersTypeOK
<1>3. CASE ApplyClick(c) /\ StillAllowed(k)
  <2>1. /\ order' = [order EXCEPT ![o].status = k.to]
        /\ click' = [click EXCEPT ![c] = j]
        /\ disturbed' = IF Creating(o) # {} \/ Editing(o) # {} \/ MissesPost(o)
                          THEN disturbed \cup {o} ELSE disturbed
    BY <1>3 DEF ApplyClick, Apply
  <2>2. j.pc = "own" /\ j.order = o /\ j.thread = k.thread /\ j.to = k.to /\ j.linked = order[o].linked
    BY <1>1 DEF Interaction
  <2> HIDE DEF j
  <2>3. /\ click'[c].pc = "own" /\ click'[c].order = o /\ click'[c].thread = k.thread
        /\ click'[c].to = k.to /\ click'[c].linked = order[o].linked
        /\ \A d \in Click \ {c} : click'[d] = click[d]
    BY <1>2, <2>1, <2>2
  <2>4. /\ disturbed \subseteq disturbed' /\ disturbed' \subseteq disturbed \cup {o}
        /\ o \in disturbed' \/ (Creating(o) = {} /\ Editing(o) = {} /\ ~MissesPost(o))
    BY <2>1
  <2> QED BY <1>1, <2>1, <2>3, <2>4, UpdateKeepsPosts
<1>4. CASE ApplyThrows(c) /\ order' = [order EXCEPT ![o].status = k.to] /\ disturbed' = disturbed \cup {o}
  <2>1. click'[c].pc = "idle" /\ \A d \in Click \ {c} : click'[d] = click[d]
    BY <1>2, <1>4 DEF ApplyThrows
  <2> QED BY <1>1, <1>4, <2>1, UpdateKeepsPosts
<1>5. CASE \/ ApplyClick(c) /\ ~StillAllowed(k)
           \/ ApplyThrows(c) /\ UNCHANGED <<order, disturbed>>
  <2>1. click'[c].pc = "idle" /\ \A d \in Click \ {c} : click'[d] = click[d]
    BY <1>2, <1>5 DEF ApplyThrows, ApplyClick, Apply
  <2>2. UNCHANGED <<order, posts, mistaken, disturbed>>
    BY <1>1, <1>5 DEF ApplyThrows, ApplyClick, Apply
  <2> QED BY <1>1, <2>1, <2>2, ButtonsKeepPosts
<1> QED BY <1>3, <1>4, <1>5 DEF ApplyThrows

\* What an edit of one post does to all of them
LEMMA PostFacts ==
  ASSUME TypeOK, NEW o, NEW thread \in Thread, NEW status \in Status,
         posts' = [posts EXCEPT ![o][thread] = status]
  PROVE  /\ \A p \in Order : p # o => posts'[p] = posts[p]
         /\ o \in Order => /\ posts'[o][thread] = status
                           /\ \A u \in Thread : u # thread => posts'[o][u] = posts[o][u]
         /\ \A p \in Order, u \in Thread : posts'[p][u] = "none" => posts[p][u] = "none"
<1>1. posts \in [Order -> [Thread -> {"none"} \cup Status]] /\ "none" \notin Status
  BY DEF TypeOK, OrdersTypeOK, Status
<1>2. posts' = [posts EXCEPT ![o] = [posts[o] EXCEPT ![thread] = status]]
  OBVIOUS
<1>3. \A p \in Order : p # o => posts'[p] = posts[p]
  BY <1>1, <1>2
<1>4. ASSUME o \in Order
      PROVE  posts'[o][thread] = status /\ \A u \in Thread : u # thread => posts'[o][u] = posts[o][u]
  <2>1. posts'[o] = [posts[o] EXCEPT ![thread] = status] /\ posts[o] \in [Thread -> {"none"} \cup Status]
    BY <1>1, <1>2, <1>4
  <2> QED BY <2>1
<1>5. ASSUME NEW p \in Order, NEW u \in Thread, posts'[p][u] = "none" PROVE posts[p][u] = "none"
  <2>1. CASE p # o
    BY <1>3, <1>5, <2>1
  <2>2. CASE p = o
    BY <1>1, <1>4, <1>5, <2>2
  <2> QED BY <2>1, <2>2
<1> QED BY <1>3, <1>4, <1>5

\* An edit touches the posts of one order, which exists, and nothing else.
LEMMA EditKeepsOthers ==
  ASSUME IInv, PostsInv, submit' = submit, order' = order,
         NEW c \in Click, click[c].pc \in {"own", "counterpart"}, NEW o \in Order, click[c].order = o,
         \A d \in Click \ {c} : click'[d] = click[d],
         click'[c].pc # "idle" => click'[c].order = o /\ click'[c].thread = click[c].thread,
         \/ posts' = posts
         \/ \E thread \in Thread : posts' = [posts EXCEPT ![o][thread] = click[c].to],
         mistaken' \subseteq mistaken \cup {o}, disturbed \subseteq disturbed', Quiet(o)'
  PROVE  PostsInv'
<1>1. /\ \A p \in Order : p # o => posts'[p] = posts[p]
      /\ \A p \in Order, u \in Thread : posts'[p][u] = "none" => posts[p][u] = "none"
  <2>1. click[c].to \in Status
    BY DEF IInv, TypeOK, OrdersTypeOK, Interaction
  <2> QED BY <2>1, PostFacts DEF IInv
<1>2. order[o].status # "absent"
  BY DEF PostsInv, AbsentIsBlank
<1>3. ASSUME NEW p \in Order PROVE AbsentIsBlank(p)'
  <2> SUFFICES ASSUME order[p].status = "absent" PROVE AbsentIsBlank(p)'
    BY DEF AbsentIsBlank
  <2>1. p # o /\ AbsentIsBlank(p) /\ Creating(p)' = Creating(p)
    BY <1>2 DEF PostsInv, Creating
  <2>2. \A d \in Click : click'[d].pc # "idle" => click'[d].order # p
    BY <2>1 DEF AbsentIsBlank
  <2> QED BY <1>1, <2>1, <2>2 DEF AbsentIsBlank
<1>4. ButtonsHavePosts'
  <2>1. \A d \in Click : click'[d].pc # "idle" =>
          click[d].pc # "idle" /\ click'[d].order = click[d].order /\ click'[d].thread = click[d].thread
    OBVIOUS
  <2>2. \A d \in Click : click[d].order \in Order /\ click[d].thread \in Thread
    BY DEF IInv, TypeOK, OrdersTypeOK, Interaction
  <2> QED BY <1>1, <2>1, <2>2 DEF PostsInv, ButtonsHavePosts
<1>5. ASSUME NEW p \in Order, p # o PROVE Quiet(p)'
  <2>1. Editing(p)' = Editing(p) /\ \A d \in Editing(p) : click'[d] = click[d]
    BY <1>5 DEF Editing
  <2>2. Creating(p)' = Creating(p)
    BY DEF Creating
  <2>3. Quiet(p)
    BY DEF PostsInv
  <2>4. (p \in mistaken' => p \in mistaken) /\ (p \in disturbed => p \in disturbed')
    BY <1>5
  <2> QED BY <1>1, <1>5, <2>1, <2>2, <2>3, <2>4, UntouchedIsQuiet
<1> QED BY <1>3, <1>4, <1>5 DEF PostsInv

\* The post the button is on exists, so in a quiet order it is linked and taken
\* for what it is; the other post is edited if there is one.
LEMMA EditsKeepPosts ==
  ASSUME IInv, PostsInv, submit' = submit, NEW c \in Click, EditOwn(c) \/ EditCounterpart(c)
  PROVE  PostsInv'
<1> SUFFICES ASSUME NEW k \in Interaction, k = click[c] PROVE PostsInv'
  BY DEF IInv, TypeOK, OrdersTypeOK
<1>0. ASSUME NEW p \in Order, NEW thread \in Thread, NEW status \in Status,
             posts' = [posts EXCEPT ![p][thread] = status]
      PROVE  posts'[p][thread] = status /\ \A u \in Thread : u # thread => posts'[p][u] = posts[p][u]
  BY ZenonT(60), <1>0, PostFacts DEF IInv
<1> DEFINE o == k.order
           j == [k EXCEPT !.pc = "counterpart"]
<1>1. /\ k \in Interaction /\ o \in Order /\ k.pc \in {"own", "counterpart"} /\ order' = order
      /\ k.thread \in Thread /\ k.to \in Status /\ k.linked \subseteq Thread
      /\ click \in [Click -> Interaction] /\ order[o].linked \subseteq Thread
  BY DEF IInv, TypeOK, OrdersTypeOK, Interaction, Row, EditOwn, EditCounterpart
<1>2. TakenFor(k) \in Thread /\ Other(TakenFor(k)) \in Thread
  BY DEF TakenFor, Other, Thread
<1>3. ASSUME o \notin disturbed
      PROVE  /\ Creating(o) = {} /\ o \notin mistaken /\ Editing(o) = {c}
             /\ k.to = order[o].status /\ k.linked = order[o].linked
             /\ \A thread \in Thread : posts[o][thread] # "none" => thread \in k.linked
             /\ k.pc = "counterpart" => posts[o][k.thread] = order[o].status
             /\ TakenFor(k) = k.thread
  <2>1. c \in Editing(o) /\ Quiet(o) /\ posts[o][k.thread] # "none"
    BY <1>1 DEF Editing, PostsInv, ButtonsHavePosts
  <2>2. /\ Creating(o) = {} /\ o \notin mistaken /\ Editing(o) = {c}
        /\ k.to = order[o].status /\ k.linked = order[o].linked
        /\ \A thread \in Thread : posts[o][thread] # "none" => thread \in k.linked
        /\ k.pc = "counterpart" => posts[o][k.thread] = order[o].status
    BY <1>3, <2>1 DEF Quiet
  <2>3. TakenFor(k) = k.thread
    BY <1>1, <2>1, <2>2 DEF TakenFor, Thread
  <2> QED BY <2>2, <2>3
<1>4. CASE EditOwn(c)
  <2>1. j.pc = "counterpart" /\ j.order = o /\ j.thread = k.thread /\ j.to = k.to /\ j.linked = k.linked
    BY <1>1 DEF Interaction
  <2>2. click' = [click EXCEPT ![c] = j]
    BY <1>4 DEF EditOwn
  <2> HIDE DEF j
  <2>3. /\ click'[c].pc = "counterpart" /\ click'[c].order = o /\ click'[c].thread = k.thread
        /\ click'[c].to = k.to /\ click'[c].linked = k.linked
        /\ \A d \in Click \ {c} : click'[d] = click[d]
    BY <1>1, <2>1, <2>2
  <2>4. Edited(o, k.thread, TakenFor(k), k.to)
    BY <1>4 DEF EditOwn
  <2>5. /\ posts' = posts \/ \E thread \in Thread : posts' = [posts EXCEPT ![o][thread] = k.to]
        /\ mistaken' \subseteq mistaken \cup {o} /\ disturbed \subseteq disturbed'
    BY <1>1, <2>4 DEF Edited
  <2>6. Quiet(o)'
    <3> SUFFICES ASSUME o \notin disturbed' PROVE Quiet(o)'
      BY DEF Quiet
    <3>1. posts' = [posts EXCEPT ![o][k.thread] = k.to] /\ o \notin disturbed
      BY <2>4 DEF Edited
    <3>2. /\ Creating(o) = {} /\ o \notin mistaken /\ Editing(o) = {c}
          /\ k.to = order[o].status /\ k.linked = order[o].linked
          /\ \A thread \in Thread : posts[o][thread] # "none" => thread \in k.linked
          /\ TakenFor(k) = k.thread
      BY <1>3, <3>1
    <3>3. o \notin mistaken'
      BY <2>4, <3>2 DEF Edited
    <3>4. posts'[o][k.thread] = k.to /\ \A u \in Thread : u # k.thread => posts'[o][u] = posts[o][u]
      BY ZenonT(60), <1>0, <1>1, <3>1
    <3>5. posts[o][k.thread] # "none"
      BY <1>1 DEF PostsInv, ButtonsHavePosts
    <3>6. Creating(o)' = {} /\ Editing(o)' = {c}
      BY <1>1, <2>3, <3>2 DEF Creating, Editing
    <3>7. \A thread \in Thread : posts'[o][thread] # "none" => thread \in order[o].linked
      BY <1>1, <3>2, <3>4, <3>5
    <3> QED BY <1>1, <2>3, <3>2, <3>3, <3>4, <3>6, <3>7 DEF Quiet
  <2> QED BY ZenonT(60), <1>1, <2>3, <2>5, <2>6, EditKeepsOthers
<1>5. CASE EditCounterpart(c)
  <2>1. click'[c].pc = "idle" /\ \A d \in Click \ {c} : click'[d] = click[d]
    BY <1>1, <1>5 DEF EditCounterpart, IdleClick
  <2> DEFINE other == Other(TakenFor(k))
  <2>2. \/ Counterparts(k) # {} /\ Edited(o, other, other, k.to)
        \/ Counterparts(k) = {} /\ UNCHANGED <<posts, mistaken, disturbed>>
    BY <1>5 DEF EditCounterpart
  <2>3. /\ posts' = posts \/ \E thread \in Thread : posts' = [posts EXCEPT ![o][thread] = k.to]
        /\ mistaken' \subseteq mistaken \cup {o} /\ disturbed \subseteq disturbed'
    BY <1>2, <2>2 DEF Edited
  <2>4. Quiet(o)'
    <3> SUFFICES ASSUME o \notin disturbed' PROVE Quiet(o)'
      BY DEF Quiet
    <3>1. o \notin disturbed
      BY <2>3
    <3>2. /\ Creating(o) = {} /\ o \notin mistaken /\ Editing(o) = {c}
          /\ k.to = order[o].status /\ k.linked = order[o].linked
          /\ \A thread \in Thread : posts[o][thread] # "none" => thread \in k.linked
          /\ posts[o][k.thread] = order[o].status
          /\ TakenFor(k) = k.thread
      BY <1>3, <1>5, <3>1 DEF EditCounterpart
    <3>3. other = Other(k.thread) /\ other # k.thread /\ \A u \in Thread : u \in {k.thread, other}
      BY <1>1, <3>2 DEF Other, Thread
    <3>4. Creating(o)' = {} /\ Editing(o)' = {}
      BY <2>1, <3>2 DEF Creating, Editing
    <3>5. o \notin mistaken' /\ \A u \in Thread : posts'[o][u] \in {"none", order[o].status}
      <4>1. CASE Counterparts(k) # {}
        <5>1. posts' = [posts EXCEPT ![o][other] = k.to] /\ o \notin mistaken'
          BY <2>2, <3>1, <3>2, <4>1 DEF Edited
        <5>2. posts'[o][other] = k.to /\ \A u \in Thread : u # other => posts'[o][u] = posts[o][u]
          BY ZenonT(60), <1>0, <1>1, <1>2, <5>1
        <5> QED BY <1>1, <3>2, <3>3, <5>1, <5>2
      <4>2. CASE Counterparts(k) = {}
        <5>1. posts' = posts /\ mistaken' = mistaken
          BY <2>2, <4>2
        <5>2. other \notin k.linked
          BY <3>2, <3>3, <4>2 DEF Counterparts
        <5>3. posts[o][other] = "none"
          BY <1>2, <3>2, <5>2
        <5> QED BY <3>2, <3>3, <5>1, <5>3
      <4> QED BY <4>1, <4>2
    <3> QED BY <1>1, <3>4, <3>5 DEF Quiet
  <2> QED BY <1>1, <2>1, <2>3, <2>4, EditKeepsOthers
<1> QED BY <1>4, <1>5

\* A submission makes threads and links only of an order it created, which is
\* still new and edited by nobody.
LEMMA ThreadsKeepPosts ==
  ASSUME IInv, PostsInv, UNCHANGED <<click, mistaken, disturbed>>,
         NEW s \in Submit, NEW o, o = submit[s].order,
         \A t \in Submit \ {s} : submit'[t] = submit[t], submit'[s].order \in {0, o},
         \A p \in Order : /\ order'[p].status = order[p].status
                          /\ p # o => order'[p].linked = order[p].linked,
         \A p \in Order, u \in Thread :
           posts'[p][u] = posts[p][u] \/ (p = o /\ posts'[p][u] = "new")
  PROVE  PostsInv'
<1>1. ASSUME NEW p \in Order
      PROVE  Creating(p)' \subseteq Creating(p) /\ Editing(p)' = Editing(p) /\ (p = o => s \in Creating(p))
  <2>1. p # 0
    BY OrdersAssumption DEF Order
  <2> QED BY <2>1 DEF Creating, Editing
<1>2. ASSUME NEW p \in Order PROVE AbsentIsBlank(p)'
  <2> SUFFICES ASSUME order[p].status = "absent" PROVE AbsentIsBlank(p)'
    BY DEF AbsentIsBlank
  <2>1. AbsentIsBlank(p) /\ Creating(p) = {}
    BY DEF PostsInv, AbsentIsBlank
  <2>2. p # o
    BY <1>1, <2>1
  <2>3. \A u \in Thread : posts'[p][u] = posts[p][u]
    BY <2>2
  <2> QED BY <1>1, <2>1, <2>3 DEF AbsentIsBlank
<1>3. ButtonsHavePosts'
  <2>1. \A d \in Click : click[d].order \in Order /\ click[d].thread \in Thread
    BY DEF IInv, TypeOK, OrdersTypeOK, Interaction
  <2> QED BY <2>1 DEF PostsInv, ButtonsHavePosts
<1>4. ASSUME NEW p \in Order PROVE Quiet(p)'
  <2> SUFFICES ASSUME p \notin disturbed PROVE Quiet(p)'
    BY DEF Quiet
  <2>1. Quiet(p)
    BY DEF PostsInv
  <2>2. CASE p = o
    <3>1. Creating(p) # {}
      BY <1>1, <2>2
    <3>2. order[p].status = "new" /\ Editing(p) = {} /\ p \notin mistaken
          /\ \A u \in Thread : posts[p][u] \in {"none", "new"}
      BY <2>1, <3>1 DEF Quiet
    <3>3. order'[p].status = "new" /\ Editing(p)' = {} /\ p \notin mistaken'
          /\ \A u \in Thread : posts'[p][u] \in {"none", "new"}
      BY <1>1, <3>2
    <3> QED BY <3>3 DEF Quiet
  <2>3. CASE p # o
    <3>1. /\ order'[p].status = order[p].status /\ order'[p].linked = order[p].linked
          /\ \A u \in Thread : posts'[p][u] = posts[p][u]
      BY <2>3
    <3>2. \A c \in Editing(p) : c \in Click /\ click[c].thread \in Thread
      BY DEF Editing, IInv, TypeOK, OrdersTypeOK, Interaction
    <3> QED BY <1>1, <2>1, <3>1, <3>2 DEF Quiet
  <2> QED BY <2>2, <2>3
<1> QED BY <1>2, <1>3, <1>4 DEF PostsInv

\* A new order has no posts yet and nobody edits it.
LEMMA InsertKeepsPosts ==
  ASSUME IInv, PostsInv, NEW s \in Submit, InsertOrder(s)
  PROVE  PostsInv'
<1>1. PICK o \in Order :
           /\ order[o].status = "absent"
           /\ \A p \in Order \ {o} : order'[p] = order[p]
           /\ order'[o].status = "new" /\ submit'[s].order = o
           /\ \A t \in Submit \ {s} : submit'[t] = submit[t]
  BY InsertFacts DEF IInv
<1>2. UNCHANGED <<posts, mistaken, click, disturbed>>
  BY DEF InsertOrder
<1>3. AbsentIsBlank(o)
  BY DEF PostsInv
<1>4. ASSUME NEW p \in Order, p # o
      PROVE  Creating(p)' \subseteq Creating(p) /\ Editing(p)' = Editing(p)
  BY <1>1, <1>2, <1>4 DEF Creating, Editing
<1>5. ASSUME NEW p \in Order PROVE AbsentIsBlank(p)'
  <2>1. CASE p = o
    BY <1>1, <2>1 DEF AbsentIsBlank
  <2>2. CASE p # o
    <3>1. AbsentIsBlank(p) /\ order'[p] = order[p]
      BY <1>1, <2>2 DEF PostsInv
    <3> QED BY <1>2, <1>4, <2>2, <3>1 DEF AbsentIsBlank
  <2> QED BY <2>1, <2>2
<1>6. ButtonsHavePosts'
  BY <1>2 DEF PostsInv, ButtonsHavePosts
<1>7. ASSUME NEW p \in Order PROVE Quiet(p)'
  <2>1. CASE p = o
    <3>1. Editing(o)' = {} /\ o \notin mistaken' /\ \A u \in Thread : posts'[o][u] = "none"
      BY <1>1, <1>2, <1>3 DEF AbsentIsBlank, Editing
    <3> QED BY <1>1, <2>1, <3>1 DEF Quiet
  <2>2. CASE p # o
    <3>1. Quiet(p) /\ order'[p] = order[p]
      BY <1>1, <2>2 DEF PostsInv
    <3> QED BY <1>2, <1>4, <2>2, <3>1, UntouchedIsQuiet
  <2> QED BY <2>1, <2>2
<1> QED BY <1>5, <1>6, <1>7 DEF PostsInv

\* Every step of a submission
LEMMA SubmitStepsKeepPosts ==
  ASSUME IInv, PostsInv, NEW s \in Submit, SubmitStep(s)
  PROVE  PostsInv'
<1> DEFINE o == submit[s].order
<1>1. submit \in [Submit -> Submission] /\ order \in [Order -> Row]
  BY DEF IInv, TypeOK, OrdersTypeOK
<1>2. IdleSubmit.order = 0
  BY DEF IdleSubmit
<1>3. ASSUME ~InsertOrder(s)
      PROVE  /\ UNCHANGED <<click, mistaken, disturbed>>
             /\ \A t \in Submit \ {s} : submit'[t] = submit[t]
             /\ submit'[s].order \in {0, o}
  <2>1. UNCHANGED <<click, mistaken, disturbed>>
    BY <1>3 DEF SubmitStep, PressSubmit, SubmitFails, CountActive, CreateThread, ThreadFails,
       LinkThread, CreateStaffThread, NoStaffThread, LinkStaffThread, ovars
  <2>2. ASSUME NEW f \in Flow, PressSubmit(s, f)
        PROVE  submit'[s].order = 0 /\ \A t \in Submit \ {s} : submit'[t] = submit[t]
    BY <2>2, TakeFacts DEF IInv
  <2>3. ASSUME \A f \in Flow : ~PressSubmit(s, f)
        PROVE  submit'[s].order \in {0, o} /\ \A t \in Submit \ {s} : submit'[t] = submit[t]
    BY <1>1, <1>2, <1>3, <2>3 DEF SubmitStep, SubmitFails, CountActive, CreateThread, ThreadFails,
       LinkThread, CreateStaffThread, NoStaffThread, LinkStaffThread, At, Submission
  <2> QED BY <2>1, <2>2, <2>3
<1>4. CASE InsertOrder(s)
  BY <1>4, InsertKeepsPosts
<1>5. CASE CreateThread(s) \/ CreateStaffThread(s)
  <2>1. PICK thread \in Thread : posts' = [posts EXCEPT ![submit[s].order][thread] = "new"]
    BY <1>5 DEF CreateThread, CreateStaffThread, Thread
  <2>2. order' = order /\ ~InsertOrder(s)
    BY <1>5 DEF CreateThread, CreateStaffThread, InsertOrder
  <2>3. "new" \in Status
    BY DEF Status
  <2>4. \A q : posts' = [posts EXCEPT ![q][thread] = "new"] =>
          \A p \in Order, u \in Thread :
            posts'[p][u] = posts[p][u] \/ (p = q /\ posts'[p][u] = "new")
    BY <2>3, PostFacts DEF IInv
  <2>5. \A p \in Order, u \in Thread :
          posts'[p][u] = posts[p][u] \/ (p = o /\ posts'[p][u] = "new")
    BY <2>1, <2>4
  <2> QED BY <1>3, <2>2, <2>5, ThreadsKeepPosts
<1>6. CASE LinkThread(s) \/ LinkStaffThread(s)
  <2>1. posts' = posts /\ ~InsertOrder(s)
    BY <1>6 DEF LinkThread, LinkStaffThread, InsertOrder
  <2>2. order' = order \/ \E linked : order' = [order EXCEPT ![o] = [order[o] EXCEPT !.linked = linked]]
    BY <1>6 DEF LinkThread, LinkStaffThread
  <2>3. \A p \in Order : /\ order'[p].status = order[p].status
                         /\ p # o => order'[p].linked = order[p].linked
    <3>1. ASSUME NEW linked, NEW p \in Order, order' = [order EXCEPT ![o] = [order[o] EXCEPT !.linked = linked]]
          PROVE  order'[p].status = order[p].status /\ (p # o => order'[p].linked = order[p].linked)
      BY <1>1, <3>1 DEF Row
    <3> QED BY <2>2, <3>1
  <2> QED BY <1>3, <2>1, <2>3, ThreadsKeepPosts
<1>7. CASE ~(InsertOrder(s) \/ CreateThread(s) \/ CreateStaffThread(s) \/ LinkThread(s) \/ LinkStaffThread(s))
  <2>1. order' = order /\ posts' = posts
    BY <1>7 DEF SubmitStep, PressSubmit, SubmitFails, CountActive, ThreadFails, NoStaffThread, ovars
  <2> QED BY <1>3, <1>7, <2>1, ThreadsKeepPosts
<1> QED BY <1>4, <1>5, <1>6, <1>7

\* A restart ends handlers and submissions; orders that were being edited are
\* disturbed from then on.
LEMMA RestartKeepsPosts ==
  ASSUME PostsInv, Restart
  PROVE  PostsInv'
<1>1. /\ UNCHANGED <<order, posts, mistaken>>
      /\ disturbed' = disturbed \cup {o \in Order : Editing(o) # {}}
      /\ \A c \in Click : click'[c].pc = "idle"
      /\ \A s \in Submit : submit'[s].order = 0
  BY DEF Restart, ClicksLost, IdleClick, IdleSubmit
<1>2. ASSUME NEW o \in Order PROVE Creating(o)' = {} /\ Editing(o)' = {}
  <2>1. o # 0
    BY OrdersAssumption DEF Order
  <2> QED BY <1>1, <2>1 DEF Creating, Editing
<1>3. ASSUME NEW o \in Order PROVE AbsentIsBlank(o)'
  BY <1>1, <1>2 DEF PostsInv, AbsentIsBlank
<1>4. ASSUME NEW o \in Order PROVE Quiet(o)'
  BY <1>1, <1>2 DEF PostsInv, Quiet
<1> QED BY <1>1, <1>3, <1>4 DEF PostsInv, ButtonsHavePosts

\* Every step keeps the posts of quiet orders true.
LEMMA PostsKept == ASSUME IInv, PostsInv, [Next]_vars PROVE PostsInv'
<1>1. ASSUME NEW c \in Click, ClickStep(c), UNCHANGED svars PROVE PostsInv'
  <2>1. submit' = submit
    BY <1>1 DEF svars
  <2>2. CASE EditOwn(c) \/ EditCounterpart(c)
    BY <2>1, <2>2, EditsKeepPosts
  <2>3. CASE ApplyThrows(c)
    BY <1>1, <2>3, ApplyKeepsPosts
  <2>4. CASE \/ \E o \in Order, thread \in Thread : PressAdvance(c, o, thread)
             \/ \E o \in Order, thread \in Thread : PressStaffCancel(c, o, thread)
             \/ \E o \in Order, staff \in BOOLEAN : PressCancel(c, o, staff)
             \/ ReadOrder(c)
    <3>1. TypeOK /\ TypeOK'
      BY <1>1, ClickStepHolds DEF IInv, TypeOK, svars
    <3>2. click'[c].thread \in Thread
      BY <3>1 DEF TypeOK, OrdersTypeOK, Interaction
    <3>3. /\ UNCHANGED <<order, posts, mistaken, disturbed>>
          /\ click[c].pc \notin {"own", "counterpart"} /\ click'[c].pc \notin {"own", "counterpart"}
          /\ \A d \in Click \ {c} : click'[d] = click[d]
          /\ click'[c].pc # "idle" =>
               \/ posts[click'[c].order][click'[c].thread] \in Live
               \/ /\ click[c].pc # "idle"
                  /\ click'[c].order = click[c].order /\ click'[c].thread = click[c].thread
      BY <2>4, <3>1, ButtonFacts
    <3> QED BY <2>1, <3>2, <3>3, ButtonsKeepPosts
  <2> QED BY <1>1, <2>2, <2>3, <2>4 DEF ClickStep
<1>2. ASSUME NEW c \in Click, ApplyClick(c) PROVE PostsInv'
  BY <1>2, ApplyKeepsPosts
<1>3. ASSUME UNCHANGED <<ovars, submit>> PROVE PostsInv'
  BY <1>3 DEF ovars, PostsInv, AbsentIsBlank, ButtonsHavePosts, Quiet, Creating, Editing
<1>4. ASSUME NEW f \in Flow, FlowStep(f) PROVE PostsInv'
  <2>1. UNCHANGED <<ovars, submit>>
    BY <1>4 DEF FlowStep, Trigger, Refuse, WithinLimits, OpenSession, ModalShown, EntryAges, ItemModal,
       PushItem, SessionExpires
  <2> QED BY <1>3, <2>1
<1>5. CASE UNCHANGED vars
  BY <1>3, <1>5 DEF vars, svars
<1> QED BY <1>1, <1>2, <1>4, <1>5, SubmitStepsKeepPosts, RestartKeepsPosts DEF Next

\* There is no order, no post and no handler yet.
LEMMA PostsStart == Init => PostsInv
<1> SUFFICES ASSUME Init PROVE PostsInv
  OBVIOUS
<1>1. /\ \A o \in Order, thread \in Thread : posts[o][thread] = "none"
      /\ mistaken = {} /\ disturbed = {}
      /\ \A c \in Click : click[c].pc = "idle"
      /\ \A s \in Submit : submit[s].order = 0
  BY DEF Init, OrdersInit, IdleClick, IdleSubmit
<1>2. ASSUME NEW o \in Order PROVE Creating(o) = {} /\ Editing(o) = {}
  <2>1. o # 0
    BY OrdersAssumption DEF Order
  <2> QED BY <1>1, <2>1 DEF Creating, Editing
<1> QED BY <1>1, <1>2 DEF PostsInv, AbsentIsBlank, ButtonsHavePosts, Quiet

\* Posts of orders whose changes do not overlap show the status of their row.
THEOREM QuietPostsShowStatus == Spec => []QuietPostsAreTrue
<1>1. PostsInv => QuietPostsAreTrue
  BY DEF PostsInv, Quiet, QuietPostsAreTrue
<1> QED BY <1>1, PostsStart, PostsKept, Inductive, PTL DEF Spec
=============================================================================
