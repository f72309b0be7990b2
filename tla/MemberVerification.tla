-------------------------- MODULE MemberVerification --------------------------
(***************************************************************************)
(* A member proves to own an RSI handle (commands/verify.command.ts,       *)
(* interactions/verifyButton.ts, services/rsi.services.ts and              *)
(* role.services.ts): /verify issues a code for a handle and keeps it in   *)
(* one session per member; a press of the button looks for the code on the *)
(* handle's page and grants or removes the verified role.  Sessions and    *)
(* rate limits live in the process alone, and every await of a press lets  *)
(* other commands, presses and timers in.                                  *)
(***************************************************************************)
EXTENDS Naturals, Sequences

CONSTANTS
  Member,
  Handle,          \* RSI handles
  Press,           \* bound: presses of the button under way at a time
  MaxCodes,        \* bound: codes issued in all
  Minute, Hour,    \* the rate-limit windows, in clock ticks
  SessionTtl,      \* SESSION_TTL_MS, in ticks
  PerMinute, PerHour

ASSUME VerificationAssumption ==
  /\ MaxCodes \in Nat
  /\ {Minute, Hour} \subseteq Nat \ {0} /\ Minute <= Hour
  /\ SessionTtl \in Nat
  /\ {PerMinute, PerHour} \subseteq Nat

VARIABLES
  stamps,      \* verifyInvocationTimestamps, as ages, oldest first
  session,     \* verificationCodes
  issued,      \* the codes issued so far: whom and for which handle
  bio,         \* the codes a handle's page shows
  press,       \* the presses of the button
  role,        \* members with the verified role
  nickname,    \* each member's nickname, a handle or Own
  posted,      \* history: every <<handle, code>> a page has ever shown
  asked        \* history: ages of the commands each member was not refused

vars == <<stamps, session, issued, bio, press, role, nickname, posted, asked>>

Code == 1..MaxCodes
None == "none"
Own == "own"
NoSession == [handle |-> None, code |-> 0, age |-> 0]
Idle == [stage |-> "idle", member |-> None, handle |-> None, code |-> 0]
Stage == {"idle", "deferring", "config", "fetching", "assigning", "naming",
          "removing", "replying"}

\* The stages that know which page and which code they are about
Sure == {"fetching", "assigning", "naming"}

MaxAge == SessionTtl + 1

TypeOK ==
  /\ \A m \in Member : \A i \in DOMAIN stamps[m] : stamps[m][i] \in 0..Hour
  /\ \A m \in Member : session[m] # NoSession =>
       session[m] \in [handle : Handle, code : Code, age : 0..MaxAge]
  /\ issued \in Seq([member : Member, handle : Handle])
  /\ bio \in [Handle -> SUBSET Code]
  /\ \A p \in Press :
       \/ press[p] = Idle
       \/ press[p] \in [stage : Sure, member : Member, handle : Handle, code : Code]
       \/ press[p] \in [stage : Stage \ Sure, member : Member,
                        handle : Handle \cup {None}, code : Code \cup {0}]
  /\ role \subseteq Member
  /\ nickname \in [Member -> Handle \cup {Own}]

Init ==
  /\ stamps = [m \in Member |-> <<>>]
  /\ session = [m \in Member |-> NoSession]
  /\ issued = <<>>
  /\ bio = [h \in Handle |-> {}]
  /\ press = [p \in Press |-> Idle]
  /\ role = {}
  /\ nickname = [m \in Member |-> Own]
  /\ posted = {}
  /\ asked = [m \in Member |-> <<>>]

-----------------------------------------------------------------------------
(* /verify.  handleVerifyCommand has no await before its reply.            *)

\* The filter keeps the end of a list that is appended to in the order of time.
Younger(ages, window) ==
  LET first == CHOOSE k \in 1..(Len(ages) + 1) :
                 \A i \in 1..Len(ages) : ages[i] < window <=> i >= k
  IN  SubSeq(ages, first, Len(ages))

\* The timestamps of the last hour are kept, the minute's only counted.
KeptOneMinute(m) == Younger(stamps[m], Minute)
Kept(m) == Younger(stamps[m], Hour)

Refused(m) ==
  \/ Len(Younger(Kept(m), Minute)) >= PerMinute
  \/ Len(Kept(m)) >= PerHour

Refuse(m) ==
  /\ Refused(m)
  /\ stamps' = [stamps EXCEPT ![m] = Kept(m)]
  /\ UNCHANGED <<session, issued, bio, press, role, nickname, posted, asked>>

\* An accepted command counts before its handle is looked at.
Count(m) ==
  /\ ~Refused(m)
  /\ stamps' = [stamps EXCEPT ![m] = Append(Kept(m), 0)]
  /\ asked' = [asked EXCEPT ![m] = Append(@, 0)]

InvalidHandle(m) ==
  /\ Count(m)
  /\ UNCHANGED <<session, issued, bio, press, role, nickname, posted>>

IssueCode(m, h) ==
  /\ Len(issued) < MaxCodes
  /\ Count(m)
  /\ issued' = Append(issued, [member |-> m, handle |-> h])
  /\ session' = [session EXCEPT ![m] = [handle |-> h, code |-> Len(issued'), age |-> 0]]
  /\ UNCHANGED <<bio, press, role, nickname, posted>>

-----------------------------------------------------------------------------
(* The button                                                              *)

Expired(s) == s.age > SessionTtl

\* getUserVerificationData: the session and the sessions left
Live(m) == session[m] # NoSession /\ ~Expired(session[m])
SessionAfterRead(m) ==
  [session EXCEPT ![m] = IF Expired(@) THEN NoSession ELSE @]

Go(p, stage) == press' = [press EXCEPT ![p].stage = stage]
End(p) == press' = [press EXCEPT ![p] = Idle]

\* The button is pressed; deferReply is under way.
PressButton(p, m) ==
  /\ press[p] = Idle
  /\ press' = [press EXCEPT ![p] =
       [stage |-> "deferring", member |-> m, handle |-> None, code |-> 0]]
  /\ UNCHANGED <<stamps, session, issued, bio, role, nickname, posted, asked>>

\* deferReply throws and the press ends, or the session is looked up: without
\* one the member is told to start again.
Deferred(p) ==
  /\ press[p].stage = "deferring"
  /\ \/ /\ End(p)
        /\ UNCHANGED session
     \/ /\ session' = SessionAfterRead(press[p].member)
        /\ IF Live(press[p].member) THEN Go(p, "config") ELSE End(p)
  /\ UNCHANGED <<stamps, issued, bio, role, nickname, posted, asked>>

\* The guild's configuration cannot be read, is missing or disables
\* verification: the session stays.
NotEnabled(p) ==
  /\ press[p].stage = "config"
  /\ End(p)
  /\ UNCHANGED <<stamps, session, issued, bio, role, nickname, posted, asked>>

\* Otherwise verifyRSIProfile reads the session again.  Without one it answers
\* verified: false before it looks at any page.
StartVerify(p) ==
  LET m == press[p].member IN
  /\ press[p].stage = "config"
  /\ session' = SessionAfterRead(m)
  /\ press' = [press EXCEPT ![p] =
       IF Live(m)
       THEN [@ EXCEPT !.stage = "fetching", !.handle = session[m].handle,
                      !.code = session[m].code]
       ELSE [@ EXCEPT !.stage = "removing"]]
  /\ UNCHANGED <<stamps, issued, bio, role, nickname, posted, asked>>

\* The page is fetched and parsed.  It shows the code or not; a fetch or a parse
\* that throws counts as not verified.
Shows(p) == press[p].code \in bio[press[p].handle]
PassesUnparsed == {TRUE}
AfterFailedParse == {FALSE}
SessionHandle(p) == session[press[p].member].handle
PageHandle(p) == press[p].handle

Fetched(p) ==
  /\ press[p].stage = "fetching"
  /\ \E verified \in {Shows(p)} \cup AfterFailedParse :
       press' = [press EXCEPT ![p].stage = IF verified THEN "assigning" ELSE "removing",
                              ![p].handle = PageHandle(p)]
  /\ UNCHANGED <<stamps, session, issued, bio, role, nickname, posted, asked>>

\* assignVerifiedRole: the role is added, or the member, the role or the
\* permission is missing or Discord refuses.  A nickname needs the permission
\* and a handle scraped from the page.
AssignRole(p) ==
  /\ press[p].stage = "assigning"
  /\ \/ /\ role' = role \cup {press[p].member}
        /\ Go(p, "naming") \/ Go(p, "replying")
     \/ /\ UNCHANGED role
        /\ Go(p, "replying")
  /\ UNCHANGED <<stamps, session, issued, bio, nickname, posted, asked>>

SetNickname(p) ==
  /\ press[p].stage = "naming"
  /\ \/ nickname' = [nickname EXCEPT ![press[p].member] = press[p].handle]
     \/ UNCHANGED nickname
  /\ Go(p, "replying")
  /\ UNCHANGED <<stamps, session, issued, bio, role, posted, asked>>

\* removeVerifiedRole, which may fail in the same ways
RemoveRole(p) ==
  /\ press[p].stage = "removing"
  /\ role' \in {role, role \ {press[p].member}}
  /\ Go(p, "replying")
  /\ UNCHANGED <<stamps, session, issued, bio, nickname, posted, asked>>

\* After the reply, sent or not, the finally block clears whatever session the
\* member has.
Clear(p) ==
  /\ press[p].stage = "replying"
  /\ session' = [session EXCEPT ![press[p].member] = NoSession]
  /\ End(p)
  /\ UNCHANGED <<stamps, issued, bio, role, nickname, posted, asked>>

-----------------------------------------------------------------------------
(* Timers, the site, restarts                                              *)

\* purgeExpiredVerificationSessions and the hourly purge of timestamps
PurgeSessions ==
  /\ session' = [m \in Member |-> IF Expired(session[m]) THEN NoSession ELSE session[m]]
  /\ session' # session
  /\ UNCHANGED <<stamps, issued, bio, press, role, nickname, posted, asked>>

PurgeStamps ==
  /\ stamps' = [m \in Member |->
       IF stamps[m] # <<>> /\ stamps[m][Len(stamps[m])] >= Hour THEN <<>> ELSE stamps[m]]
  /\ stamps' # stamps
  /\ UNCHANGED <<session, issued, bio, press, role, nickname, posted, asked>>

Older(ages) == [i \in DOMAIN ages |-> IF ages[i] < Hour THEN ages[i] + 1 ELSE ages[i]]

Tick ==
  /\ stamps' = [m \in Member |-> Older(stamps[m])]
  /\ asked' = [m \in Member |-> Younger(Older(asked[m]), Hour)]
  /\ session' = [m \in Member |->
       IF session[m] = NoSession \/ session[m].age = MaxAge THEN session[m]
       ELSE [session[m] EXCEPT !.age = @ + 1]]
  /\ UNCHANGED <<issued, bio, press, role, nickname, posted>>

\* A page's owner puts a code they know into the bio, or removes one.
EditBio(h, c) ==
  /\ c \in 1..Len(issued)
  /\ bio' = [bio EXCEPT ![h] = IF c \in @ THEN @ \ {c} ELSE {c}]
  /\ posted' = posted \cup ({h} \X bio'[h])
  /\ UNCHANGED <<stamps, session, issued, press, role, nickname, asked>>

Restart ==
  /\ stamps' = [m \in Member |-> <<>>]
  /\ session' = [m \in Member |-> NoSession]
  /\ press' = [p \in Press |-> Idle]
  /\ asked' = [m \in Member |-> <<>>]
  /\ UNCHANGED <<issued, bio, role, nickname, posted>>

Next ==
  \/ \E m \in Member : Refuse(m) \/ InvalidHandle(m) \/ \E h \in Handle : IssueCode(m, h)
  \/ \E p \in Press, m \in Member : PressButton(p, m)
  \/ \E p \in Press :
       \/ Deferred(p) \/ NotEnabled(p) \/ StartVerify(p) \/ Fetched(p)
       \/ AssignRole(p) \/ SetNickname(p) \/ RemoveRole(p) \/ Clear(p)
  \/ PurgeSessions \/ PurgeStamps \/ Tick \/ Restart
  \/ \E h \in Handle, c \in Code : EditBio(h, c)

Spec == Init /\ [][Next]_vars

-----------------------------------------------------------------------------
(* Properties *)

\* m has proved to own h: a code issued to m for h has stood on the page of h.
Proved(m, h) ==
  \E c \in 1..Len(issued) :
    issued[c] = [member |-> m, handle |-> h] /\ <<h, c>> \in posted

\* A member bears the nickname of a handle only after proving to own that very
\* handle, though the session may be replaced, expire or vanish at every await.
NicknamesAreProved ==
  \A m \in Member : nickname[m] # Own => Proved(m, nickname[m])

\* A member has the role only after proving some handle.
RolesAreProved == \A m \in role : \E h \in Handle : Proved(m, h)

\* In no minute and in no hour of one run of the bot are more commands counted
\* than the limits allow.
AskedWithinLimits ==
  \A m \in Member :
    /\ Len(Younger(asked[m], Minute)) <= PerMinute
    /\ Len(asked[m]) <= PerHour

\* "Callers are expected to guard against the no-session case before invoking
\* this function" (rsi.services.ts:27): the press that takes a role away has looked
\* at a page.  The guard is stale after the await for the configuration.
RoleIsRemovedAfterLook ==
  [][\A m \in role \ role' :
       \E p \in Press : press[p].member = m /\ press[p].stage = "removing"
                       /\ press[p].handle # None]_vars
=============================================================================
