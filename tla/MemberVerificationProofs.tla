----------------------- MODULE MemberVerificationProofs -----------------------
(***************************************************************************)
(* For any members, handles and overlapping presses, with sessions that    *)
(* are replaced, expire or vanish at every await: nobody has the verified  *)
(* role, or bears the name of a handle, without having proved to own it;   *)
(* and nobody is served more often than the rate limits allow.             *)
(***************************************************************************)
EXTENDS MemberVerification, SequenceTheorems, TLAPS

\* The part of the type invariant the argument rests on.  Ages and rate limits
\* play no part in it.
SafeType ==
  /\ session \in [Member -> [handle : Handle \cup {None}, code : Nat, age : Nat]]
  /\ issued \in Seq([member : Member, handle : Handle])
  /\ bio \in [Handle -> SUBSET Nat]
  /\ press \in [Press -> [stage : Stage, member : Member \cup {None},
                          handle : Handle \cup {None}, code : Nat]]
  /\ role \subseteq Member
  /\ nickname \in [Member -> Handle \cup {Own}]

\* Code c was issued to m for h.
IssuedTo(m, h, c) == c \in 1..Len(issued) /\ issued[c] = [member |-> m, handle |-> h]

\* A session holds the code that was issued with it.
SessionsAreIssued ==
  \A m \in Member :
    session[m] # NoSession => IssuedTo(m, session[m].handle, session[m].code)

\* What a page shows, it has shown.
PagesArePosted == \A h \in Handle : \A c \in bio[h] : <<h, c>> \in posted

\* A press that looks at a page does so for the member, handle and code of one
\* session, even if that session is gone; a press beyond the look has a proof.
PressesAreIssued ==
  \A p \in Press :
    /\ press[p].stage # "idle" => press[p].member \in Member
    /\ press[p].stage = "fetching" =>
         IssuedTo(press[p].member, press[p].handle, press[p].code)
    /\ press[p].stage \in {"assigning", "naming"} =>
         Proved(press[p].member, press[p].handle)

\* The inductive invariant
IInv ==
  /\ SafeType
  /\ SessionsAreIssued
  /\ PagesArePosted
  /\ PressesAreIssued
  /\ NicknamesAreProved
  /\ RolesAreProved

-----------------------------------------------------------------------------

\* Codes and pages only accumulate, so what is proved stays proved.
LEMMA ProofsStay ==
  ASSUME SafeType, SafeType', posted \subseteq posted',
         Len(issued) <= Len(issued'),
         \A c \in 1..Len(issued) : issued'[c] = issued[c]
  PROVE  /\ \A m \in Member, h \in Handle : Proved(m, h) => Proved(m, h)'
         /\ \A m \in Member : \A h, c : IssuedTo(m, h, c) => IssuedTo(m, h, c)'
<1>1. Len(issued) \in Nat /\ Len(issued') \in Nat
  BY DEF SafeType
<1> QED BY <1>1 DEF Proved, IssuedTo

\* What is issued is issued for a handle.
LEMMA IssuedForHandle ==
  ASSUME SafeType, NEW m, NEW h, NEW c, IssuedTo(m, h, c)
  PROVE  m \in Member /\ h \in Handle
<1>1. issued[c] \in [member : Member, handle : Handle]
  BY DEF SafeType, IssuedTo
<1> QED BY <1>1 DEF IssuedTo

\* The inductive invariant holds initially.
LEMMA InitInv == Init => IInv
  BY DEF Init, IInv, SafeType, SessionsAreIssued, PagesArePosted, PressesAreIssued,
         NicknamesAreProved, RolesAreProved, NoSession, Idle, Stage


\* A step that issues no code, shows nothing new and changes no role and no
\* nickname keeps the invariant if it keeps sessions or drops them, and presses
\* do not get ahead.
LEMMA QuietStep ==
  ASSUME IInv, UNCHANGED <<issued, bio, role, nickname, posted>>,
         session' \in [Member -> [handle : Handle \cup {None}, code : Nat, age : Nat]],
         press' \in [Press -> [stage : Stage, member : Member \cup {None},
                               handle : Handle \cup {None}, code : Nat]],
         \A m \in Member : session'[m] # NoSession =>
           /\ session[m] # NoSession
           /\ session'[m].handle = session[m].handle
           /\ session'[m].code = session[m].code,
         \A p \in Press :
           \/ press'[p] = press[p]
           \/ press'[p].stage \in {"idle", "replying"}
                /\ (press'[p].stage # "idle" => press'[p].member \in Member)
           \/ /\ press'[p].stage \in {"deferring", "config", "removing"}
              /\ press'[p].member \in Member
  PROVE  IInv'
<1>1. SafeType'
  BY DEF IInv, SafeType
<1>2. SessionsAreIssued' /\ PagesArePosted'
  BY DEF IInv, SessionsAreIssued, PagesArePosted, IssuedTo
<1>3. PressesAreIssued'
  <2> SUFFICES ASSUME NEW p \in Press
               PROVE  /\ press'[p].stage # "idle" => press'[p].member \in Member
                      /\ press'[p].stage = "fetching" =>
                           IssuedTo(press[p].member, press[p].handle, press[p].code)'
                      /\ press'[p].stage \in {"assigning", "naming"} =>
                           Proved(press[p].member, press[p].handle)'
    BY DEF PressesAreIssued
  <2>1. CASE press'[p] = press[p]
    BY <2>1 DEF IInv, PressesAreIssued, IssuedTo, Proved
  <2>2. CASE press'[p] # press[p]
    BY <2>2
  <2> QED BY <2>1, <2>2
<1>4. NicknamesAreProved' /\ RolesAreProved'
  BY DEF IInv, NicknamesAreProved, RolesAreProved, Proved
<1> QED BY <1>1, <1>2, <1>3, <1>4 DEF IInv

\* getUserVerificationData may drop a session and changes none.
LEMMA ReadKeeps ==
  ASSUME SafeType, NEW m \in Member
  PROVE  /\ SessionAfterRead(m) \in [Member -> [handle : Handle \cup {None}, code : Nat, age : Nat]]
         /\ \A n \in Member : SessionAfterRead(m)[n] # NoSession =>
              SessionAfterRead(m)[n] = session[n]
  BY DEF SafeType, SessionAfterRead, NoSession

\* /verify issues a code with a session of its own.
LEMMA IssueKeeps ==
  ASSUME IInv, NEW m \in Member, NEW h \in Handle, IssueCode(m, h)
  PROVE  IInv'
<1>1. /\ issued' = Append(issued, [member |-> m, handle |-> h])
      /\ session' = [session EXCEPT ![m] = [handle |-> h, code |-> Len(issued'), age |-> 0]]
      /\ UNCHANGED <<bio, press, role, nickname, posted>>
  BY DEF IssueCode
<1>2. /\ issued \in Seq([member : Member, handle : Handle])
      /\ issued' \in Seq([member : Member, handle : Handle])
      /\ Len(issued) \in Nat /\ Len(issued') = Len(issued) + 1
      /\ \A c \in 1..Len(issued) : issued'[c] = issued[c]
      /\ issued'[Len(issued')] = [member |-> m, handle |-> h]
  BY <1>1 DEF IInv, SafeType
<1>3. SafeType'
  <2> USE DEF IInv, SafeType
  <2>1. session' \in [Member -> [handle : Handle \cup {None}, code : Nat, age : Nat]]
    BY <1>1, <1>2
  <2> QED BY <1>1, <1>2, <2>1
<1>4. /\ \A n \in Member, g \in Handle : Proved(n, g) => Proved(n, g)'
      /\ \A n \in Member : \A g, c : IssuedTo(n, g, c) => IssuedTo(n, g, c)'
  BY <1>1, <1>2, <1>3, ProofsStay DEF IInv
<1>5. SessionsAreIssued'
  <2> SUFFICES ASSUME NEW n \in Member, session'[n] # NoSession
               PROVE  IssuedTo(n, session[n].handle, session[n].code)'
    BY DEF SessionsAreIssued
  <2>1. CASE n = m
    <3>1. session'[n] = [handle |-> h, code |-> Len(issued'), age |-> 0]
      BY <1>1, <2>1 DEF IInv, SafeType
    <3> QED BY <3>1, <2>1, <1>2 DEF IssuedTo
  <2>2. CASE n # m
    <3>1. session'[n] = session[n]
      BY <1>1, <2>2 DEF IInv, SafeType
    <3> QED BY <3>1, <1>4 DEF IInv, SessionsAreIssued
  <2> QED BY <2>1, <2>2
<1>6. PagesArePosted'
  BY <1>1 DEF IInv, PagesArePosted
<1>7. PressesAreIssued'
  <2> SUFFICES ASSUME NEW p \in Press
               PROVE  /\ press[p].stage # "idle" => press[p].member \in Member
                      /\ press[p].stage = "fetching" =>
                           IssuedTo(press[p].member, press[p].handle, press[p].code)'
                      /\ press[p].stage \in {"assigning", "naming"} =>
                           Proved(press[p].member, press[p].handle)'
    BY <1>1 DEF PressesAreIssued
  <2>1. CASE press[p].stage = "fetching"
    BY <2>1, <1>1, <1>4 DEF IInv, PressesAreIssued, IssuedTo
  <2>2. CASE press[p].stage \in {"assigning", "naming"}
    <3>1. Proved(press[p].member, press[p].handle) /\ press[p].member \in Member
      BY <2>2 DEF IInv, PressesAreIssued
    <3>2. press[p].handle \in Handle
      BY <3>1, IssuedForHandle DEF IInv, Proved, IssuedTo
    <3> QED BY <3>1, <3>2, <1>1, <1>4, <2>2 DEF Proved
  <2>3. CASE press[p].stage \notin {"fetching", "assigning", "naming"}
    BY <2>3 DEF IInv, PressesAreIssued
  <2> QED BY <2>1, <2>2, <2>3 DEF IInv, PressesAreIssued
<1>8. NicknamesAreProved'
  BY <1>1, <1>4 DEF IInv, SafeType, NicknamesAreProved
<1>9. RolesAreProved'
  BY <1>1, <1>4 DEF IInv, SafeType, RolesAreProved
<1> QED BY <1>3, <1>5, <1>6, <1>7, <1>8, <1>9 DEF IInv

-----------------------------------------------------------------------------
\* A press looks at the page of the session it finds.
LEMMA StartVerifyKeeps ==
  ASSUME IInv, NEW p \in Press, StartVerify(p)
  PROVE  IInv'
<1> DEFINE m == press[p].member
<1>1. /\ press[p].stage = "config" /\ m \in Member
      /\ UNCHANGED <<issued, bio, role, nickname, posted>>
      /\ session' = SessionAfterRead(m)
  BY DEF StartVerify, IInv, PressesAreIssued
<1>2. /\ session' \in [Member -> [handle : Handle \cup {None}, code : Nat, age : Nat]]
      /\ \A n \in Member : session'[n] # NoSession => session'[n] = session[n]
  BY <1>1, ReadKeeps DEF IInv
<1>3. CASE Live(m)
  <2>1. press' = [press EXCEPT ![p] = [press[p] EXCEPT !.stage = "fetching",
                    !.handle = session[m].handle, !.code = session[m].code]]
    BY <1>3 DEF StartVerify
  <2>2. /\ press'[p].stage = "fetching" /\ press'[p].member = m
        /\ press'[p].handle = session[m].handle /\ press'[p].code = session[m].code
        /\ \A q \in Press \ {p} : press'[q] = press[q]
    BY <2>1 DEF IInv, SafeType
  <2>3. SafeType'
    BY ZenonT(60), <1>1, <1>2, <2>1 DEF IInv, SafeType, Stage
  <2>4. SessionsAreIssued' /\ PagesArePosted'
    BY <1>1, <1>2 DEF IInv, SessionsAreIssued, PagesArePosted, IssuedTo
  <2>5. IssuedTo(m, session[m].handle, session[m].code)
    BY <1>1, <1>3 DEF IInv, SessionsAreIssued, Live
  <2>6. PressesAreIssued'
    BY ZenonT(60), <1>1, <2>2, <2>5 DEF IInv, PressesAreIssued, IssuedTo, Proved
  <2>7. NicknamesAreProved' /\ RolesAreProved'
    BY <1>1 DEF IInv, NicknamesAreProved, RolesAreProved, Proved
  <2> QED BY <2>3, <2>4, <2>6, <2>7 DEF IInv
<1>4. CASE ~Live(m)
  <2>1. press' = [press EXCEPT ![p] = [press[p] EXCEPT !.stage = "removing"]]
    BY <1>4 DEF StartVerify
  <2>2. press' \in [Press -> [stage : Stage, member : Member \cup {None},
                              handle : Handle \cup {None}, code : Nat]]
    BY ZenonT(60), <2>1 DEF IInv, SafeType, Stage
  <2>3. \A q \in Press :
          \/ press'[q] = press[q]
          \/ press'[q].stage = "removing" /\ press'[q].member \in Member
    BY <2>1, <1>1 DEF IInv, SafeType
  <2> QED BY <1>1, <1>2, <2>2, <2>3, QuietStep
<1> QED BY <1>3, <1>4

\* The look itself: a code found on the page of the press's own handle is a
\* proof, and a page that could not be parsed proves nothing.
LEMMA FetchedKeeps ==
  ASSUME IInv, NEW p \in Press, Fetched(p)
  PROVE  IInv'
<1> DEFINE m == press[p].member
           h == press[p].handle
<1>1. /\ press[p].stage = "fetching" /\ m \in Member /\ h \in Handle
      /\ IssuedTo(m, h, press[p].code)
      /\ UNCHANGED <<session, issued, bio, role, nickname, posted>>
  BY IssuedForHandle DEF Fetched, IInv, PressesAreIssued
<1>2. PICK verified \in {Shows(p), FALSE} :
        press' = [press EXCEPT ![p].stage = IF verified THEN "assigning" ELSE "removing",
                               ![p].handle = PageHandle(p)]
  BY DEF Fetched, AfterFailedParse
<1>3. press' = [press EXCEPT ![p] = [press[p] EXCEPT
                  !.stage = IF verified THEN "assigning" ELSE "removing"]]
  BY <1>2 DEF PageHandle, IInv, SafeType
<1>4. /\ press'[p].stage = (IF verified THEN "assigning" ELSE "removing")
      /\ press'[p].member = m /\ press'[p].handle = h
      /\ \A q \in Press \ {p} : press'[q] = press[q]
  BY <1>3 DEF IInv, SafeType
<1>5. verified => Proved(m, h)
  <2> SUFFICES ASSUME Shows(p) PROVE Proved(m, h)
    BY <1>2
  <2>1. <<h, press[p].code>> \in posted
    BY <1>1 DEF Shows, IInv, PagesArePosted
  <2> QED BY <2>1, <1>1 DEF Proved, IssuedTo
<1>6. SafeType'
  BY ZenonT(60), <1>1, <1>3 DEF IInv, SafeType, Stage
<1>7. SessionsAreIssued' /\ PagesArePosted'
  BY <1>1 DEF IInv, SessionsAreIssued, PagesArePosted, IssuedTo
<1>8. PressesAreIssued'
  BY <1>1, <1>4, <1>5 DEF IInv, PressesAreIssued, IssuedTo, Proved
<1>9. NicknamesAreProved' /\ RolesAreProved'
  BY <1>1 DEF IInv, NicknamesAreProved, RolesAreProved, Proved
<1> QED BY <1>6, <1>7, <1>8, <1>9 DEF IInv

\* Role and nickname are given to the member and for the handle of a proof.
LEMMA AssignKeeps ==
  ASSUME IInv, NEW p \in Press, AssignRole(p) \/ SetNickname(p)
  PROVE  IInv'
<1> DEFINE m == press[p].member
           h == press[p].handle
<1>1. /\ m \in Member /\ Proved(m, h)
      /\ UNCHANGED <<session, issued, bio, posted>>
      /\ role' \in {role, role \cup {m}}
      /\ nickname' \in {nickname, [nickname EXCEPT ![m] = h]}
      /\ Go(p, "naming") \/ Go(p, "replying")
  BY DEF AssignRole, SetNickname, IInv, PressesAreIssued
<1>2. h \in Handle
  BY <1>1, IssuedForHandle DEF Proved, IssuedTo, IInv
<1>3. /\ press'[p].stage \in {"naming", "replying"}
      /\ press'[p].member = m /\ press'[p].handle = h
      /\ \A q \in Press \ {p} : press'[q] = press[q]
      /\ press' \in [Press -> [stage : Stage, member : Member \cup {None},
                               handle : Handle \cup {None}, code : Nat]]
  <2>1. PICK stage \in {"naming", "replying"} : press' = [press EXCEPT ![p].stage = stage]
    BY <1>1 DEF Go
  <2> QED BY ZenonT(60), <2>1 DEF IInv, SafeType, Stage
<1>4. SafeType'
  BY <1>1, <1>2, <1>3 DEF IInv, SafeType
<1>5. SessionsAreIssued' /\ PagesArePosted'
  BY <1>1 DEF IInv, SessionsAreIssued, PagesArePosted, IssuedTo
<1>6. PressesAreIssued'
  BY ZenonT(60), <1>1, <1>3 DEF IInv, PressesAreIssued, IssuedTo, Proved
<1>7. NicknamesAreProved'
  <2> SUFFICES ASSUME NEW n \in Member, nickname'[n] # Own
               PROVE  Proved(n, nickname'[n])
    BY <1>1 DEF NicknamesAreProved, Proved
  <2>1. \/ nickname'[n] = nickname[n]
        \/ n = m /\ nickname'[n] = h
    BY <1>1 DEF IInv, SafeType
  <2> QED BY <2>1, <1>1 DEF IInv, NicknamesAreProved
<1>8. RolesAreProved'
  <2>1. \A n \in role : \E g \in Handle : Proved(n, g)
    BY DEF IInv, RolesAreProved
  <2>2. \A n \in role' : \E g \in Handle : Proved(n, g)
    BY <1>1, <1>2, <2>1
  <2> QED BY <2>2, <1>1 DEF RolesAreProved, Proved
<1> QED BY <1>4, <1>5, <1>6, <1>7, <1>8 DEF IInv

\* The role may be taken away.
LEMMA RemoveKeeps ==
  ASSUME IInv, NEW p \in Press, RemoveRole(p)
  PROVE  IInv'
<1>1. /\ UNCHANGED <<session, issued, bio, nickname, posted>>
      /\ role' \subseteq role
      /\ press[p].stage = "removing" /\ press[p].member \in Member
      /\ Go(p, "replying")
  BY DEF RemoveRole, IInv, PressesAreIssued
<1>2. /\ press'[p].stage = "replying" /\ press'[p].member = press[p].member
      /\ \A q \in Press \ {p} : press'[q] = press[q]
      /\ press' \in [Press -> [stage : Stage, member : Member \cup {None},
                               handle : Handle \cup {None}, code : Nat]]
  BY ZenonT(60), <1>1 DEF Go, IInv, SafeType, Stage
<1>3. SafeType'
  BY <1>1, <1>2 DEF IInv, SafeType
<1>4. SessionsAreIssued' /\ PagesArePosted'
  BY <1>1 DEF IInv, SessionsAreIssued, PagesArePosted, IssuedTo
<1>5. PressesAreIssued'
  BY <1>1, <1>2 DEF IInv, PressesAreIssued, IssuedTo, Proved
<1>6. NicknamesAreProved' /\ RolesAreProved'
  BY <1>1 DEF IInv, NicknamesAreProved, RolesAreProved, Proved
<1> QED BY <1>3, <1>4, <1>5, <1>6 DEF IInv

-----------------------------------------------------------------------------
\* Every other step is quiet.
LEMMA OtherStepsKeep ==
  ASSUME IInv,
         \/ \E m \in Member : Refuse(m) \/ InvalidHandle(m)
         \/ \E p \in Press, m \in Member : PressButton(p, m)
         \/ \E p \in Press : Deferred(p) \/ NotEnabled(p) \/ Clear(p)
         \/ PurgeSessions \/ PurgeStamps \/ Tick \/ Restart
         \/ UNCHANGED vars
  PROVE  IInv'
<1> USE DEF IInv, SafeType
<1>1. ASSUME NEW m \in Member, Refuse(m) \/ InvalidHandle(m) PROVE IInv'
  <2>1. UNCHANGED <<session, issued, bio, press, role, nickname, posted>>
    BY <1>1 DEF Refuse, InvalidHandle
  <2> HIDE DEF IInv
  <2> QED BY <2>1, QuietStep DEF IInv
<1>2. ASSUME NEW p \in Press, NEW m \in Member, PressButton(p, m) PROVE IInv'
  <2>1. /\ UNCHANGED <<session, issued, bio, role, nickname, posted>>
        /\ press' = [press EXCEPT ![p] = [stage |-> "deferring", member |-> m,
                                          handle |-> None, code |-> 0]]
    BY <1>2 DEF PressButton
  <2>2. /\ press' \in [Press -> [stage : Stage, member : Member \cup {None},
                                 handle : Handle \cup {None}, code : Nat]]
        /\ press'[p].stage = "deferring" /\ press'[p].member = m
        /\ \A q \in Press \ {p} : press'[q] = press[q]
    BY <2>1 DEF Stage
  <2> HIDE DEF IInv
  <2> QED BY <2>1, <2>2, QuietStep DEF IInv
<1>3. ASSUME NEW p \in Press, Deferred(p) PROVE IInv'
  <2> DEFINE m == press[p].member
  <2>1. /\ UNCHANGED <<issued, bio, role, nickname, posted>>
        /\ press[p].stage = "deferring" /\ m \in Member
        /\ session' \in {session, SessionAfterRead(m)}
        /\ Go(p, "config") \/ End(p)
    BY <1>3 DEF Deferred, PressesAreIssued
  <2>2. /\ session' \in [Member -> [handle : Handle \cup {None}, code : Nat, age : Nat]]
        /\ \A n \in Member : session'[n] # NoSession => session'[n] = session[n]
    BY <2>1, ReadKeeps
  <2>3. /\ press' \in [Press -> [stage : Stage, member : Member \cup {None},
                                 handle : Handle \cup {None}, code : Nat]]
        /\ \/ press'[p].stage = "idle"
           \/ press'[p].stage = "config" /\ press'[p].member = m
        /\ \A q \in Press \ {p} : press'[q] = press[q]
    <3>1. CASE Go(p, "config")
      BY <3>1 DEF Go, Stage
    <3>2. CASE End(p)
      BY <3>2 DEF End, Idle, Stage
    <3> QED BY <2>1, <3>1, <3>2
  <2> HIDE DEF IInv
  <2> QED BY <2>1, <2>2, <2>3, QuietStep DEF IInv
<1>4. ASSUME NEW p \in Press, NotEnabled(p) \/ Clear(p) PROVE IInv'
  <2>1. /\ UNCHANGED <<issued, bio, role, nickname, posted>>
        /\ press[p].stage # "idle" /\ press[p].member \in Member
        /\ session' \in {session, [session EXCEPT ![press[p].member] = NoSession]}
        /\ press' = [press EXCEPT ![p] = Idle]
    BY <1>4 DEF NotEnabled, Clear, End, PressesAreIssued
  <2>2. /\ session' \in [Member -> [handle : Handle \cup {None}, code : Nat, age : Nat]]
        /\ \A n \in Member : session'[n] # NoSession => session'[n] = session[n]
    <3>1. NoSession \in [handle : Handle \cup {None}, code : Nat, age : Nat]
      BY DEF NoSession
    <3>2. \A n \in Member : session'[n] \in {session[n], NoSession}
      BY <2>1
    <3>3. DOMAIN session' = Member /\ session' = [n \in Member |-> session'[n]]
      BY <2>1
    <3> QED BY <3>1, <3>2, <3>3
  <2>3. /\ press' \in [Press -> [stage : Stage, member : Member \cup {None},
                                 handle : Handle \cup {None}, code : Nat]]
        /\ press'[p].stage = "idle"
        /\ \A q \in Press \ {p} : press'[q] = press[q]
    BY <2>1 DEF Idle, Stage
  <2> HIDE DEF IInv
  <2> QED BY <2>1, <2>2, <2>3, QuietStep DEF IInv
<1>5. CASE PurgeSessions
  <2>1. /\ UNCHANGED <<issued, bio, press, role, nickname, posted>>
        /\ session' = [m \in Member |-> IF Expired(session[m]) THEN NoSession ELSE session[m]]
    BY <1>5 DEF PurgeSessions
  <2>2. /\ session' \in [Member -> [handle : Handle \cup {None}, code : Nat, age : Nat]]
        /\ \A n \in Member : session'[n] # NoSession => session'[n] = session[n]
    <3>1. NoSession \in [handle : Handle \cup {None}, code : Nat, age : Nat]
      BY DEF NoSession
    <3>2. \A n \in Member : session'[n] \in {session[n], NoSession}
      BY <2>1
    <3> QED BY <2>1, <3>1, <3>2
  <2> HIDE DEF IInv
  <2> QED BY <2>1, <2>2, QuietStep DEF IInv
<1>6. CASE Tick
  <2>1. /\ UNCHANGED <<issued, bio, press, role, nickname, posted>>
        /\ session' = [m \in Member |->
             IF session[m] = NoSession \/ session[m].age = MaxAge THEN session[m]
             ELSE [session[m] EXCEPT !.age = session[m].age + 1]]
    BY <1>6 DEF Tick
  <2>2. ASSUME NEW n \in Member
        PROVE  /\ session'[n] \in [handle : Handle \cup {None}, code : Nat, age : Nat]
               /\ session'[n].handle = session[n].handle
               /\ session'[n].code = session[n].code
               /\ session[n] = NoSession => session'[n] = NoSession
    <3> DEFINE old == session[n]
    <3>1. old \in [handle : Handle \cup {None}, code : Nat, age : Nat]
      OBVIOUS
    <3>2. CASE old = NoSession \/ old.age = MaxAge
      BY <2>1, <3>1, <3>2
    <3>3. CASE ~(old = NoSession \/ old.age = MaxAge)
      <4>1. session'[n] = [old EXCEPT !.age = old.age + 1]
        BY <2>1, <3>3
      <4> HIDE DEF old
      <4>2. old.age + 1 \in Nat
        BY <3>1
      <4>3. session'[n] \in [handle : Handle \cup {None}, code : Nat, age : Nat]
            /\ session'[n].handle = old.handle /\ session'[n].code = old.code
        BY <4>1, <4>2, <3>1
      <4> QED BY <4>3, <3>3 DEF old
    <3> QED BY <3>2, <3>3
  <2>3. session' \in [Member -> [handle : Handle \cup {None}, code : Nat, age : Nat]]
    BY <2>1, <2>2
  <2> HIDE DEF IInv
  <2> QED BY <2>1, <2>2, <2>3, QuietStep DEF IInv
<1>7. CASE Restart
  <2>1. /\ UNCHANGED <<issued, bio, role, nickname, posted>>
        /\ session' = [m \in Member |-> NoSession]
        /\ press' = [p \in Press |-> Idle]
    BY <1>7 DEF Restart
  <2>2. /\ session' \in [Member -> [handle : Handle \cup {None}, code : Nat, age : Nat]]
        /\ press' \in [Press -> [stage : Stage, member : Member \cup {None},
                                 handle : Handle \cup {None}, code : Nat]]
        /\ \A m \in Member : session'[m] = NoSession
        /\ \A p \in Press : press'[p].stage = "idle"
    BY <2>1 DEF NoSession, Idle, Stage
  <2> HIDE DEF IInv
  <2> QED BY <2>1, <2>2, QuietStep DEF IInv
<1>8. CASE PurgeStamps \/ UNCHANGED vars
  <2>1. UNCHANGED <<session, issued, bio, press, role, nickname, posted>>
    BY <1>8 DEF PurgeStamps, vars
  <2> HIDE DEF IInv
  <2> QED BY <2>1, QuietStep DEF IInv
<1> HIDE DEF IInv
<1> QED BY <1>1, <1>2, <1>3, <1>4, <1>5, <1>6, <1>7, <1>8

\* A page that shows one code more has shown it.
LEMMA EditKeeps ==
  ASSUME IInv, NEW h \in Handle, NEW c \in Code, EditBio(h, c)
  PROVE  IInv'
<1>1. /\ UNCHANGED <<session, issued, press, role, nickname>>
      /\ bio' = [bio EXCEPT ![h] = IF c \in bio[h] THEN bio[h] \ {c} ELSE {c}]
      /\ posted' = posted \cup ({h} \X bio'[h])
      /\ c \in Nat
  BY VerificationAssumption DEF EditBio, Code
<1>2. SafeType'
  BY <1>1 DEF IInv, SafeType
<1>3. SessionsAreIssued'
  BY <1>1 DEF IInv, SessionsAreIssued, IssuedTo
<1>4. PagesArePosted'
  <2> SUFFICES ASSUME NEW g \in Handle, NEW d \in bio'[g]
               PROVE  <<g, d>> \in posted'
    BY DEF PagesArePosted
  <2>1. CASE g = h
    BY <2>1, <1>1
  <2>2. CASE g # h
    BY <2>2, <1>1 DEF IInv, PagesArePosted, SafeType
  <2> QED BY <2>1, <2>2
<1>5. PressesAreIssued'
  BY <1>1 DEF IInv, PressesAreIssued, IssuedTo, Proved
<1>6. NicknamesAreProved' /\ RolesAreProved'
  BY <1>1 DEF IInv, NicknamesAreProved, RolesAreProved, Proved
<1> QED BY <1>2, <1>3, <1>4, <1>5, <1>6 DEF IInv

\* The invariant is inductive.
LEMMA NextInv == IInv /\ [Next]_vars => IInv'
<1> SUFFICES ASSUME IInv, [Next]_vars PROVE IInv'
  OBVIOUS
<1>1. ASSUME NEW m \in Member, NEW h \in Handle, IssueCode(m, h) PROVE IInv'
  BY <1>1, IssueKeeps
<1>2. ASSUME NEW p \in Press, StartVerify(p) PROVE IInv'
  BY <1>2, StartVerifyKeeps
<1>3. ASSUME NEW p \in Press, Fetched(p) PROVE IInv'
  BY <1>3, FetchedKeeps
<1>4. ASSUME NEW p \in Press, AssignRole(p) \/ SetNickname(p) PROVE IInv'
  BY <1>4, AssignKeeps
<1>5. ASSUME NEW p \in Press, RemoveRole(p) PROVE IInv'
  BY <1>5, RemoveKeeps
<1>6. ASSUME NEW h \in Handle, NEW c \in Code, EditBio(h, c) PROVE IInv'
  BY <1>6, EditKeeps
<1> QED BY <1>1, <1>2, <1>3, <1>4, <1>5, <1>6, OtherStepsKeep DEF Next

\* The invariant holds in every reachable state.
LEMMA Inductive == Spec => []IInv
  BY InitInv, NextInv, PTL DEF Spec

\* Nobody has the verified role without having proved to own some handle,
\* whatever happens to sessions during the awaits of a press.
THEOREM RolesFollowProof == Spec => []RolesAreProved
<1>1. IInv => RolesAreProved
  BY DEF IInv
<1> QED BY <1>1, Inductive, PTL

\* A member whom the bot has given the name of a handle has proved to own that
\* very handle, not the one of a later session.
THEOREM NicknamesFollowProof == Spec => []NicknamesAreProved
<1>1. IInv => NicknamesAreProved
  BY DEF IInv
<1> QED BY <1>1, Inductive, PTL

-----------------------------------------------------------------------------
(***************************************************************************)
(* The limits of /verify.  Commands are counted in the order of time, so   *)
(* for every window the younger ages of a list are its end.                *)
(***************************************************************************)

Ages == Seq(0..Hour)

\* The ages below w are those from place k on.
YoungFrom(s, w, k) ==
  /\ k \in 1..(Len(s) + 1)
  /\ \A i \in 1..Len(s) : s[i] < w <=> i >= k

InOrder(s) == \A w \in 0..Hour : \E k \in 1..(Len(s) + 1) : YoungFrom(s, w, k)

\* The commands of the last hour that were counted are the timestamps of it.
AskedAreKept ==
  /\ stamps \in [Member -> Ages]
  /\ asked \in [Member -> Ages]
  /\ \A m \in Member : InOrder(stamps[m]) /\ asked[m] = Younger(stamps[m], Hour)

LimitsInv == AskedAreKept /\ AskedWithinLimits

\* What a list of ages is.
LEMMA AgesAre ==
  ASSUME NEW s \in Ages
  PROVE  /\ Len(s) \in Nat
         /\ DOMAIN s = 1..Len(s)
         /\ \A i \in 1..Len(s) : s[i] \in 0..Hour /\ s[i] \in Nat
         /\ Hour \in Nat \ {0} /\ Minute \in Nat \ {0} /\ Minute <= Hour
BY VerificationAssumption DEF Ages

\* Which ages a filter keeps.
LEMMA YoungerIs ==
  ASSUME NEW s \in Ages, NEW w \in 0..Hour, NEW k, YoungFrom(s, w, k)
  PROVE  /\ Younger(s, w) \in Ages
         /\ Len(Younger(s, w)) = Len(s) - k + 1
         /\ \A i \in 1..Len(Younger(s, w)) : Younger(s, w)[i] = s[i + k - 1]
<1>1. Len(s) \in Nat /\ k \in 1..(Len(s) + 1)
  BY DEF Ages, YoungFrom
<1>2. \A j \in 1..(Len(s) + 1) :
        (\A i \in 1..Len(s) : s[i] < w <=> i >= j) => j = k
  <2> SUFFICES ASSUME NEW j \in 1..(Len(s) + 1), j # k,
                      \A i \in 1..Len(s) : s[i] < w <=> i >= j
               PROVE  FALSE
    OBVIOUS
  <2>1. CASE j < k
    <3>1. j \in 1..Len(s)
      BY <1>1, <2>1
    <3> QED BY <1>1, <2>1, <3>1 DEF YoungFrom
  <2>2. CASE k < j
    <3>1. k \in 1..Len(s)
      BY <1>1, <2>2
    <3> QED BY <1>1, <2>2, <3>1 DEF YoungFrom
  <2> QED BY <1>1, <2>1, <2>2
<1>3. (CHOOSE j \in 1..(Len(s) + 1) : \A i \in 1..Len(s) : s[i] < w <=> i >= j) = k
  BY <1>1, <1>2 DEF YoungFrom
<1>4. Younger(s, w) = SubSeq(s, k, Len(s))
  BY <1>3 DEF Younger
<1>5. \A i \in k..Len(s) : s[i] \in 0..Hour
  BY <1>1, AgesAre
<1>6. SubSeq(s, k, Len(s)) \in Ages
  BY <1>1, <1>5, SubSeqProperties DEF Ages
<1>7. Len(Younger(s, w)) = Len(s) - k + 1
  BY <1>1, <1>4, <1>5, SubSeqProperties DEF Ages
<1>8. \A i \in 1..Len(Younger(s, w)) : Younger(s, w)[i] = s[i + k - 1]
  BY <1>1, <1>4, <1>5, <1>7, SubSeqProperties DEF Ages
<1> QED BY <1>4, <1>6, <1>7, <1>8

\* The timestamps of the last hour are in order and all of the last hour.
LEMMA KeptAges ==
  ASSUME NEW s \in Ages, InOrder(s)
  PROVE  /\ Younger(s, Hour) \in Ages
         /\ InOrder(Younger(s, Hour))
         /\ Younger(Younger(s, Hour), Hour) = Younger(s, Hour)
<1> DEFINE a == Younger(s, Hour)
<1>0. Hour \in 0..Hour /\ Len(s) \in Nat
  BY VerificationAssumption DEF Ages
<1>1. PICK k \in 1..(Len(s) + 1) : YoungFrom(s, Hour, k)
  BY <1>0 DEF InOrder
<1>2. /\ a \in Ages /\ Len(a) = Len(s) - k + 1
      /\ \A i \in 1..Len(a) : a[i] = s[i + k - 1]
  BY <1>0, <1>1, YoungerIs
<1> HIDE DEF a
<1>3. ASSUME NEW w \in 0..Hour PROVE \E l \in 1..(Len(a) + 1) : YoungFrom(a, w, l)
  <2>1. PICK n \in 1..(Len(s) + 1) : YoungFrom(s, w, n)
    BY DEF InOrder
  <2>2. n >= k
    <3> SUFFICES ASSUME n < k PROVE FALSE
      OBVIOUS
    <3>1. n \in 1..Len(s)
      BY <1>0, <1>1
    <3>2. s[n] < w /\ ~(s[n] < Hour)
      BY <1>1, <2>1, <3>1 DEF YoungFrom
    <3>3. s[n] \in Nat /\ w \in Nat /\ Hour \in Nat /\ w <= Hour
      BY <3>1, AgesAre
    <3> QED BY <3>2, <3>3
  <2>3. n - k + 1 \in 1..(Len(a) + 1)
    BY <1>0, <1>2, <2>2
  <2>4. \A i \in 1..Len(a) : i + k - 1 \in 1..Len(s)
    BY <1>0, <1>2
  <2>5. \A i \in 1..Len(a) : a[i] < w <=> i >= n - k + 1
    BY <1>0, <1>2, <2>1, <2>4 DEF YoungFrom
  <2>6. YoungFrom(a, w, n - k + 1)
    BY <2>3, <2>5 DEF YoungFrom
  <2> QED BY <2>3, <2>6
<1>4. \A i \in 1..Len(a) : a[i] < Hour
  <2>1. \A i \in 1..Len(a) : i + k - 1 \in 1..Len(s) /\ i + k - 1 >= k
    BY <1>0, <1>2
  <2> QED BY <1>1, <1>2, <2>1 DEF YoungFrom
<1>5. Len(a) \in Nat
  BY <1>2 DEF Ages
<1>6. YoungFrom(a, Hour, 1)
  BY <1>4, <1>5 DEF YoungFrom
<1>7. /\ Younger(a, Hour) \in Ages /\ Len(Younger(a, Hour)) = Len(a)
      /\ \A i \in 1..Len(a) : Younger(a, Hour)[i] = a[i]
  <2>1. PICK l : l = 1
    OBVIOUS
  <2>2. /\ Younger(a, Hour) \in Ages /\ Len(Younger(a, Hour)) = Len(a) - l + 1
        /\ \A i \in 1..Len(Younger(a, Hour)) : Younger(a, Hour)[i] = a[i + l - 1]
    <3>1. a \in Ages /\ Hour \in 0..Hour /\ YoungFrom(a, Hour, l)
      BY <1>0, <1>2, <1>6, <2>1
    <3> QED BY <3>1, YoungerIs
  <2>3. Len(a) - l + 1 = Len(a) /\ \A i \in 1..Len(a) : i + l - 1 = i
    BY <1>5, <2>1
  <2> QED BY <2>2, <2>3
<1>8. Younger(a, Hour) = a
  BY <1>2, <1>7, SeqEqual DEF Ages
<1> QED BY <1>2, <1>3, <1>8 DEF InOrder, a

\* A command that is counted is the youngest of its minute and its hour.
LEMMA CountedAges ==
  ASSUME NEW a \in Ages, InOrder(a), Younger(a, Hour) = a
  PROVE  /\ Append(a, 0) \in Ages
         /\ InOrder(Append(a, 0))
         /\ Younger(Append(a, 0), Hour) = Append(a, 0)
         /\ Len(Append(a, 0)) = Len(a) + 1
         /\ Len(Younger(Append(a, 0), Minute)) = Len(Younger(a, Minute)) + 1
         /\ Len(Younger(a, Minute)) \in Nat
<1> DEFINE b == Append(a, 0)
<1>0. /\ Hour \in 1..Hour /\ Minute \in 1..Hour /\ 0 \in 0..Hour
      /\ Len(a) \in Nat
  BY VerificationAssumption DEF Ages
<1>1. /\ b \in Ages /\ Len(b) = Len(a) + 1 /\ b[Len(a) + 1] = 0
      /\ \A i \in 1..Len(a) : b[i] = a[i]
  BY <1>0, AppendProperties DEF Ages
<1> HIDE DEF b
<1>2. ASSUME NEW w \in 1..Hour, NEW k, YoungFrom(a, w, k)
      PROVE  YoungFrom(b, w, k)
  BY <1>0, <1>1, <1>2 DEF YoungFrom
<1>3. InOrder(b)
  <2> SUFFICES ASSUME NEW w \in 0..Hour
               PROVE  \E k \in 1..(Len(b) + 1) : YoungFrom(b, w, k)
    BY DEF InOrder
  <2>1. CASE w = 0
    <3>1. \A i \in 1..Len(b) : b[i] \in 0..Hour
      BY <1>1, AgesAre
    <3>2. YoungFrom(b, w, Len(b) + 1)
      BY <1>0, <1>1, <2>1, <3>1 DEF YoungFrom
    <3> QED BY <1>0, <1>1, <3>2
  <2>2. CASE w # 0
    <3>1. w \in 1..Hour
      BY <2>2
    <3>2. PICK k \in 1..(Len(a) + 1) : YoungFrom(a, w, k)
      BY DEF InOrder
    <3> QED BY <1>0, <1>1, <1>2, <3>1, <3>2
  <2> QED BY <2>1, <2>2
<1>4. PICK k \in 1..(Len(a) + 1) : YoungFrom(a, Minute, k)
  BY <1>0 DEF InOrder
<1>5. /\ Len(Younger(a, Minute)) = Len(a) - k + 1
      /\ Len(Younger(b, Minute)) = Len(b) - k + 1
  BY <1>0, <1>1, <1>2, <1>4, YoungerIs
<1>6. PICK n \in 1..(Len(a) + 1) : YoungFrom(a, Hour, n)
  BY <1>0 DEF InOrder
<1>7. n = 1
  BY <1>0, <1>6, YoungerIs
<1>8. /\ Younger(b, Hour) \in Ages /\ Len(Younger(b, Hour)) = Len(b)
      /\ \A i \in 1..Len(b) : Younger(b, Hour)[i] = b[i]
  BY <1>0, <1>1, <1>2, <1>6, <1>7, YoungerIs
<1>9. Younger(b, Hour) = b
  BY <1>1, <1>8, SeqEqual DEF Ages
<1> QED BY <1>0, <1>1, <1>3, <1>4, <1>5, <1>9 DEF b

\* An age that grows leaves the windows in order.
LEMMA OlderAges ==
  ASSUME NEW s \in Ages, InOrder(s)
  PROVE  /\ Older(s) \in Ages
         /\ InOrder(Older(s))
         /\ Len(Older(s)) = Len(s)
         /\ \A i \in 1..Len(s) :
              Older(s)[i] = IF s[i] < Hour THEN s[i] + 1 ELSE s[i]
<1> DEFINE t == Older(s)
<1>0. /\ Len(s) \in Nat /\ DOMAIN s = 1..Len(s)
      /\ \A i \in 1..Len(s) : s[i] \in 0..Hour /\ s[i] \in Nat
      /\ Hour \in Nat \ {0}
  BY AgesAre
<1>1. t = [i \in 1..Len(s) |-> IF s[i] < Hour THEN s[i] + 1 ELSE s[i]]
  BY <1>0 DEF Older
<1>2. \A i \in 1..Len(s) : /\ t[i] = (IF s[i] < Hour THEN s[i] + 1 ELSE s[i])
                           /\ t[i] \in 0..Hour
  BY <1>0, <1>1
<1>3. t \in [1..Len(s) -> 0..Hour]
  BY <1>1, <1>2
<1>4. t \in Ages /\ Len(t) = Len(s)
  <2>1. t \in Seq(0..Hour)
    BY <1>0, <1>3
  <2> QED BY <1>0, <1>3, <2>1, LenProperties DEF Ages
<1> HIDE DEF t
<1>5. InOrder(t)
  <2> SUFFICES ASSUME NEW w \in 0..Hour
               PROVE  \E k \in 1..(Len(t) + 1) : YoungFrom(t, w, k)
    BY DEF InOrder
  <2>1. CASE w = 0
    <3>1. YoungFrom(t, w, Len(t) + 1)
      BY <1>0, <1>2, <1>4, <2>1 DEF YoungFrom
    <3> QED BY <1>0, <1>4, <3>1
  <2>2. CASE w # 0
    <3>1. w - 1 \in 0..Hour /\ w \in Nat \ {0}
      BY <1>0, <2>2
    <3>2. PICK k \in 1..(Len(s) + 1) : YoungFrom(s, w - 1, k)
      BY <3>1 DEF InOrder
    <3>3. \A i \in 1..Len(s) : t[i] < w <=> s[i] < w - 1
      BY <1>0, <1>2, <3>1
    <3>4. YoungFrom(t, w, k)
      BY <1>4, <3>2, <3>3 DEF YoungFrom
    <3> QED BY <1>4, <3>4
  <2> QED BY <2>1, <2>2
<1> QED BY <1>2, <1>4, <1>5 DEF t

\* A tick ages the counted commands like the timestamps, and takes none into a
\* window.
LEMMA TickedAges ==
  ASSUME NEW s \in Ages, InOrder(s), NEW a \in Ages, a = Younger(s, Hour)
  PROVE  /\ Younger(Older(a), Hour) = Younger(Older(s), Hour)
         /\ Len(Younger(Older(a), Hour)) <= Len(a)
         /\ Len(Younger(Younger(Older(a), Hour), Minute)) <= Len(Younger(a, Minute))
         /\ Len(Younger(Younger(Older(a), Hour), Minute)) \in Nat
         /\ Len(Younger(a, Minute)) \in Nat
<1> DEFINE t == Older(s)
           b == Older(a)
           c == Younger(b, Hour)
<1>0. /\ Hour \in 1..Hour /\ Minute \in 1..Hour
      /\ Hour \in 0..Hour /\ Minute \in 0..Hour
      /\ Hour \in Nat /\ Minute \in Nat
      /\ Len(s) \in Nat /\ Len(a) \in Nat
  BY AgesAre
<1>1. PICK k \in 1..(Len(s) + 1) : YoungFrom(s, Hour, k)
  BY <1>0 DEF InOrder
<1>2. Len(a) = Len(s) - k + 1 /\ \A i \in 1..Len(a) : a[i] = s[i + k - 1]
  <2>1. /\ Len(Younger(s, Hour)) = Len(s) - k + 1
        /\ \A i \in 1..Len(Younger(s, Hour)) : Younger(s, Hour)[i] = s[i + k - 1]
    BY <1>0, <1>1, YoungerIs
  <2> QED BY <2>1
<1>3. InOrder(a)
  BY KeptAges
<1>4. /\ t \in Ages /\ InOrder(t) /\ Len(t) = Len(s)
      /\ \A i \in 1..Len(s) : t[i] = IF s[i] < Hour THEN s[i] + 1 ELSE s[i]
  BY OlderAges
<1>5. /\ b \in Ages /\ InOrder(b) /\ Len(b) = Len(a)
      /\ \A i \in 1..Len(a) : b[i] = IF a[i] < Hour THEN a[i] + 1 ELSE a[i]
  BY <1>3, OlderAges
<1>6. c \in Ages /\ InOrder(c)
  BY <1>5, KeptAges
<1> HIDE DEF t, b
<1>7. PICK n \in 1..(Len(t) + 1) : YoungFrom(t, Hour, n)
  BY <1>0, <1>4 DEF InOrder
<1>8. n >= k
  <2> SUFFICES ASSUME n < k PROVE FALSE
    OBVIOUS
  <2>1. n \in 1..Len(s) /\ s[n] \in 0..Hour
    BY <1>0, <1>1, <1>4 DEF Ages
  <2>2. t[n] < Hour /\ ~(s[n] < Hour)
    BY <1>0, <1>1, <1>4, <1>7, <2>1 DEF YoungFrom
  <2> QED BY <1>0, <1>4, <2>1, <2>2
<1>9. \A i \in 1..Len(a) : i + k - 1 \in 1..Len(s) /\ b[i] = t[i + k - 1]
  <2> TAKE i \in 1..Len(a)
  <2>1. i + k - 1 \in 1..Len(s)
    BY <1>0, <1>2
  <2>2. a[i] = s[i + k - 1]
    BY <1>2
  <2> QED BY <1>4, <1>5, <2>1, <2>2
<1>10. YoungFrom(b, Hour, n - k + 1)
  BY <1>0, <1>2, <1>4, <1>5, <1>7, <1>8, <1>9 DEF YoungFrom
<1>11. /\ c \in Ages /\ Len(c) = Len(b) - (n - k + 1) + 1
       /\ \A i \in 1..Len(c) : c[i] = b[i + (n - k + 1) - 1]
  <2>1. \A m : YoungFrom(b, Hour, m) =>
          /\ c \in Ages /\ Len(c) = Len(b) - m + 1
          /\ \A i \in 1..Len(c) : c[i] = b[i + m - 1]
    BY SMTT(60), <1>0, <1>5, YoungerIs
  <2> HIDE DEF c
  <2> QED BY <1>10, <2>1
<1>12. /\ Younger(t, Hour) \in Ages /\ Len(Younger(t, Hour)) = Len(t) - n + 1
       /\ \A i \in 1..Len(Younger(t, Hour)) : Younger(t, Hour)[i] = t[i + n - 1]
  <2>1. YoungFrom(t, Hour, n) =>
          /\ Younger(t, Hour) \in Ages /\ Len(Younger(t, Hour)) = Len(t) - n + 1
          /\ \A i \in 1..Len(Younger(t, Hour)) : Younger(t, Hour)[i] = t[i + n - 1]
    BY <1>0, <1>4, YoungerIs
  <2> QED BY <1>7, <2>1
<1> HIDE DEF c
<1>13. Len(c) = Len(Younger(t, Hour)) /\ Len(c) <= Len(a) /\ Len(c) \in Nat
  BY <1>0, <1>2, <1>4, <1>5, <1>8, <1>11, <1>12
<1>14. \A i \in 1..Len(c) : c[i] = Younger(t, Hour)[i]
  <2> TAKE i \in 1..Len(c)
  <2>1. i + (n - k + 1) - 1 \in 1..Len(a)
    BY <1>0, <1>2, <1>4, <1>5, <1>8, <1>11, <1>13
  <2>2. c[i] = t[(i + (n - k + 1) - 1) + k - 1]
    BY <1>9, <1>11, <2>1
  <2>3. (i + (n - k + 1) - 1) + k - 1 = i + n - 1
    BY <1>0
  <2> QED BY <1>12, <1>13, <2>2, <2>3
<1>15. c = Younger(t, Hour)
  BY <1>11, <1>12, <1>13, <1>14, SeqEqual DEF Ages
<1>16. PICK p \in 1..(Len(a) + 1) : YoungFrom(a, Minute, p)
  BY <1>0, <1>3 DEF InOrder
<1>17. PICK q \in 1..(Len(c) + 1) : YoungFrom(c, Minute, q)
  BY <1>0, <1>6 DEF InOrder
<1>18. Len(Younger(a, Minute)) = Len(a) - p + 1
  BY <1>0, <1>16, YoungerIs
<1>19. Len(Younger(c, Minute)) = Len(c) - q + 1
  BY <1>0, <1>6, <1>17, YoungerIs
<1>20. Len(c) - q <= Len(a) - p
  <2> DEFINE d == Len(a) - Len(c)
  <2>1. d \in Nat
    BY <1>0, <1>13
  <2>2. CASE q = Len(c) + 1
    BY <1>0, <1>13, <1>16, <2>2
  <2>3. CASE q # Len(c) + 1
    <3>1. q \in 1..Len(c)
      BY <1>13, <2>3
    <3>2. c[q] < Minute
      BY <1>17, <3>1 DEF YoungFrom
    <3>3. q + d \in 1..Len(a) /\ q + (n - k + 1) - 1 = q + d
      BY <1>0, <1>2, <1>4, <1>5, <1>11, <1>13, <3>1
    <3>4. c[q] = b[q + d]
      BY <1>11, <3>1, <3>3
    <3>5. a[q + d] \in Nat
      BY <3>3, AgesAre
    <3>6. a[q + d] < Minute
      <4>1. b[q + d] = IF a[q + d] < Hour THEN a[q + d] + 1 ELSE a[q + d]
        BY <1>5, <3>3
      <4>2. b[q + d] < Minute
        BY <3>2, <3>4
      <4> QED BY SMTT(60), <1>0, <3>5, <4>1, <4>2
    <3>7. q + d >= p
      BY <1>16, <3>3, <3>6 DEF YoungFrom
    <3> QED BY <1>0, <1>13, <3>1, <3>7
  <2> QED BY <2>2, <2>3
<1> QED BY <1>0, <1>13, <1>15, <1>16, <1>17, <1>18, <1>19, <1>20 DEF t, b, c

\* A list whose youngest age is past the hour has nothing of the last hour.
LEMMA PurgedAges ==
  ASSUME NEW s \in Ages, InOrder(s), s # <<>>, s[Len(s)] >= Hour
  PROVE  Younger(s, Hour) = <<>>
<1>0. Hour \in 0..Hour /\ Len(s) \in Nat /\ Len(s) # 0
  BY VerificationAssumption, EmptySeq DEF Ages
<1>1. PICK k \in 1..(Len(s) + 1) : YoungFrom(s, Hour, k)
  BY <1>0 DEF InOrder
<1>2. s[Len(s)] \in 0..Hour
  BY <1>0 DEF Ages
<1>3. k = Len(s) + 1
  BY <1>0, <1>1, <1>2 DEF YoungFrom
<1>4. Younger(s, Hour) \in Ages /\ Len(Younger(s, Hour)) = 0
  BY <1>0, <1>1, <1>3, YoungerIs
<1> QED BY <1>4, EmptySeq DEF Ages

\* The empty list.
LEMMA NoAges == /\ <<>> \in Ages
                /\ InOrder(<<>>)
                /\ Younger(<<>>, Hour) = <<>>
<1>1. <<>> \in Ages /\ Len(<<>>) = 0
  BY DEF Ages
<1>2. \A w \in 0..Hour : YoungFrom(<<>>, w, 1)
  BY <1>1 DEF YoungFrom
<1>3. InOrder(<<>>)
  BY <1>1, <1>2 DEF InOrder
<1>4. Hour \in 0..Hour
  BY VerificationAssumption
<1>5. Younger(<<>>, Hour) \in Ages /\ Len(Younger(<<>>, Hour)) = 0
  BY <1>1, <1>2, <1>4, YoungerIs
<1> QED BY <1>1, <1>3, <1>5, EmptySeq DEF Ages

\* A counted command, in a list of timestamps and in the history of it.
LEMMA CountKeeps ==
  ASSUME LimitsInv, NEW m \in Member, Count(m)
  PROVE  LimitsInv'
<1> USE DEF LimitsInv, AskedAreKept
<1> DEFINE a == asked[m]
           b == Append(a, 0)
<1>1. a \in Ages /\ InOrder(a) /\ a = Kept(m) /\ Younger(a, Hour) = a
  BY KeptAges DEF Kept
<1>2. stamps' = [stamps EXCEPT ![m] = b] /\ asked' = [asked EXCEPT ![m] = b]
  BY <1>1 DEF Count
<1>3. Len(Younger(a, Minute)) < PerMinute /\ Len(a) < PerHour
  <2>1. ~(Len(Younger(a, Minute)) >= PerMinute) /\ ~(Len(a) >= PerHour)
    BY <1>1 DEF Count, Refused
  <2>2. Len(a) \in Nat /\ PerMinute \in Nat /\ PerHour \in Nat
    BY <1>1, AgesAre, VerificationAssumption
  <2>3. Len(Younger(a, Minute)) \in Nat
    BY <1>1, CountedAges
  <2> HIDE DEF a
  <2> QED BY <2>1, <2>2, <2>3
<1>4. /\ b \in Ages /\ InOrder(b) /\ Younger(b, Hour) = b
      /\ Len(b) = Len(a) + 1
      /\ Len(Younger(b, Minute)) = Len(Younger(a, Minute)) + 1
      /\ Len(Younger(a, Minute)) \in Nat
  BY <1>1, CountedAges
<1>5. Len(a) \in Nat /\ PerMinute \in Nat /\ PerHour \in Nat
  BY <1>1, AgesAre, VerificationAssumption
<1> HIDE DEF b
<1>6. Len(Younger(b, Minute)) <= PerMinute /\ Len(b) <= PerHour
  <2> HIDE DEF a
  <2> QED BY <1>3, <1>4, <1>5
<1>7. \A n \in Member : /\ n = m => stamps'[n] = b /\ asked'[n] = b
                        /\ n # m => stamps'[n] = stamps[n] /\ asked'[n] = asked[n]
  BY <1>2
<1>8. stamps' \in [Member -> Ages] /\ asked' \in [Member -> Ages]
  BY <1>2, <1>4
<1>9. \A n \in Member : InOrder(stamps'[n]) /\ asked'[n] = Younger(stamps'[n], Hour)
  BY <1>4, <1>7
<1>10. \A n \in Member : /\ Len(Younger(asked'[n], Minute)) <= PerMinute
                         /\ Len(asked'[n]) <= PerHour
  BY <1>6, <1>7 DEF AskedWithinLimits
<1> QED BY <1>8, <1>9, <1>10 DEF AskedWithinLimits, InOrder, YoungFrom, Younger

\* A step that leaves the history alone, and each member's timestamps as they
\* were, or without what is past the hour.
LEMMA StampsKept ==
  ASSUME LimitsInv, UNCHANGED asked, stamps' \in [Member -> Ages],
         \A m \in Member :
           InOrder(stamps'[m]) /\ Younger(stamps'[m], Hour) = Younger(stamps[m], Hour)
  PROVE  LimitsInv'
<1>1. asked' \in [Member -> Ages]
  BY DEF LimitsInv, AskedAreKept
<1>2. \A m \in Member : InOrder(stamps'[m]) /\ asked'[m] = Younger(stamps'[m], Hour)
  BY DEF LimitsInv, AskedAreKept
<1>3. \A m \in Member : /\ Len(Younger(asked'[m], Minute)) <= PerMinute
                        /\ Len(asked'[m]) <= PerHour
  BY DEF LimitsInv, AskedWithinLimits
<1> QED BY <1>1, <1>2, <1>3
        DEF LimitsInv, AskedAreKept, AskedWithinLimits, InOrder, YoungFrom, Younger

\* A refusal and a purge drop only what is past the hour.
LEMMA DropKeeps ==
  ASSUME LimitsInv, PurgeStamps \/ \E m \in Member : Refuse(m)
  PROVE  LimitsInv'
<1> USE DEF LimitsInv, AskedAreKept
<1>1. ASSUME NEW m \in Member
      PROVE  LET s == stamps[m] IN
             /\ s \in Ages /\ InOrder(s)
             /\ Kept(m) \in Ages /\ InOrder(Kept(m))
             /\ Younger(Kept(m), Hour) = Younger(s, Hour)
             /\ s # <<>> /\ s[Len(s)] >= Hour => Younger(s, Hour) = <<>>
  BY KeptAges, PurgedAges DEF Kept
<1>2. ASSUME NEW m \in Member, Refuse(m) PROVE LimitsInv'
  <2>1. UNCHANGED asked /\ stamps' = [stamps EXCEPT ![m] = Kept(m)]
    BY <1>2 DEF Refuse
  <2>2. stamps' \in [Member -> Ages]
    BY <1>1, <2>1
  <2>3. \A n \in Member : stamps'[n] = stamps[n] \/ (n = m /\ stamps'[n] = Kept(n))
    BY <2>1
  <2>4. \A n \in Member :
          InOrder(stamps'[n]) /\ Younger(stamps'[n], Hour) = Younger(stamps[n], Hour)
    BY <1>1, <2>3
  <2> QED BY <2>1, <2>2, <2>4, StampsKept
<1>3. ASSUME PurgeStamps PROVE LimitsInv'
  <2>1. UNCHANGED asked
    BY <1>3 DEF PurgeStamps
  <2>2. \A n \in Member :
          \/ stamps'[n] = stamps[n]
          \/ /\ stamps[n] # <<>> /\ stamps[n][Len(stamps[n])] >= Hour
             /\ stamps'[n] = <<>>
    BY <1>3 DEF PurgeStamps
  <2>3. stamps' \in [Member -> Ages]
    <3>1. \A n \in Member : stamps'[n] \in Ages
      BY <1>1, <2>2, NoAges
    <3>2. DOMAIN stamps' = Member /\ stamps' = [n \in Member |-> stamps'[n]]
      BY <1>3 DEF PurgeStamps
    <3> QED BY <3>1, <3>2
  <2>4. \A n \in Member :
          InOrder(stamps'[n]) /\ Younger(stamps'[n], Hour) = Younger(stamps[n], Hour)
    BY <1>1, <2>2, NoAges
  <2> QED BY <2>1, <2>3, <2>4, StampsKept
<1> QED BY <1>2, <1>3

\* Time takes nothing into a window.
LEMMA TickKeeps ==
  ASSUME LimitsInv, Tick
  PROVE  LimitsInv'
<1> USE DEF LimitsInv, AskedAreKept
<1>1. /\ stamps' = [m \in Member |-> Older(stamps[m])]
      /\ asked' = [m \in Member |-> Younger(Older(asked[m]), Hour)]
  BY DEF Tick
<1>2. ASSUME NEW m \in Member
      PROVE  /\ stamps'[m] \in Ages /\ InOrder(stamps'[m])
             /\ asked'[m] \in Ages /\ asked'[m] = Younger(stamps'[m], Hour)
             /\ Len(Younger(asked'[m], Minute)) <= PerMinute
             /\ Len(asked'[m]) <= PerHour
  <2> DEFINE s == stamps[m]
             a == asked[m]
             c == Younger(Older(a), Hour)
  <2>1. s \in Ages /\ InOrder(s) /\ a \in Ages /\ a = Younger(s, Hour)
    OBVIOUS
  <2>2. stamps'[m] = Older(s) /\ asked'[m] = c
    BY <1>1
  <2>3. Older(s) \in Ages /\ InOrder(Older(s))
    BY <2>1, OlderAges
  <2>4. /\ c = Younger(Older(s), Hour)
        /\ Len(c) <= Len(a)
        /\ Len(Younger(c, Minute)) <= Len(Younger(a, Minute))
        /\ Len(Younger(c, Minute)) \in Nat /\ Len(Younger(a, Minute)) \in Nat
    BY <2>1, TickedAges
  <2>5. c \in Ages
    BY <2>3, <2>4, KeptAges
  <2>6. Len(c) \in Nat /\ Len(a) \in Nat /\ PerMinute \in Nat /\ PerHour \in Nat
    BY <2>1, <2>5, AgesAre, VerificationAssumption
  <2>7. Len(Younger(a, Minute)) <= PerMinute /\ Len(a) <= PerHour
    BY DEF AskedWithinLimits
  <2> HIDE DEF a, c, s
  <2>8. Len(Younger(c, Minute)) <= PerMinute /\ Len(c) <= PerHour
    BY <2>4, <2>6, <2>7
  <2> QED BY <2>2, <2>3, <2>4, <2>5, <2>8
<1>3. stamps' \in [Member -> Ages] /\ asked' \in [Member -> Ages]
  BY <1>1, <1>2
<1> QED BY <1>2, <1>3 DEF AskedWithinLimits, InOrder, YoungFrom, Younger

\* After a restart nothing has been counted.
LEMMA FreshAges ==
  ASSUME stamps' = [m \in Member |-> <<>>], asked' = [m \in Member |-> <<>>]
  PROVE  LimitsInv'
<1>1. \A m \in Member : stamps'[m] = <<>> /\ asked'[m] = <<>>
  OBVIOUS
<1>2. stamps' \in [Member -> Ages] /\ asked' \in [Member -> Ages]
  BY NoAges
<1>3. \A m \in Member : InOrder(stamps'[m]) /\ asked'[m] = Younger(stamps'[m], Hour)
  BY <1>1, NoAges
<1>4. Minute \in 0..Hour /\ Minute \in Nat /\ PerMinute \in Nat /\ PerHour \in Nat
  BY VerificationAssumption
<1>5. YoungFrom(<<>>, Minute, 1)
  BY DEF YoungFrom
<1>6. Len(Younger(<<>>, Minute)) = 0 /\ Len(<<>>) = 0
  BY <1>4, <1>5, NoAges, YoungerIs
<1>7. \A m \in Member : /\ Len(Younger(asked'[m], Minute)) <= PerMinute
                        /\ Len(asked'[m]) <= PerHour
  BY <1>1, <1>4, <1>6
<1> QED BY <1>2, <1>3, <1>7
        DEF LimitsInv, AskedAreKept, AskedWithinLimits, InOrder, YoungFrom, Younger

\* Every step keeps the limits.
LEMMA NextLimits == LimitsInv /\ [Next]_vars => LimitsInv'
<1> SUFFICES ASSUME LimitsInv, [Next]_vars PROVE LimitsInv'
  OBVIOUS
<1>1. ASSUME NEW m \in Member, InvalidHandle(m) PROVE LimitsInv'
  BY <1>1, CountKeeps DEF InvalidHandle
<1>2. ASSUME NEW m \in Member, NEW h \in Handle, IssueCode(m, h) PROVE LimitsInv'
  BY <1>2, CountKeeps DEF IssueCode
<1>3. CASE Restart
  BY <1>3, FreshAges DEF Restart
<1>4. CASE UNCHANGED <<stamps, asked>>
  BY <1>4, StampsKept DEF LimitsInv, AskedAreKept
<1>5. \/ UNCHANGED <<stamps, asked>> \/ Restart \/ Tick \/ PurgeStamps
      \/ \E m \in Member : Refuse(m) \/ InvalidHandle(m) \/ \E h \in Handle : IssueCode(m, h)
  BY DEF Next, vars, PressButton, Deferred, NotEnabled, StartVerify, Fetched, AssignRole,
         SetNickname, RemoveRole, Clear, PurgeSessions, EditBio
<1> QED BY <1>1, <1>2, <1>3, <1>4, <1>5, DropKeeps, TickKeeps

\* The limits hold of the bot's start.
LEMMA InitLimits == Init => LimitsInv
<1> SUFFICES ASSUME Init PROVE LimitsInv
  OBVIOUS
<1>1. \A m \in Member : stamps[m] = <<>> /\ asked[m] = <<>>
  BY DEF Init
<1>2. stamps \in [Member -> Ages] /\ asked \in [Member -> Ages]
  BY NoAges DEF Init
<1>3. \A m \in Member : InOrder(stamps[m]) /\ asked[m] = Younger(stamps[m], Hour)
  BY <1>1, NoAges
<1>4. Minute \in 0..Hour /\ Minute \in Nat /\ PerMinute \in Nat /\ PerHour \in Nat
  BY VerificationAssumption
<1>5. YoungFrom(<<>>, Minute, 1)
  BY DEF YoungFrom
<1>6. Len(Younger(<<>>, Minute)) = 0 /\ Len(<<>>) = 0
  BY <1>4, <1>5, NoAges, YoungerIs
<1>7. \A m \in Member : /\ Len(Younger(asked[m], Minute)) <= PerMinute
                        /\ Len(asked[m]) <= PerHour
  <2> TAKE m \in Member
  <2>1. Len(Younger(asked[m], Minute)) = 0 /\ Len(asked[m]) = 0
    BY <1>1, <1>6
  <2> QED BY <1>4, <2>1
<1> QED BY <1>2, <1>3, <1>7 DEF LimitsInv, AskedAreKept, AskedWithinLimits

\* In no minute and in no hour are more commands of a member counted than the
\* limits allow, although old timestamps are dropped by every command and by the
\* hourly purge.
THEOREM CommandsAreLimited == Spec => []AskedWithinLimits
<1>1. LimitsInv => AskedWithinLimits
  BY DEF LimitsInv
<1> QED BY <1>1, InitLimits, NextLimits, PTL DEF Spec
=============================================================================
