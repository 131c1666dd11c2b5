------------------------- MODULE SessionDirectoryProofs -------------------------
(*****************************************************************************)
(* Theorems about SessionDirectory for every set of sessions and             *)
(* applications, in both builds, with any bound on what is under way.        *)
(*****************************************************************************)
EXTENDS SessionDirectory, MatchingProofs, FiniteSetTheorems, SequenceTheorems

-----------------------------------------------------------------------------
\* No call is a call.
LEMMA NoCallType == \A R : NoCall \in CallRec(R)
  BY DEF NoCall, CallRec

\* A call begins with one reply.
LEMMA CallsType ==
    ASSUME NEW R, Refused \in R, NEW up, NEW first, first \subseteq R,
           NEW call \in Calls(up, first)
    PROVE  /\ call \in CallRec(R)
           /\ call.served => \E r \in first : call.replies = <<r>>
  <1>1. \A r \in R : <<r>> \in Seq(R)
    OBVIOUS
  <1>2. CASE \E r \in first : call = [live |-> TRUE, served |-> TRUE, replies |-> <<r>>]
    BY <1>1, <1>2 DEF CallRec
  <1>3. CASE call = [live |-> TRUE, served |-> FALSE, replies |-> <<Refused>>]
    BY <1>1, <1>3 DEF CallRec
  <1> QED
    BY <1>2, <1>3 DEF Calls

\* Or with none, when LSCall failed.
LEMMA LSCallsType ==
    ASSUME NEW R, Refused \in R, NEW up, NEW first, first \subseteq R,
           NEW call \in LSCalls(up, first)
    PROVE  /\ call \in CallRec(R)
           /\ call.served => \E r \in first : call.replies = <<r>>
  <1>1. CASE call \in Calls(up, first)
    BY <1>1, CallsType
  <1>2. CASE call = NoCall
    BY <1>2, NoCallType DEF NoCall
  <1> QED
    BY <1>1, <1>2 DEF LSCalls

\* The service adds a reply to a call it serves.
LEMMA PushType ==
    ASSUME NEW R, NEW call \in CallRec(R), NEW r \in R
    PROVE  /\ Push(call, r) \in CallRec(R)
           /\ Push(call, r).live = call.live
           /\ Push(call, r).served = call.served
           /\ call.served => Push(call, r).replies = Append(call.replies, r)
           /\ ~call.served => Push(call, r) = call
  <1>1. CASE call.served
    <2>1. call.live
      BY <1>1 DEF CallRec, NoCall
    <2>2. Append(call.replies, r) \in Seq(R)
      BY DEF CallRec
    <2> QED
      BY <1>1, <2>1, <2>2 DEF Push, CallRec
  <1>2. CASE ~call.served
    BY <1>2 DEF Push
  <1> QED
    BY <1>1, <1>2

\* The hub answers for a service that is gone; the call stays live.
LEMMA DeadType ==
    ASSUME NEW R, Refused \in R, NEW call \in CallRec(R)
    PROVE  Dead(call) \in CallRec(R) /\ Dead(call).live = call.live /\ ~Dead(call).served
  <1>1. CASE call.served
    <2>1. call.live
      BY <1>1 DEF CallRec, NoCall
    <2>2. Append(call.replies, Refused) \in Seq(R)
      BY DEF CallRec
    <2> QED
      BY <1>1, <2>1, <2>2 DEF Dead, CallRec
  <1>2. CASE ~call.served
    BY <1>2 DEF Dead
  <1> QED
    BY <1>1, <1>2

\* A call with a reply under way is live, and stays so when it is delivered.
LEMMA DeliverType ==
    ASSUME NEW R, NEW call \in CallRec(R), call.replies # <<>>
    PROVE  LET rest == [call EXCEPT !.replies = Tail(@)] IN
           /\ rest \in CallRec(R) /\ rest.live = call.live /\ rest.served = call.served
           /\ rest.replies = Tail(call.replies)
           /\ call.live /\ Head(call.replies) \in R
  <1>1. call.replies \in Seq(R) /\ Tail(call.replies) \in Seq(R) /\ Head(call.replies) \in R
    BY DEF CallRec
  <1>2. call.live
    BY DEF CallRec, NoCall
  <1> QED
    BY <1>1, <1>2 DEF CallRec

\* A listing names applications.
LEMMA ListingsType ==
    ASSUME NEW S \in SUBSET AppIds, NEW q \in Listings(S)
    PROVE  q \in Seq(AppIds)
  <1>1. Cardinality(S) \in Nat
    BY NamesAssumption, FS_Subset, FS_CardinalityType
  <1>2. q \in [1..Cardinality(S) -> AppIds]
    BY DEF Listings
  <1> QED
    BY <1>1, <1>2

-----------------------------------------------------------------------------
\* Every handler has its type and is filed under its own key.
WellFiled(hs) == \A k \in DOMAIN hs : hs[k] \in HandlerRec /\ k = GetKey(hs[k])

\* Erasing handlers keeps the rest.
LEMMA EraseFiled ==
    ASSUME NEW hs, NEW K, WellFiled(hs)
    PROVE  WellFiled(Erase(hs, K))
  <1> DEFINE rest == Erase(hs, K)
  <1>1. DOMAIN rest = DOMAIN hs \ K /\ \A k \in DOMAIN hs \ K : rest[k] = hs[k]
    BY EraseIsMap
  <1> HIDE DEF rest
  <1>2. WellFiled(rest)
    BY <1>1 DEF WellFiled
  <1> QED
    BY <1>2 DEF rest

\* The filters an application declares are among those that may be filed.
LEMMA FiltersType ==
    ASSUME NEW app \in AppIds
    PROVE  TheFilters(Declared(app)) \subseteq UNION UNION {Declared(a) : a \in AppIds}
  BY DEF TheFilters

\* The filters an application of a list gets are some application's.
LEMMA ListFiltersType ==
    ASSUME NEW apps \in Seq(AppIds), NEW i \in DOMAIN apps
    PROVE  FiltersInList(apps, i) \subseteq UNION UNION {Declared(a) : a \in AppIds}
  <1> DEFINE declaring == {j \in 1..i : Declared(apps[j]) # {}}
  <1>1. CASE declaring = {}
    <2>1. FiltersInList(apps, i) = {}
      BY <1>1 DEF FiltersInList
    <2> QED
      BY <2>1
  <1>2. CASE declaring # {}
    <2>1. i \in Nat /\ declaring \subseteq 1..i
      OBVIOUS
    <2> DEFINE last == CHOOSE j \in declaring : \A m \in declaring : m <= j
    <2>2. last \in declaring
      <3>1. \E j \in declaring : \A m \in declaring : m <= j
        <4> HIDE DEF declaring
        <4> QED
          BY <1>2, <2>1, LastOfPositions
      <3> HIDE DEF declaring
      <3> QED
        BY <3>1
    <2>3. apps[last] \in AppIds
      BY <2>2
    <2>4. FiltersInList(apps, i) = TheFilters(Declared(apps[last]))
      BY <1>2 DEF FiltersInList
    <2> HIDE DEF last
    <2> QED
      BY <2>3, <2>4, FiltersType
  <1> QED
    BY <1>1, <1>2

\* What onListApps makes of an application is a handler of the session's id.
LEMMA MadeType ==
    ASSUME NEW s \in SessionIds, NEW app \in AppIds, NEW filters,
           filters \subseteq UNION UNION {Declared(a) : a \in AppIds}
    PROVE  /\ MakeHandler(s, app, filters) \in HandlerRec
           /\ MakeHandler(s, app, filters).sessionId = GetSessionId(s)
  BY DEF MakeHandler, HandlerRec

\* Adding one handler keeps the rest.
LEMMA AddFiled ==
    ASSUME NEW hs, NEW h \in HandlerRec, WellFiled(hs)
    PROVE  /\ WellFiled(AddHandler(hs, h))
           /\ DOMAIN hs \subseteq DOMAIN AddHandler(hs, h)
           /\ \A k \in DOMAIN AddHandler(hs, h) :
                 \/ k \in DOMAIN hs /\ AddHandler(hs, h)[k] = hs[k]
                 \/ AddHandler(hs, h)[k] = h
  <1>1. CASE Accepts(hs, h)
    <2> DEFINE key == GetKey(h)
    <2>1. AddHandler(hs, h) = Put(hs, key, h)
      BY <1>1 DEF AddHandler
    <2>2. /\ DOMAIN Put(hs, key, h) = DOMAIN hs \cup {key}
          /\ Put(hs, key, h)[key] = h
          /\ \A x \in DOMAIN hs : x # key => Put(hs, key, h)[x] = hs[x]
      BY PutIsMap
    <2> QED
      BY <2>1, <2>2 DEF WellFiled
  <1>2. CASE ~Accepts(hs, h)
    BY <1>2 DEF AddHandler
  <1> QED
    BY <1>1, <1>2

\* A listing adds handlers of its session and keeps the rest.
LEMMA AddAllFiled ==
    ASSUME NEW s \in SessionIds, NEW apps \in Seq(AppIds), WellFiled(handlers)
    PROVE  /\ WellFiled(AddAll(s, apps))
           /\ DOMAIN handlers \subseteq DOMAIN AddAll(s, apps)
           /\ \A k \in DOMAIN AddAll(s, apps) :
                 \/ k \in DOMAIN handlers /\ AddAll(s, apps)[k] = handlers[k]
                 \/ AddAll(s, apps)[k].sessionId = GetSessionId(s)
  <1> DEFINE Made(i) == MakeHandler(s, apps[i], FiltersInList(apps, i))
             new     == {i \in DOMAIN apps : Accepts(handlers, Made(i))}
             keys    == {GetKey(Made(i)) : i \in new}
             all     == AddAll(s, apps)
  <1>1. /\ DOMAIN all = DOMAIN handlers \cup keys
        /\ \A k \in DOMAIN handlers : all[k] = handlers[k]
        /\ \A k \in keys : k \notin DOMAIN handlers =>
              all[k] = Made(CHOOSE i \in new : GetKey(Made(i)) = k)
    BY DEF AddAll
  <1>2. ASSUME NEW i \in DOMAIN apps
        PROVE  Made(i) \in HandlerRec /\ Made(i).sessionId = GetSessionId(s)
    <2>1. apps[i] \in AppIds
      OBVIOUS
    <2> QED
      BY <2>1, ListFiltersType, MadeType
  <1>3. ASSUME NEW k \in keys, k \notin DOMAIN handlers
        PROVE  all[k] \in HandlerRec /\ k = GetKey(all[k]) /\ all[k].sessionId = GetSessionId(s)
    <2>1. PICK i \in new : GetKey(Made(i)) = k
      OBVIOUS
    <2> DEFINE first == CHOOSE j \in new : GetKey(Made(j)) = k
    <2>2. first \in new /\ GetKey(Made(first)) = k
      <3> HIDE DEF new, Made
      <3> QED
        BY <2>1
    <2>3. first \in DOMAIN apps
      BY <2>2
    <2>4. all[k] = Made(first)
      BY <1>1, <1>3
    <2> HIDE DEF first, new, Made, all
    <2> QED
      BY <1>2, <2>2, <2>3, <2>4
  <1> HIDE DEF keys, new, Made
  <1>4. WellFiled(all)
    <2> HIDE DEF all
    <2> QED
      BY <1>1, <1>3 DEF WellFiled
  <1> QED
    BY <1>1, <1>3, <1>4

-----------------------------------------------------------------------------
\* The type invariant, by the components of the state.
DirectoryOK ==
    /\ DOMAIN sessions \subseteq SessionIds
    /\ \A s \in DOMAIN sessions : sessions[s] \in SessionRec

ServicesOK ==
    /\ accountWatched \in BOOLEAN /\ accountUp \in BOOLEAN /\ users \subseteq SessionIds
    /\ samUp \subseteq SessionIds /\ installed \in [SessionIds -> SUBSET AppIds]

\* TypeOK is its parts.
LEMMA TypeParts ==
    TypeOK <=> /\ accountStatus \in Seq(BOOLEAN) /\ getSessions \in CallRec(SessionReplies)
               /\ DirectoryOK /\ WellFiled(handlers) /\ ServicesOK
  BY DEF TypeOK, DirectoryOK, WellFiled, ServicesOK

\* A new session has the status of its application manager under way, if it watches it.
NewSessions(s) == {NewSession(s, watched) : watched \in BOOLEAN}

LEMMA FirstNewsType ==
    ASSUME NEW watched \in BOOLEAN, NEW up \in BOOLEAN
    PROVE  LET news == FirstNews(watched, up) IN
           /\ news \in Seq(BOOLEAN)
           /\ ~watched => news = <<>>
           /\ watched => news # <<>> /\ news[Len(news)] = up
  <1>1. <<up>> \in Seq(BOOLEAN) /\ <<>> \in Seq(BOOLEAN)
    OBVIOUS
  <1>2. <<up>> # <<>> /\ <<up>>[Len(<<up>>)] = up
    OBVIOUS
  <1> QED
    BY <1>1, <1>2 DEF FirstNews

LEMMA NewSessionType ==
    ASSUME NEW s, NEW x \in NewSessions(s)
    PROVE  /\ x \in SessionRec /\ x.listApps = NoCall /\ ~x.listApps.live
           /\ x.status # <<>> => x.status[Len(x.status)] = (s \in samUp)
  <1> DEFINE up == s \in samUp
  <1>1. PICK watched \in BOOLEAN : x = NewSession(s, watched)
    BY DEF NewSessions
  <1>2. up \in BOOLEAN
    OBVIOUS
  <1>3. x = [watched |-> watched, status |-> FirstNews(watched, up), listApps |-> NoCall]
    BY <1>1, Zenon DEF NewSession
  <1>4. up = (s \in samUp)
    OBVIOUS
  <1> HIDE DEF up
  <1>5. x.watched = watched /\ x.status = FirstNews(watched, up) /\ x.listApps = NoCall
    BY <1>3
  <1>6. x \in SessionRec
    BY <1>2, <1>3, FirstNewsType, NoCallType DEF SessionRec
  <1>7. ~NoCall.live
    BY DEF NoCall
  <1> QED
    BY <1>2, <1>4, <1>5, <1>6, <1>7, FirstNewsType

\* LSCall succeeds or not.
LEMMA WatchesType == Watches \subseteq BOOLEAN
  BY DEF Watches

\* What the process knows when it starts, the first time or after it died.
Fresh ==
    \E watched \in BOOLEAN :
        /\ accountWatched = (EnableSession /\ watched)
        /\ accountStatus = FirstNews(accountWatched, accountUp) /\ getSessions = NoCall
        /\ sessions = FirstSessions(watched) /\ handlers = <<>>

\* The services are as they are.
ServicesAre ==
    /\ accountUp \in BOOLEAN /\ users \subseteq SessionIds
    /\ samUp \subseteq SessionIds /\ installed \in [SessionIds -> SUBSET AppIds]

LEMMA FreshServices == Fresh /\ ServicesAre => ServicesOK
  BY BuildAssumption DEF Fresh, ServicesAre, ServicesOK

LEMMA InitFresh == Init => Fresh /\ ServicesOK
  <1>1. Init => Fresh /\ ServicesAre
    BY WatchesType DEF Init, Fresh, ServicesAre
  <1> QED
    BY <1>1, FreshServices

LEMMA RestartFresh ==
    /\ Restart => Fresh'
    /\ Restart /\ ServicesOK => ServicesOK'
  <1>1. ASSUME Restart PROVE Fresh'
    <2>1. PICK watched \in Watches : /\ accountWatched' = (EnableSession /\ watched)
                                    /\ sessions' = FirstSessions(watched)
      BY <1>1 DEF Restart
    <2>2. sessions' = FirstSessions(watched)'
      BY <1>1, <2>1 DEF Restart, services, FirstSessions, NewSession, NoCall, FirstNews
    <2>3. accountStatus' = FirstNews(accountWatched', accountUp')
      BY <1>1 DEF Restart, services
    <2> QED
      BY <1>1, <2>1, <2>2, <2>3, WatchesType DEF Restart, Fresh, NoCall, FirstNews
  <1>2. ASSUME Restart, ServicesOK PROVE ServicesOK'
    <2>1. accountWatched' \in BOOLEAN
      BY <1>2, WatchesType, BuildAssumption DEF Restart
    <2> QED
      BY <1>2, <2>1 DEF Restart, services, ServicesOK
  <1> QED
    BY <1>1, <1>2

\* The process starts with its types.
LEMMA FreshTypes == Fresh /\ ServicesOK => TypeOK
  <1> SUFFICES ASSUME Fresh, ServicesOK PROVE TypeOK
    OBVIOUS
  <1>1. ServicesOK
    OBVIOUS
  <1>0. PICK watched \in BOOLEAN :
           /\ accountWatched = (EnableSession /\ watched)
           /\ accountStatus = FirstNews(accountWatched, accountUp) /\ getSessions = NoCall
           /\ sessions = FirstSessions(watched) /\ handlers = <<>>
    BY DEF Fresh
  <1>2. getSessions \in CallRec(SessionReplies)
    BY <1>0, NoCallType
  <1>3. WellFiled(handlers)
    <2>1. DOMAIN handlers = {}
      BY <1>0
    <2> QED
      BY <2>1 DEF WellFiled
  <1>4. accountStatus \in Seq(BOOLEAN)
    BY <1>0, <1>1, FirstNewsType DEF ServicesOK
  <1>5. DirectoryOK
    <2>1. CASE EnableSession
      <3>1. DOMAIN sessions = {}
        BY <1>0, <2>1 DEF FirstSessions
      <3> QED
        BY <3>1 DEF DirectoryOK
    <2>2. CASE ~EnableSession
      <3>1. DOMAIN sessions = {""} /\ sessions[""] \in NewSessions("")
        BY <1>0, <2>2 DEF FirstSessions, NewSessions
      <3>2. SessionIds = {""}
        BY <2>2, BuildAssumption
      <3>3. sessions[""] \in SessionRec
        BY <3>1, NewSessionType
      <3> QED
        BY <3>1, <3>2, <3>3 DEF DirectoryOK
    <2> QED
      BY <2>1, <2>2
  <1> QED
    BY <1>1, <1>2, <1>3, <1>4, <1>5, TypeParts

\* What the account service lists is a reply of the type.
LEMMA SessionReplyTypes ==
    /\ Refused \in SessionReplies
    /\ \A S \in SUBSET SessionIds : [kind |-> "list", items |-> S] \in SessionReplies
    /\ \A r \in SessionReplies : r.kind # "error" =>
          r.kind = "list" /\ r.items \subseteq SessionIds
  BY DEF SessionReplies, Refused

\* So is what an application manager lists and reports.
LEMMA AppReplyTypes ==
    /\ Refused \in AppReplies
    /\ \A q \in Seq(AppIds) : [kind |-> "list", items |-> q] \in AppReplies
    /\ \A kind \in {"added", "removed", "updated"}, app \in AppIds :
          [kind |-> kind, items |-> <<app>>] \in AppReplies
    /\ \A r \in AppReplies :
          /\ r.kind = "list" => r.items \in Seq(AppIds)
          /\ r.kind \in {"added", "removed", "updated"} => r.items[1] \in AppIds
  BY DEF AppReplies, Refused

\* Account::onServerStatusChanged.
LEMMA TypeAccountStatus ==
    ASSUME TypeOK, AccountStatusChanged
    PROVE  /\ TypeOK'
           /\ DOMAIN sessions' = {}
  <1>1. accountStatus' \in Seq(BOOLEAN)
    <2>1. accountStatus # <<>> /\ accountStatus' = Tail(accountStatus)
      BY DEF AccountStatusChanged
    <2> QED
      BY <2>1 DEF TypeOK
  <1>2. DOMAIN sessions' = {}
    <2>1. sessions' = <<>>
      BY DEF AccountStatusChanged
    <2> QED
      BY <2>1
  <1>3. DirectoryOK'
    BY <1>2 DEF DirectoryOK
  <1>4. WellFiled(handlers')
    BY EraseFiled, TypeParts DEF AccountStatusChanged, WithoutHandlersOf
  <1>5. getSessions' \in CallRec(SessionReplies)
    <2> DEFINE first == {[kind |-> "list", items |-> users]}
    <2>1. first \subseteq SessionReplies
      BY SessionReplyTypes DEF TypeOK
    <2>2. getSessions' \in Calls(accountUp, first) \/ getSessions' = NoCall
      BY DEF AccountStatusChanged
    <2> HIDE DEF first
    <2> QED
      BY <2>1, <2>2, NoCallType, CallsType, SessionReplyTypes
  <1>6. ServicesOK'
    BY TypeParts DEF ServicesOK, AccountStatusChanged, external, services
  <1> QED
    BY <1>1, <1>2, <1>3, <1>4, <1>5, <1>6
       DEF TypeOK, DirectoryOK, WellFiled, ServicesOK

\* What onGetSessions does to the sessions: the listed ones exist, those that did
\* before are untouched.
LEMMA SessionsListed ==
    ASSUME TypeOK, OnGetSessions
    PROVE  LET reply == Head(getSessions.replies) IN
           /\ getSessions.replies # <<>>
           /\ getSessions' = [getSessions EXCEPT !.replies = Tail(@)]
           /\ reply \in SessionReplies
           /\ reply.kind = "error" => UNCHANGED <<sessions, handlers>>
           /\ reply.kind # "error" =>
                 /\ DOMAIN sessions' = reply.items
                 /\ \A s \in DOMAIN sessions' :
                       IF s \in DOMAIN sessions THEN sessions'[s] = sessions[s]
                                                ELSE sessions'[s] \in NewSessions(s)
                 /\ handlers' = WithoutHandlersOf(DOMAIN sessions \ reply.items)
  <1> DEFINE reply == Head(getSessions.replies)
  <1>1. /\ getSessions.replies # <<>>
        /\ getSessions' = [getSessions EXCEPT !.replies = Tail(@)]
    BY DEF OnGetSessions
  <1>2. reply \in SessionReplies
    BY <1>1, DeliverType DEF TypeOK
  <1>3. reply.kind = "error" => UNCHANGED <<sessions, handlers>>
    BY DEF OnGetSessions
  <1>4. ASSUME reply.kind # "error"
        PROVE  /\ \E watched \in [reply.items \ DOMAIN sessions -> Watches] :
                     sessions' = [s \in reply.items |->
                                     IF s \in DOMAIN sessions THEN sessions[s]
                                                              ELSE NewSession(s, watched[s])]
               /\ handlers' = WithoutHandlersOf(DOMAIN sessions \ reply.items)
    BY <1>4 DEF OnGetSessions
  <1> HIDE DEF reply
  <1>5. reply.kind # "error" =>
           /\ DOMAIN sessions' = reply.items
           /\ \A s \in DOMAIN sessions' :
                 IF s \in DOMAIN sessions THEN sessions'[s] = sessions[s]
                                          ELSE sessions'[s] \in NewSessions(s)
           /\ handlers' = WithoutHandlersOf(DOMAIN sessions \ reply.items)
    <2> SUFFICES ASSUME reply.kind # "error"
                 PROVE  /\ DOMAIN sessions' = reply.items
                        /\ \A s \in DOMAIN sessions' :
                              IF s \in DOMAIN sessions THEN sessions'[s] = sessions[s]
                                                       ELSE sessions'[s] \in NewSessions(s)
      BY <1>4
    <2>1. PICK watched \in [reply.items \ DOMAIN sessions -> Watches] :
             sessions' = [s \in reply.items |->
                             IF s \in DOMAIN sessions THEN sessions[s]
                                                      ELSE NewSession(s, watched[s])]
      BY <1>4
    <2>2. \A s \in reply.items \ DOMAIN sessions : watched[s] \in BOOLEAN
      BY WatchesType
    <2> QED
      BY <2>1, <2>2 DEF NewSessions
  <1> QED
    BY <1>1, <1>2, <1>3, <1>5 DEF reply

\* Account::onGetSessions.
LEMMA TypeGetSessions ==
    ASSUME TypeOK, OnGetSessions
    PROVE  TypeOK'
  <1> DEFINE reply == Head(getSessions.replies)
  <1>1. getSessions' \in CallRec(SessionReplies)
    BY SessionsListed, DeliverType DEF TypeOK
  <1>2. UNCHANGED <<accountStatus, external>>
    BY DEF OnGetSessions
  <1>3. DirectoryOK' /\ WellFiled(handlers)'
    <2>1. CASE reply.kind = "error"
      <3>1. UNCHANGED <<sessions, handlers>>
        BY <2>1, SessionsListed
      <3> QED
        BY <3>1, TypeParts DEF DirectoryOK, WellFiled
    <2>2. CASE reply.kind # "error"
      <3>1. /\ DOMAIN sessions' = reply.items /\ reply \in SessionReplies
            /\ \A s \in DOMAIN sessions' :
                  IF s \in DOMAIN sessions THEN sessions'[s] = sessions[s]
                                           ELSE sessions'[s] \in NewSessions(s)
            /\ handlers' = WithoutHandlersOf(DOMAIN sessions \ reply.items)
        BY <2>2, SessionsListed
      <3> HIDE DEF reply
      <3>2. reply.items \subseteq SessionIds
        BY <2>2, <3>1, SessionReplyTypes
      <3>3. DirectoryOK'
        BY <3>1, <3>2, NewSessionType, TypeParts DEF DirectoryOK
      <3>4. WellFiled(handlers')
        BY <3>1, EraseFiled, TypeParts DEF WithoutHandlersOf
      <3> QED
        BY <3>3, <3>4 DEF WellFiled
    <2> QED
      BY <2>1, <2>2
  <1>4. ServicesOK'
    BY <1>2, TypeParts DEF ServicesOK, external, services
  <1> QED
    BY <1>1, <1>2, <1>3, <1>4 DEF TypeOK, DirectoryOK, WellFiled, ServicesOK

\* A session that is replaced by one of the type.
LEMMA DirectoryExcept ==
    ASSUME DirectoryOK, NEW s, NEW x \in SessionRec,
           sessions' = [sessions EXCEPT ![s] = x]
    PROVE  /\ DirectoryOK' /\ DOMAIN sessions' = DOMAIN sessions
           /\ \A u \in DOMAIN sessions : sessions'[u] = IF u = s THEN x ELSE sessions[u]
  BY DEF DirectoryOK

\* What SAM::onServerStatusChanged does to its session: the status is delivered;
\* up, a call that lives is kept; down, there is none, and no handler of s either.
LEMMA SamTold ==
    ASSUME TypeOK, NEW s \in SessionIds, SamStatusChanged(s)
    PROVE  \E call \in CallRec(AppReplies) :
           LET x == [watched |-> sessions[s].watched, status |-> Tail(sessions[s].status),
                     listApps |-> call] IN
           /\ s \in DOMAIN sessions /\ sessions[s].status # <<>> /\ x \in SessionRec
           /\ sessions' = [sessions EXCEPT ![s] = x]
           /\ \/ /\ Head(sessions[s].status) /\ handlers' = handlers
                 /\ sessions[s].listApps.live => call = sessions[s].listApps
              \/ /\ ~Head(sessions[s].status) /\ call = NoCall
                 /\ handlers' = RemoveBySessionId(handlers, s)
  <1> DEFINE lists == {[kind |-> "list", items |-> q] : q \in Listings(installed[s])}
             calls == IF sessions[s].listApps.live THEN {sessions[s].listApps}
                                                   ELSE LSCalls(s \in samUp, lists)
             Update(call) == [watched |-> sessions[s].watched, status |-> Tail(sessions[s].status),
                              listApps |-> call]
  <1>1. s \in DOMAIN sessions /\ sessions[s].status # <<>>
    BY DEF SamStatusChanged
  <1>2. sessions[s] \in SessionRec
    BY <1>1 DEF TypeOK
  <1>3. Tail(sessions[s].status) \in Seq(BOOLEAN)
    BY <1>1, <1>2 DEF SessionRec
  <1>4. \A call \in CallRec(AppReplies) : Update(call) \in SessionRec
    BY <1>1, <1>2, <1>3 DEF SessionRec
  <1>5. lists \subseteq AppReplies
    <2>1. installed[s] \in SUBSET AppIds
      BY DEF TypeOK
    <2>2. \A q \in Listings(installed[s]) : q \in Seq(AppIds)
      BY <2>1, ListingsType
    <2> QED
      BY <2>2, AppReplyTypes
  <1>6. calls \subseteq CallRec(AppReplies)
    <2>1. sessions[s].listApps \in CallRec(AppReplies)
      BY <1>2 DEF SessionRec
    <2> HIDE DEF lists
    <2>2. \A call \in LSCalls(s \in samUp, lists) : call \in CallRec(AppReplies)
      BY <1>5, LSCallsType, AppReplyTypes
    <2> QED
      BY <2>1, <2>2
  <1>7. \/ /\ Head(sessions[s].status)
           /\ \E call \in calls : sessions' = [sessions EXCEPT ![s] = Update(call)]
           /\ UNCHANGED handlers
        \/ /\ ~Head(sessions[s].status)
           /\ sessions' = [sessions EXCEPT ![s] = Update(NoCall)]
           /\ handlers' = RemoveBySessionId(handlers, s)
    BY DEF SamStatusChanged
  <1>8. CASE ~Head(sessions[s].status)
    <2>1. NoCall \in CallRec(AppReplies) /\ Update(NoCall) \in SessionRec
      BY <1>4, NoCallType
    <2>2. /\ sessions' = [sessions EXCEPT ![s] = Update(NoCall)]
          /\ handlers' = RemoveBySessionId(handlers, s)
      BY <1>7, <1>8
    <2> QED
      BY <1>1, <1>8, <2>1, <2>2
  <1>9. CASE Head(sessions[s].status)
    <2>1. PICK call \in calls : sessions' = [sessions EXCEPT ![s] = Update(call)]
      BY <1>7, <1>9
    <2>2. sessions[s].listApps.live => call = sessions[s].listApps
      OBVIOUS
    <2>3. call \in CallRec(AppReplies)
      BY <1>6
    <2> HIDE DEF calls
    <2> QED
      BY <1>1, <1>4, <1>7, <1>9, <2>1, <2>2, <2>3
  <1> QED
    BY <1>8, <1>9

\* SAM::onServerStatusChanged.
LEMMA TypeSamStatus ==
    ASSUME TypeOK, NEW s \in SessionIds, SamStatusChanged(s)
    PROVE  TypeOK'
  <1>1. UNCHANGED <<accountStatus, getSessions, external>>
    BY DEF SamStatusChanged
  <1>2. PICK call \in CallRec(AppReplies) :
            LET x == [watched |-> sessions[s].watched, status |-> Tail(sessions[s].status),
                      listApps |-> call] IN
            /\ x \in SessionRec /\ sessions' = [sessions EXCEPT ![s] = x]
            /\ handlers' = handlers \/ handlers' = RemoveBySessionId(handlers, s)
    BY SamTold
  <1>3. DirectoryOK'
    BY <1>2, DirectoryExcept, TypeParts
  <1>4. WellFiled(handlers')
    BY <1>2, EraseFiled, TypeParts DEF RemoveBySessionId
  <1> QED
    BY <1>1, <1>3, <1>4 DEF TypeOK, DirectoryOK, WellFiled, external, services

\* What onListApps does: the reply is delivered to its session, and a handler is
\* kept, erased or new and then of this session.
LEMMA AppsListed ==
    ASSUME TypeOK, NEW s \in SessionIds, OnListApps(s)
    PROVE  LET old == sessions[s]
               rest == [old.listApps EXCEPT !.replies = Tail(@)]
               x == [old EXCEPT !.listApps = rest]
               reply == Head(old.listApps.replies)
           IN
           /\ s \in DOMAIN sessions /\ old.listApps.replies # <<>> /\ old.listApps.live
           /\ x \in SessionRec /\ sessions' = [sessions EXCEPT ![s] = x]
           /\ WellFiled(handlers')
           /\ \A k \in DOMAIN handlers' :
                 \/ k \in DOMAIN handlers /\ handlers'[k] = handlers[k]
                 \/ handlers'[k].sessionId = GetSessionId(s)
           /\ \A k \in DOMAIN handlers \ DOMAIN handlers' :
                 /\ reply.kind = "removed" /\ reply \in AppReplies
                 /\ k = ConvertKey(GetSessionId(s), reply.items[1])
  <1> DEFINE old == sessions[s]
             rest == [old.listApps EXCEPT !.replies = Tail(@)]
             x == [old EXCEPT !.listApps = rest]
             reply == Head(old.listApps.replies)
  <1>1. s \in DOMAIN sessions /\ old.listApps.replies # <<>>
    BY DEF OnListApps
  <1>2. old \in SessionRec /\ old.listApps \in CallRec(AppReplies)
    BY <1>1 DEF TypeOK, SessionRec
  <1>3. rest \in CallRec(AppReplies) /\ old.listApps.live /\ reply \in AppReplies
    <2> DEFINE call == old.listApps
    <2>1. call \in CallRec(AppReplies) /\ call.replies # <<>>
      BY <1>1, <1>2
    <2> HIDE DEF call
    <2>2. /\ [call EXCEPT !.replies = Tail(@)] \in CallRec(AppReplies)
          /\ call.live /\ Head(call.replies) \in AppReplies
      BY <2>1, DeliverType
    <2> QED
      BY <2>2 DEF call
  <1>4. x \in SessionRec
    <2> HIDE DEF rest, old
    <2>1. old.watched
      BY <1>2, <1>3 DEF SessionRec, NoCall
    <2> QED
      BY <1>2, <1>3, <2>1 DEF SessionRec
  <1>5. sessions' = [sessions EXCEPT ![s] = x]
    <2>1. sessions' = [sessions EXCEPT ![s].listApps.replies = Tail(@)]
      BY DEF OnListApps
    <2> QED
      BY <2>1
  <1>6. \/ reply.kind = "list" /\ handlers' = AddAll(s, reply.items)
        \/ /\ reply.kind = "added"
           /\ handlers' = AddHandler(handlers, MakeHandler(s, reply.items[1],
                                         TheFilters(Declared(reply.items[1]))))
        \/ /\ reply.kind = "removed"
           /\ handlers' = RemoveHandler(handlers, ConvertKey(GetSessionId(s), reply.items[1]))
        \/ handlers' = handlers
    BY DEF OnListApps
  <1> DEFINE Goal ==
        /\ WellFiled(handlers')
        /\ \A k \in DOMAIN handlers' :
              \/ k \in DOMAIN handlers /\ handlers'[k] = handlers[k]
              \/ handlers'[k].sessionId = GetSessionId(s)
        /\ \A k \in DOMAIN handlers \ DOMAIN handlers' :
              reply.kind = "removed" /\ k = ConvertKey(GetSessionId(s), reply.items[1])
  <1>7. WellFiled(handlers)
    BY TypeParts
  <1>8. Goal
    <2> HIDE DEF reply
    <2>1. CASE reply.kind = "list" /\ handlers' = AddAll(s, reply.items)
      <3>1. reply.items \in Seq(AppIds)
        BY <1>3, <2>1, AppReplyTypes
      <3>2. /\ WellFiled(AddAll(s, reply.items))
            /\ DOMAIN handlers \subseteq DOMAIN AddAll(s, reply.items)
            /\ \A k \in DOMAIN AddAll(s, reply.items) :
                  \/ k \in DOMAIN handlers /\ AddAll(s, reply.items)[k] = handlers[k]
                  \/ AddAll(s, reply.items)[k].sessionId = GetSessionId(s)
        BY <1>7, <3>1, AddAllFiled
      <3> QED
        BY <2>1, <3>2
    <2>2. CASE /\ reply.kind = "added"
               /\ handlers' = AddHandler(handlers, MakeHandler(s, reply.items[1],
                                             TheFilters(Declared(reply.items[1]))))
      <3>1. reply.items[1] \in AppIds
        BY <1>3, <2>2, AppReplyTypes
      <3> DEFINE h == MakeHandler(s, reply.items[1], TheFilters(Declared(reply.items[1])))
      <3>2. h \in HandlerRec /\ h.sessionId = GetSessionId(s)
        BY <3>1, FiltersType, MadeType
      <3>3. handlers' = AddHandler(handlers, h)
        BY <2>2
      <3> HIDE DEF h
      <3> QED
        BY <1>7, <3>2, <3>3, AddFiled
    <2>3. CASE /\ reply.kind = "removed"
               /\ handlers' = RemoveHandler(handlers,
                                  ConvertKey(GetSessionId(s), reply.items[1]))
      <3> DEFINE key == ConvertKey(GetSessionId(s), reply.items[1])
      <3>1. handlers' = Erase(handlers, {key})
        BY <2>3 DEF RemoveHandler
      <3> HIDE DEF key
      <3>2. /\ DOMAIN handlers' = DOMAIN handlers \ {key}
            /\ \A k \in DOMAIN handlers \ {key} : handlers'[k] = handlers[k]
        BY <3>1, EraseIsMap
      <3>3. WellFiled(handlers')
        BY <1>7, <3>1, EraseFiled
      <3> QED
        BY <2>3, <3>2, <3>3 DEF key
    <2>4. CASE handlers' = handlers
      BY <1>7, <2>4
    <2> QED
      BY <1>6, <2>1, <2>2, <2>3, <2>4
  <1> QED
    BY <1>1, <1>3, <1>4, <1>5, <1>8

\* SAM::onListApps.
LEMMA TypeListApps ==
    ASSUME TypeOK, NEW s \in SessionIds, OnListApps(s)
    PROVE  TypeOK'
  <1>1. UNCHANGED <<accountStatus, getSessions, external>>
    BY DEF OnListApps
  <1>2. WellFiled(handlers')
    BY AppsListed
  <1>3. DirectoryOK'
    <2>1. PICK x \in SessionRec : sessions' = [sessions EXCEPT ![s] = x]
      BY AppsListed
    <2> QED
      BY <2>1, DirectoryExcept, TypeParts
  <1> QED
    BY <1>1, <1>2, <1>3 DEF TypeOK, DirectoryOK, WellFiled, external, services

-----------------------------------------------------------------------------
\* What the application manager of s does to its session: a status is added, or
\* a reply to the listing, which stays as live as it was.
LEMMA ManagerSays ==
    ASSUME TypeOK, NEW s \in SessionIds,
           \/ SamGoes(s) \/ SamComes(s)
           \/ \E app \in AppIds, kind \in {"added", "removed", "updated"} : Tell(s, kind, app)
    PROVE  /\ UNCHANGED handlers
           /\ DOMAIN sessions' = DOMAIN sessions
           /\ \A u \in DOMAIN sessions :
                 /\ sessions'[u] \in SessionRec
                 /\ sessions'[u].listApps.live = sessions[u].listApps.live
                 /\ u # s => sessions'[u] = sessions[u]
           /\ s \in DOMAIN sessions /\ UNCHANGED samUp =>
                 sessions'[s].status = sessions[s].status
           /\ s \in DOMAIN sessions /\ samUp' # samUp =>
                 sessions'[s].status =
                    Told(sessions[s].watched, sessions[s].status, s \in samUp')
  <1> DEFINE old == sessions[s]
  <1>1. ASSUME s \in DOMAIN sessions
        PROVE  /\ old \in SessionRec /\ old.status \in Seq(BOOLEAN)
               /\ old.listApps \in CallRec(AppReplies) /\ old.watched \in BOOLEAN
               /\ ~old.watched => old.status = <<>> /\ old.listApps = NoCall
    BY <1>1 DEF TypeOK, SessionRec
  <1>2. ASSUME NEW x, sessions' = ForSession(s, x), UNCHANGED handlers,
               s \in DOMAIN sessions => x \in SessionRec /\ x.listApps.live = old.listApps.live
        PROVE  /\ DOMAIN sessions' = DOMAIN sessions
               /\ \A u \in DOMAIN sessions :
                     /\ sessions'[u] \in SessionRec
                     /\ sessions'[u].listApps.live = sessions[u].listApps.live
                     /\ u # s => sessions'[u] = sessions[u]
               /\ s \in DOMAIN sessions => sessions'[s] = x
    <2>1. CASE s \in DOMAIN sessions
      <3>1. sessions' = [sessions EXCEPT ![s] = x]
        BY <1>2, <2>1 DEF ForSession
      <3>2. /\ DOMAIN sessions' = DOMAIN sessions
            /\ \A u \in DOMAIN sessions : sessions'[u] = IF u = s THEN x ELSE sessions[u]
        BY <3>1
      <3> QED
        BY <1>2, <2>1, <3>2 DEF TypeOK
    <2>2. CASE s \notin DOMAIN sessions
      <3>1. sessions' = sessions
        BY <1>2, <2>2 DEF ForSession
      <3> QED
        BY <2>2, <3>1 DEF TypeOK
    <2> QED
      BY <2>1, <2>2
  <1>3. CASE SamGoes(s)
    <2> DEFINE x == [watched  |-> old.watched,
                     status   |-> Told(old.watched, old.status, FALSE),
                     listApps |-> Dead(old.listApps)]
    <2>1. /\ sessions' = ForSession(s, x) /\ UNCHANGED handlers
          /\ s \in samUp /\ samUp' = samUp \ {s}
      BY <1>3 DEF SamGoes
    <2>2. ASSUME s \in DOMAIN sessions
          PROVE  x \in SessionRec /\ x.listApps.live = old.listApps.live
      <3>1. Append(old.status, FALSE) \in Seq(BOOLEAN)
        BY <1>1, <2>2
      <3>2. Dead(old.listApps) \in CallRec(AppReplies) /\ Dead(old.listApps).live = old.listApps.live
        BY <1>1, <2>2, DeadType, AppReplyTypes
      <3>3. Dead(NoCall) = NoCall
        BY DEF Dead, NoCall
      <3> QED
        BY <1>1, <2>2, <3>1, <3>2, <3>3 DEF SessionRec, Told
    <2>3. x.status = Told(old.watched, old.status, FALSE) /\ samUp' # samUp
      BY <2>1
    <2>4. (s \in samUp') = FALSE
      <3>1. ~(s \in samUp')
        BY <2>1
      <3> QED
        BY <3>1
    <2> HIDE DEF x
    <2> QED
      BY <1>2, <2>1, <2>2, <2>3, <2>4
  <1>4. CASE SamComes(s)
    <2> DEFINE x == [watched  |-> old.watched,
                     status   |-> Told(old.watched, old.status, TRUE),
                     listApps |-> old.listApps]
    <2>1. /\ sessions' = ForSession(s, x) /\ UNCHANGED handlers
          /\ s \notin samUp /\ samUp' = samUp \cup {s}
      BY <1>4 DEF SamComes
    <2>2. ASSUME s \in DOMAIN sessions
          PROVE  x \in SessionRec /\ x.listApps.live = old.listApps.live
      <3>1. Append(old.status, TRUE) \in Seq(BOOLEAN)
        BY <1>1, <2>2
      <3> QED
        BY <1>1, <2>2, <3>1 DEF SessionRec, Told
    <2>3. x.status = Told(old.watched, old.status, TRUE) /\ (s \in samUp') = TRUE /\ samUp' # samUp
      BY <2>1
    <2> HIDE DEF x
    <2> QED
      BY <1>2, <2>1, <2>2, <2>3
  <1>5. ASSUME NEW app \in AppIds, NEW kind \in {"added", "removed", "updated"},
               Tell(s, kind, app)
        PROVE  /\ UNCHANGED handlers /\ UNCHANGED samUp
               /\ DOMAIN sessions' = DOMAIN sessions
               /\ \A u \in DOMAIN sessions :
                     /\ sessions'[u] \in SessionRec
                     /\ sessions'[u].listApps.live = sessions[u].listApps.live
                     /\ u # s => sessions'[u] = sessions[u]
               /\ s \in DOMAIN sessions => sessions'[s].status = old.status
    <2> DEFINE reply == [kind |-> kind, items |-> <<app>>]
               call  == Push(old.listApps, reply)
               x     == [watched |-> old.watched, status |-> old.status, listApps |-> call]
    <2>1. sessions' = ForSession(s, x) /\ UNCHANGED <<handlers, samUp>>
      BY <1>5 DEF Tell
    <2>2. ASSUME s \in DOMAIN sessions
          PROVE  x \in SessionRec /\ x.listApps.live = old.listApps.live
      <3>1. reply \in AppReplies
        BY AppReplyTypes
      <3> HIDE DEF reply
      <3>2. call \in CallRec(AppReplies) /\ call.live = old.listApps.live
        BY <1>1, <2>2, <3>1, PushType
      <3>3. ~old.watched => call = NoCall
        BY <1>1, <2>2 DEF Push, NoCall
      <3> HIDE DEF call
      <3> QED
        BY <1>1, <2>2, <3>2, <3>3 DEF SessionRec
    <2>3. x.status = old.status
      OBVIOUS
    <2> HIDE DEF x
    <2> QED
      BY <1>2, <2>1, <2>2, <2>3
  <1> QED
    BY <1>3, <1>4, <1>5

\* The application managers keep the types.
LEMMA TypeManager ==
    ASSUME TypeOK, NEW s \in SessionIds,
           \/ SamGoes(s) \/ SamComes(s)
           \/ \E app \in AppIds : Install(s, app) \/ Uninstall(s, app) \/ Upgrade(s, app)
    PROVE  TypeOK'
  <1>1. \/ SamGoes(s) \/ SamComes(s)
        \/ \E app \in AppIds, kind \in {"added", "removed", "updated"} : Tell(s, kind, app)
    BY DEF Install, Uninstall, Upgrade
  <1>2. UNCHANGED handlers /\ DirectoryOK'
    BY <1>1, ManagerSays, TypeParts DEF DirectoryOK
  <1>3. UNCHANGED <<accountWatched, accountStatus, getSessions, accountUp, users>>
    BY DEF SamGoes, SamComes, Install, Uninstall, Upgrade, Tell
  <1>4. ServicesOK'
    <2>1. samUp' \subseteq SessionIds
      BY DEF TypeOK, SamGoes, SamComes, Install, Uninstall, Upgrade, Tell
    <2>2. installed' \in [SessionIds -> SUBSET AppIds]
      <3>1. CASE UNCHANGED installed
        BY <3>1 DEF TypeOK
      <3>2. ASSUME NEW app \in AppIds, Install(s, app) \/ Uninstall(s, app)
            PROVE  installed' \in [SessionIds -> SUBSET AppIds]
        BY <3>2 DEF TypeOK, Install, Uninstall
      <3> QED
        BY <3>1, <3>2 DEF SamGoes, SamComes, Upgrade
    <2> QED
      BY <1>3, <2>1, <2>2, TypeParts DEF ServicesOK
  <1> QED
    BY <1>2, <1>3, <1>4, TypeParts DEF TypeOK, DirectoryOK, WellFiled, ServicesOK

\* The account service keeps the types.
LEMMA TypeAccountService ==
    ASSUME TypeOK, AccountGoes \/ AccountComes \/ UsersChange
    PROVE  TypeOK'
  <1>1. UNCHANGED <<accountWatched, sessions, handlers, samUp, installed>>
    BY DEF AccountGoes, AccountComes, UsersChange
  <1>2. accountUp' \in BOOLEAN /\ users' \subseteq SessionIds
    BY DEF TypeOK, AccountGoes, AccountComes, UsersChange
  <1>3. accountStatus' \in Seq(BOOLEAN)
    <2>1. \/ accountStatus' = accountStatus
          \/ accountStatus' = Append(accountStatus, FALSE)
          \/ accountStatus' = Append(accountStatus, TRUE)
      BY DEF AccountGoes, AccountComes, UsersChange, Told
    <2>2. accountStatus \in Seq(BOOLEAN)
      BY DEF TypeOK
    <2>3. /\ Append(accountStatus, FALSE) \in Seq(BOOLEAN)
          /\ Append(accountStatus, TRUE) \in Seq(BOOLEAN)
      BY <2>2
    <2> QED
      BY <2>1, <2>2, <2>3
  <1>4. getSessions' \in CallRec(SessionReplies)
    <2>1. CASE AccountGoes
      BY <2>1, DeadType, SessionReplyTypes DEF TypeOK, AccountGoes
    <2>2. CASE AccountComes
      BY <2>2 DEF TypeOK, AccountComes
    <2>3. CASE UsersChange
      <3> DEFINE reply == [kind |-> "list", items |-> users']
      <3>1. reply \in SessionReplies
        BY <1>2, SessionReplyTypes
      <3>2. getSessions' = Push(getSessions, reply)
        BY <2>3 DEF UsersChange
      <3> HIDE DEF reply
      <3> QED
        BY <3>1, <3>2, PushType DEF TypeOK
    <2> QED
      BY <2>1, <2>2, <2>3
  <1> QED
    BY <1>1, <1>2, <1>3, <1>4 DEF TypeOK

\* Every step keeps the types.
LEMMA TypeNext == TypeOK /\ [Next]_vars => TypeOK'
  <1> SUFFICES ASSUME TypeOK, [Next]_vars PROVE TypeOK'
    OBVIOUS
  <1>1. CASE AccountStatusChanged
    BY <1>1, TypeAccountStatus
  <1>2. CASE OnGetSessions
    BY <1>2, TypeGetSessions
  <1>3. CASE \E s \in SessionIds : SamStatusChanged(s) \/ OnListApps(s)
    BY <1>3, TypeSamStatus, TypeListApps
  <1>4. CASE AccountGoes \/ AccountComes \/ UsersChange
    BY <1>4, TypeAccountService
  <1>5. CASE (\E s \in SessionIds : SamGoes(s) \/ SamComes(s)) \/ Service
    BY <1>5, TypeManager DEF Service
  <1>6. CASE UNCHANGED vars
    BY <1>6 DEF TypeOK, vars, external, services
  <1>7. CASE Restart
    <2>1. Fresh' /\ ServicesOK'
      BY <1>7, RestartFresh, TypeParts
    <2> QED
      BY <2>1, FreshTypes, PTL
  <1> QED
    BY <1>1, <1>2, <1>3, <1>4, <1>5, <1>6, <1>7 DEF Next

\* In every reachable state each variable has its type: a call that is not live
\* has no reply under way, and each handler is filed under its own key.
THEOREM DirectoryTypeCorrect == Spec => []TypeOK
  BY InitFresh, FreshTypes, TypeNext, PTL DEF Spec

-----------------------------------------------------------------------------
\* Erasing the handlers of some sessions leaves the others' as they are.
LEMMA SessionsErased ==
    ASSUME NEW S
    PROVE  /\ \A k \in DOMAIN WithoutHandlersOf(S) :
                 /\ k \in DOMAIN handlers /\ WithoutHandlersOf(S)[k] = handlers[k]
                 /\ handlers[k].sessionId \notin S
           /\ \A k \in DOMAIN handlers :
                 handlers[k].sessionId \notin S => k \in DOMAIN WithoutHandlersOf(S)
  <1> DEFINE gone == {k \in DOMAIN handlers : handlers[k].sessionId \in S}
  <1>1. WithoutHandlersOf(S) = Erase(handlers, gone)
    BY DEF WithoutHandlersOf
  <1>2. \A k : k \in gone <=> k \in DOMAIN handlers /\ handlers[k].sessionId \in S
    OBVIOUS
  <1> HIDE DEF gone
  <1>3. /\ DOMAIN Erase(handlers, gone) = DOMAIN handlers \ gone
        /\ \A k \in DOMAIN handlers \ gone : Erase(handlers, gone)[k] = handlers[k]
    BY EraseIsMap
  <1> QED
    BY <1>1, <1>2, <1>3

\* removeBySessionId erases those of one session.
LEMMA SessionErased ==
    ASSUME NEW s
    PROVE  /\ \A k \in DOMAIN RemoveBySessionId(handlers, s) :
                 /\ k \in DOMAIN handlers
                 /\ RemoveBySessionId(handlers, s)[k] = handlers[k]
                 /\ handlers[k].sessionId # s
           /\ \A k \in DOMAIN handlers : handlers[k].sessionId # s =>
                 k \in DOMAIN RemoveBySessionId(handlers, s)
  <1> DEFINE gone == {k \in DOMAIN handlers : handlers[k].sessionId = s}
  <1>1. RemoveBySessionId(handlers, s) = Erase(handlers, gone)
    BY DEF RemoveBySessionId
  <1>2. \A k : k \in gone <=> k \in DOMAIN handlers /\ handlers[k].sessionId = s
    OBVIOUS
  <1> HIDE DEF gone
  <1>3. /\ DOMAIN Erase(handlers, gone) = DOMAIN handlers \ gone
        /\ \A k \in DOMAIN handlers \ gone : Erase(handlers, gone)[k] = handlers[k]
    BY EraseIsMap
  <1> QED
    BY <1>1, <1>2, <1>3

\* The session "host" files its handlers under "", every other under its own id.
LEMMA WhoseId ==
    ASSUME NEW s \in SessionIds
    PROVE  GetSessionId(s) = s \/ (EnableSession /\ s = "host" /\ GetSessionId(s) = "")
  BY BuildAssumption DEF GetSessionId

\* A step keeps the orphans out when the handlers it leaves are old ones whose
\* session stays live, or belong to a live session.
LEMMA NoOrphanStep ==
    ASSUME NoOrphanHandlers,
           \A k \in DOMAIN handlers' :
              \/ /\ k \in DOMAIN handlers /\ handlers'[k] = handlers[k]
                 /\ \A s : s = handlers[k].sessionId /\ Live(s) => Live(s)'
              \/ \E s \in SessionIds : Live(s)' /\ handlers'[k].sessionId = GetSessionId(s)
    PROVE  NoOrphanHandlers'
  <1> SUFFICES ASSUME NEW k \in DOMAIN handlers', NEW id, id = handlers'[k].sessionId
               PROVE  Live(id)' \/ (EnableSession /\ id = "" /\ "host" \in SessionIds)
    BY DEF NoOrphanHandlers, Live
  <1>1. CASE /\ k \in DOMAIN handlers /\ handlers'[k] = handlers[k]
             /\ \A s : s = handlers[k].sessionId /\ Live(s) => Live(s)'
    <2>1. Live(id) \/ (EnableSession /\ id = "" /\ "host" \in SessionIds)
      BY <1>1 DEF NoOrphanHandlers
    <2> QED
      BY <1>1, <2>1
  <1>2. ASSUME NEW s \in SessionIds, Live(s)', id = GetSessionId(s)
        PROVE  Live(id)' \/ (EnableSession /\ id = "" /\ "host" \in SessionIds)
    BY <1>2, WhoseId
  <1> QED
    BY <1>1, <1>2

\* The process starts without handlers.
LEMMA FreshOwned == Fresh => NoOrphanHandlers
  <1>1. DOMAIN <<>> = {}
    OBVIOUS
  <1> QED
    BY <1>1 DEF Fresh, NoOrphanHandlers

\* Each step keeps the orphans out.
LEMMA NoOrphanNext == TypeOK /\ NoOrphanHandlers /\ [Next]_vars => NoOrphanHandlers'
  <1> SUFFICES ASSUME TypeOK, NoOrphanHandlers, [Next]_vars
               PROVE  NoOrphanHandlers'
    OBVIOUS
  <1>1. CASE AccountStatusChanged
    <2>1. handlers' = WithoutHandlersOf(DOMAIN sessions)
      BY <1>1 DEF AccountStatusChanged
    <2>2. \A k \in DOMAIN handlers' :
              /\ k \in DOMAIN handlers /\ handlers'[k] = handlers[k]
              /\ handlers[k].sessionId \notin DOMAIN sessions
      BY <2>1, SessionsErased
    <2> QED
      BY <2>2, NoOrphanStep DEF Live
  <1>2. CASE OnGetSessions
    <2> DEFINE reply == Head(getSessions.replies)
    <2>1. CASE reply.kind = "error"
      <3>1. UNCHANGED <<sessions, handlers>>
        BY <1>2, <2>1, SessionsListed
      <3> QED
        BY <3>1, NoOrphanStep DEF Live
    <2>2. CASE reply.kind # "error"
      <3>1. /\ DOMAIN sessions' = reply.items
            /\ \A s \in DOMAIN sessions' : s \in DOMAIN sessions => sessions'[s] = sessions[s]
            /\ handlers' = WithoutHandlersOf(DOMAIN sessions \ reply.items)
        BY <1>2, <2>2, SessionsListed
      <3> HIDE DEF reply
      <3>2. \A k \in DOMAIN handlers' :
                /\ k \in DOMAIN handlers /\ handlers'[k] = handlers[k]
                /\ handlers[k].sessionId \notin DOMAIN sessions \ reply.items
        BY <3>1, SessionsErased
      <3>3. \A s : Live(s) /\ s \notin DOMAIN sessions \ reply.items => Live(s)'
        BY <3>1 DEF Live
      <3> QED
        BY <3>2, <3>3, NoOrphanStep
    <2> QED
      BY <2>1, <2>2
  <1>3. ASSUME NEW s \in SessionIds, SamStatusChanged(s)
        PROVE  NoOrphanHandlers'
    <2>1. PICK call \in CallRec(AppReplies) :
              LET x == [watched |-> sessions[s].watched, status |-> Tail(sessions[s].status),
                        listApps |-> call] IN
              /\ s \in DOMAIN sessions /\ x \in SessionRec
              /\ sessions' = [sessions EXCEPT ![s] = x]
              /\ \/ /\ handlers' = handlers
                    /\ sessions[s].listApps.live => call = sessions[s].listApps
                 \/ handlers' = RemoveBySessionId(handlers, s)
      BY <1>3, SamTold
    <2>2. \A u : u # s /\ Live(u) => Live(u)'
      BY <2>1 DEF Live
    <2>3. CASE /\ handlers' = handlers
               /\ sessions[s].listApps.live => call = sessions[s].listApps
      <3>1. Live(s) => Live(s)'
        BY <2>1, <2>3 DEF Live
      <3> QED
        BY <2>2, <2>3, <3>1, NoOrphanStep
    <2>4. CASE handlers' = RemoveBySessionId(handlers, s)
      <3>1. \A k \in DOMAIN handlers' :
                /\ k \in DOMAIN handlers /\ handlers'[k] = handlers[k]
                /\ handlers[k].sessionId # s
        BY <2>4, SessionErased
      <3> QED
        BY <2>2, <3>1, NoOrphanStep
    <2> QED
      BY <2>1, <2>3, <2>4
  <1>4. ASSUME NEW s \in SessionIds, OnListApps(s)
        PROVE  NoOrphanHandlers'
    <2> DEFINE old == sessions[s]
               rest == [old.listApps EXCEPT !.replies = Tail(@)]
               x == [old EXCEPT !.listApps = rest]
    <2>1. /\ s \in DOMAIN sessions /\ sessions[s].listApps.live
          /\ sessions' = [sessions EXCEPT ![s] = x]
          /\ \A k \in DOMAIN handlers' :
                \/ k \in DOMAIN handlers /\ handlers'[k] = handlers[k]
                \/ handlers'[k].sessionId = GetSessionId(s)
      BY <1>4, AppsListed
    <2>2. x.listApps.live
      BY <2>1 DEF TypeOK, SessionRec, CallRec
    <2> HIDE DEF x
    <2>3. \A u : Live(u) => Live(u)'
      BY <2>1, <2>2 DEF Live
    <2>4. Live(s)'
      BY <2>1, <2>2 DEF Live
    <2> QED
      BY <2>1, <2>3, <2>4, NoOrphanStep
  <1>5. ASSUME NEW s \in SessionIds,
               \/ SamGoes(s) \/ SamComes(s)
               \/ \E app \in AppIds, kind \in {"added", "removed", "updated"} :
                     Tell(s, kind, app)
        PROVE  NoOrphanHandlers'
    <2>1. /\ UNCHANGED handlers /\ DOMAIN sessions' = DOMAIN sessions
          /\ \A u \in DOMAIN sessions : sessions'[u].listApps.live = sessions[u].listApps.live
      BY <1>5, ManagerSays
    <2> QED
      BY <2>1, NoOrphanStep DEF Live
  <1>6. CASE AccountGoes \/ AccountComes \/ UsersChange \/ UNCHANGED vars
    <2>1. UNCHANGED <<sessions, handlers>>
      BY <1>6 DEF AccountGoes, AccountComes, UsersChange, vars
    <2> QED
      BY <2>1, NoOrphanStep DEF Live
  <1>7. CASE Restart
    BY <1>7, RestartFresh, FreshOwned, PTL
  <1> QED
    BY <1>1, <1>2, <1>3, <1>4, <1>5, <1>6, <1>7
       DEF Next, Service, Install, Uninstall, Upgrade

\* In every reachable state each handler belongs to a session that exists and whose
\* application manager is listened to, the session "host" excepted.
THEOREM HandlersHaveOwners == Spec => []NoOrphanHandlers
  BY InitFresh, FreshOwned, DirectoryTypeCorrect, NoOrphanNext, PTL DEF Spec

-----------------------------------------------------------------------------
\* While the call is served it has listings under way only, and the last of them,
\* or else m_sessions, is what the account service says.
AccountSays ==
    /\ getSessions.served =>
          \A i \in 1..Len(getSessions.replies) : getSessions.replies[i].kind = "list"
    /\ SessionsFollowAccount

\* Steps that leave the call and the set of sessions alone.
LEMMA AccountSaysKept ==
    ASSUME AccountSays, UNCHANGED <<getSessions, users>>, DOMAIN sessions' = DOMAIN sessions
    PROVE  AccountSays'
  BY DEF AccountSays, SessionsFollowAccount

\* The calls that have just been made, or are dead, or cancelled.
LEMMA AccountSaysNew ==
    ASSUME \/ ~getSessions'.served
           \/ getSessions'.replies = <<[kind |-> "list", items |-> users']>>
    PROVE  AccountSays'
  <1>1. CASE ~getSessions'.served
    BY <1>1 DEF AccountSays, SessionsFollowAccount
  <1>2. CASE getSessions'.replies = <<[kind |-> "list", items |-> users']>>
    <2> DEFINE queue == <<[kind |-> "list", items |-> users']>>
    <2>1. /\ queue # <<>> /\ Len(queue) = 1
          /\ queue[1].kind = "list" /\ queue[1].items = users'
      OBVIOUS
    <2>2. getSessions'.replies = queue
      BY <1>2
    <2> HIDE DEF queue
    <2> QED
      BY <2>1, <2>2 DEF AccountSays, SessionsFollowAccount
  <1> QED
    BY <1>1, <1>2

\* The process starts without a call.
LEMMA FreshSays == Fresh => AccountSays
  BY DEF Fresh, NoCall, AccountSays, SessionsFollowAccount

\* The main loop and the services keep m_sessions after the account service.
LEMMA AccountSaysNext == TypeOK /\ AccountSays /\ [Next]_vars => AccountSays'
  <1> SUFFICES ASSUME TypeOK, AccountSays, [Next]_vars
               PROVE  AccountSays'
    OBVIOUS
  <1> DEFINE queue == getSessions.replies
  <1>0. getSessions \in CallRec(SessionReplies) /\ queue \in Seq(SessionReplies)
    BY DEF TypeOK, CallRec
  <1>1. CASE AccountStatusChanged
    <2> DEFINE first == {[kind |-> "list", items |-> users]}
    <2>1. getSessions' \in Calls(accountUp, first) \/ getSessions' = NoCall
      BY <1>1 DEF AccountStatusChanged
    <2>2. first \subseteq SessionReplies /\ \A r \in first : r = [kind |-> "list", items |-> users]
      BY SessionReplyTypes DEF TypeOK
    <2>3. users' = users
      BY <1>1 DEF AccountStatusChanged, external, services
    <2> HIDE DEF first
    <2>4. CASE getSessions' \in Calls(accountUp, first)
      <3>1. getSessions'.served => \E r \in first : getSessions'.replies = <<r>>
        BY <2>2, <2>4, CallsType, SessionReplyTypes
      <3> QED
        BY <2>2, <2>3, <3>1, AccountSaysNew
    <2>5. CASE getSessions' = NoCall
      <3>1. ~getSessions'.served
        BY <2>5 DEF NoCall
      <3> QED
        BY <3>1, AccountSaysNew
    <2> QED
      BY <2>1, <2>4, <2>5
  <1>2. CASE OnGetSessions
    <2>1. SUFFICES ASSUME getSessions'.served
                   PROVE  AccountSays'
      BY AccountSaysNew
    <2>2. queue # <<>> /\ getSessions' = [getSessions EXCEPT !.replies = Tail(queue)]
      BY <1>2, SessionsListed
    <2>3. getSessions.served /\ getSessions'.replies = Tail(queue)
      BY <1>0, <2>1, <2>2 DEF CallRec
    <2>4. /\ \A i \in 1..Len(queue) : queue[i].kind = "list"
          /\ users = queue[Len(queue)].items
      BY <2>2, <2>3 DEF AccountSays, SessionsFollowAccount
    <2>5. users' = users
      BY <1>2 DEF OnGetSessions, external, services
    <2>6. /\ \A i \in 1..Len(Tail(queue)) : Tail(queue)[i] = queue[i + 1] /\ i + 1 \in 1..Len(queue)
          /\ Tail(queue) # <<>> => Tail(queue)[Len(Tail(queue))] = queue[Len(queue)]
          /\ Tail(queue) = <<>> => Head(queue) = queue[Len(queue)]
      <3> HIDE DEF queue
      <3> QED
        BY <1>0, <2>2, TailOfQueue
    <2>7. Tail(queue) = <<>> => DOMAIN sessions' = users
      <3>1. SUFFICES ASSUME Tail(queue) = <<>> PROVE DOMAIN sessions' = users
        OBVIOUS
      <3>2. Head(queue).items = users
        BY <2>4, <2>6, <3>1
      <3>3. Head(queue).kind = "list"
        <4>1. Len(queue) \in 1..Len(queue)
          BY <1>0, <2>2
        <4> QED
          BY <2>4, <2>6, <3>1, <4>1
      <3>4. DOMAIN sessions' = Head(queue).items
        <4>1. Head(queue).kind # "error"
          BY <3>3
        <4> QED
          BY <1>2, <4>1, SessionsListed
      <3> QED
        BY <3>2, <3>4
    <2> HIDE DEF queue
    <2>8. \A i \in 1..Len(getSessions'.replies) : getSessions'.replies[i].kind = "list"
      BY <2>3, <2>4, <2>6
    <2>9. SessionsFollowAccount'
      BY <2>3, <2>4, <2>5, <2>6, <2>7 DEF SessionsFollowAccount
    <2> QED
      BY <2>8, <2>9 DEF AccountSays
  <1>3. ASSUME NEW s \in SessionIds, SamStatusChanged(s) \/ OnListApps(s)
        PROVE  AccountSays'
    <2>1. PICK x \in SessionRec : sessions' = [sessions EXCEPT ![s] = x]
      BY <1>3, SamTold, AppsListed
    <2>2. UNCHANGED <<getSessions, users>>
      BY <1>3 DEF SamStatusChanged, OnListApps, external, services
    <2> QED
      BY <2>1, <2>2, AccountSaysKept
  <1>4. ASSUME NEW s \in SessionIds,
               \/ SamGoes(s) \/ SamComes(s)
               \/ \E app \in AppIds, kind \in {"added", "removed", "updated"} :
                     Tell(s, kind, app)
        PROVE  AccountSays'
    <2>1. DOMAIN sessions' = DOMAIN sessions
      BY <1>4, ManagerSays
    <2>2. UNCHANGED <<getSessions, users>>
      BY <1>4 DEF SamGoes, SamComes, Tell
    <2> QED
      BY <2>1, <2>2, AccountSaysKept
  <1>5. CASE AccountGoes
    <2>1. ~getSessions'.served
      BY <1>0, <1>5, DeadType, SessionReplyTypes DEF AccountGoes
    <2> QED
      BY <2>1, AccountSaysNew
  <1>6. CASE UsersChange
    <2> DEFINE reply == [kind |-> "list", items |-> users']
    <2>1. reply \in SessionReplies /\ reply.kind = "list" /\ reply.items = users'
      BY <1>6, SessionReplyTypes DEF UsersChange
    <2>2. getSessions' = Push(getSessions, reply)
      BY <1>6 DEF UsersChange
    <2> HIDE DEF reply
    <2>3. /\ getSessions'.served = getSessions.served
          /\ getSessions.served => getSessions'.replies = Append(queue, reply)
      BY <1>0, <2>1, <2>2, PushType
    <2>4. SUFFICES ASSUME getSessions.served
                   PROVE  AccountSays'
      BY <2>3, AccountSaysNew
    <2> DEFINE longer == Append(queue, reply)
    <2>5. /\ longer # <<>> /\ longer[Len(longer)] = reply
          /\ \A i \in 1..Len(longer) :
                longer[i] = reply \/ (i \in 1..Len(queue) /\ longer[i] = queue[i])
      <3> HIDE DEF queue
      <3> QED
        BY <1>0, <2>1, AppendToQueue
    <2>6. getSessions'.replies = longer
      BY <2>3, <2>4
    <2>7. \A i \in 1..Len(queue) : queue[i].kind = "list"
      BY <2>4 DEF AccountSays
    <2> HIDE DEF longer, queue
    <2> QED
      BY <2>1, <2>5, <2>6, <2>7 DEF AccountSays, SessionsFollowAccount
  <1>7. CASE AccountComes \/ UNCHANGED vars
    <2>1. UNCHANGED <<getSessions, users, sessions>>
      BY <1>7 DEF AccountComes, vars, external, services
    <2> QED
      BY <2>1, AccountSaysKept
  <1>8. CASE Restart
    BY <1>8, RestartFresh, FreshSays, PTL
  <1> QED
    BY <1>1, <1>2, <1>3, <1>4, <1>5, <1>6, <1>7, <1>8
       DEF Next, Service, Install, Uninstall, Upgrade

\* In every reachable state the last listing under way, or else m_sessions, is
\* what the account service says, as long as it serves the call.
THEOREM SessionsAreAccounts == Spec => []SessionsFollowAccount
  <1>1. AccountSays => SessionsFollowAccount
    BY DEF AccountSays
  <1> QED
    BY <1>1, InitFresh, FreshSays, DirectoryTypeCorrect, AccountSaysNext, PTL DEF Spec

-----------------------------------------------------------------------------
\* What the status calls have under way: the last news of the account service, and
\* of each application manager, is its state, and once it is delivered nothing that
\* depends on a service that is down is left.  Where nobody watches there is no news,
\* and there was never anything to depend on the service.
AccountKnown ==
    /\ accountStatus # <<>> => accountStatus[Len(accountStatus)] = accountUp
    /\ EnableSession /\ ~(accountUp /\ accountWatched) /\ accountStatus = <<>> =>
          DOMAIN sessions = {} /\ getSessions = NoCall
    /\ ~accountWatched => accountStatus = <<>>

ManagerKnown(s) ==
    LET queue == sessions[s].status IN
    /\ queue # <<>> => queue[Len(queue)] = (s \in samUp)
    /\ queue = <<>> /\ s \notin samUp => ~sessions[s].listApps.live

StatusKnown == AccountKnown /\ \A s \in DOMAIN sessions : ManagerKnown(s)

\* A new session waits for the news, or will never ask.
LEMMA NewSessionKnown ==
    ASSUME NEW s, s \in DOMAIN sessions', sessions'[s] \in NewSessions(s), UNCHANGED samUp
    PROVE  ManagerKnown(s)'
  BY NewSessionType DEF ManagerKnown

\* Each step leaves the account service's news known.
LEMMA AccountKnownNext == TypeOK /\ AccountKnown /\ [Next]_vars /\ ~Restart => AccountKnown'
  <1> SUFFICES ASSUME TypeOK, AccountKnown, [Next]_vars, ~Restart
               PROVE  AccountKnown'
    OBVIOUS
  <1>0. accountStatus \in Seq(BOOLEAN) /\ accountUp \in BOOLEAN /\ accountWatched \in BOOLEAN
    BY DEF TypeOK
  <1>1. CASE AccountStatusChanged
    <2>1. /\ accountStatus # <<>> /\ accountStatus' = Tail(accountStatus)
          /\ UNCHANGED <<accountUp, accountWatched>> /\ accountWatched
          /\ ~Head(accountStatus) => getSessions' = NoCall
      BY <1>1 DEF AccountStatusChanged, external, services, AccountKnown
    <2>2. DOMAIN sessions' = {}
      BY <1>1, TypeAccountStatus
    <2>3. /\ Tail(accountStatus) # <<>> =>
                Tail(accountStatus)[Len(Tail(accountStatus))] = accountStatus[Len(accountStatus)]
          /\ Tail(accountStatus) = <<>> => Head(accountStatus) = accountStatus[Len(accountStatus)]
      BY <1>0, <2>1, TailOfQueue
    <2> QED
      BY <2>1, <2>2, <2>3 DEF AccountKnown
  <1>2. CASE OnGetSessions
    <2>1. /\ getSessions.replies # <<>>
          /\ UNCHANGED <<accountStatus, accountUp, accountWatched>>
      BY <1>2 DEF OnGetSessions, external, services
    <2>2. getSessions # NoCall
      BY <2>1 DEF NoCall
    <2> QED
      BY <2>1, <2>2 DEF AccountKnown
  <1>3. CASE AccountGoes \/ AccountComes
    <2>1. PICK news \in BOOLEAN :
              accountUp' = news /\ accountStatus' = Told(accountWatched, accountStatus, news)
      BY <1>3 DEF AccountGoes, AccountComes
    <2>2. EnableSession /\ UNCHANGED <<accountWatched, sessions>>
      BY <1>3 DEF AccountGoes, AccountComes
    <2>3. CASE accountWatched
      <3>1. LET a == Append(accountStatus, news) IN a # <<>> /\ a[Len(a)] = news
        BY <1>0, AppendToQueue
      <3> QED
        BY <2>1, <2>2, <2>3, <3>1 DEF AccountKnown, Told
    <2>4. CASE ~accountWatched
      <3>1. accountStatus = <<>> /\ DOMAIN sessions = {} /\ getSessions = NoCall
        BY <2>2, <2>4 DEF AccountKnown
      <3>2. getSessions' = NoCall
        BY <1>3, <3>1 DEF AccountGoes, AccountComes, Dead, NoCall
      <3> QED
        BY <2>1, <2>2, <2>4, <3>1, <3>2 DEF AccountKnown, Told
    <2> QED
      BY <1>0, <2>3, <2>4
  <1>4. CASE UsersChange
    <2>1. UNCHANGED <<accountWatched, accountStatus, sessions, accountUp>> /\ accountUp
      BY <1>4 DEF UsersChange
    <2>2. getSessions = NoCall => getSessions' = NoCall
      BY <1>4 DEF UsersChange, Push, NoCall
    <2> QED
      BY <2>1, <2>2 DEF AccountKnown
  <1>5. ASSUME NEW s \in SessionIds, SamStatusChanged(s) \/ OnListApps(s)
        PROVE  AccountKnown'
    <2>1. PICK x \in SessionRec : sessions' = [sessions EXCEPT ![s] = x]
      BY <1>5, SamTold, AppsListed
    <2>2. UNCHANGED <<accountWatched, accountStatus, getSessions, accountUp>>
      BY <1>5 DEF SamStatusChanged, OnListApps, external, services
    <2> QED
      BY <2>1, <2>2 DEF AccountKnown
  <1>6. ASSUME NEW s \in SessionIds,
               \/ SamGoes(s) \/ SamComes(s)
               \/ \E app \in AppIds, kind \in {"added", "removed", "updated"} :
                     Tell(s, kind, app)
        PROVE  AccountKnown'
    <2>1. DOMAIN sessions' = DOMAIN sessions
      BY <1>6, ManagerSays
    <2>2. UNCHANGED <<accountWatched, accountStatus, getSessions, accountUp>>
      BY <1>6 DEF SamGoes, SamComes, Tell
    <2> QED
      BY <2>1, <2>2 DEF AccountKnown
  <1>7. CASE UNCHANGED vars
    BY <1>7 DEF AccountKnown, vars, external, services
  <1> QED
    BY <1>1, <1>2, <1>3, <1>4, <1>5, <1>6, <1>7
       DEF Next, Service, Install, Uninstall, Upgrade

\* Each step leaves the application managers' news known.
LEMMA ManagerKnownNext ==
    ASSUME TypeOK, [Next]_vars, ~Restart, \A s \in DOMAIN sessions : ManagerKnown(s),
           NEW u \in DOMAIN sessions'
    PROVE  ManagerKnown(u)'
  <1>0. \A s \in DOMAIN sessions :
            /\ sessions[s] \in SessionRec /\ sessions[s].status \in Seq(BOOLEAN)
            /\ sessions[s].listApps \in CallRec(AppReplies) /\ sessions[s].watched \in BOOLEAN
            /\ ~sessions[s].watched => sessions[s].status = <<>> /\ ~sessions[s].listApps.live
    BY DEF TypeOK, SessionRec, NoCall
  <1>1. ASSUME u \in DOMAIN sessions, sessions'[u] = sessions[u],
               u \in samUp' <=> u \in samUp
        PROVE  ManagerKnown(u)'
    <2>1. (u \in samUp') = (u \in samUp)
      BY <1>1
    <2> QED
      BY <1>1, <2>1 DEF ManagerKnown
  <1>2. CASE AccountStatusChanged
    BY <1>2, TypeAccountStatus
  <1>3. CASE OnGetSessions
    <2>1. UNCHANGED samUp
      BY <1>3 DEF OnGetSessions, external, services
    <2>2. \/ u \in DOMAIN sessions /\ sessions'[u] = sessions[u]
          \/ sessions'[u] \in NewSessions(u)
      <3> DEFINE reply == Head(getSessions.replies)
      <3>1. CASE reply.kind = "error"
        BY <1>3, <3>1, SessionsListed
      <3>2. CASE reply.kind # "error"
        BY <1>3, <3>2, SessionsListed
      <3> QED
        BY <3>1, <3>2
    <2> QED
      BY <1>1, <2>1, <2>2, NewSessionKnown
  <1>4. ASSUME NEW s \in SessionIds, SamStatusChanged(s)
        PROVE  ManagerKnown(u)'
    <2> DEFINE queue == sessions[s].status
    <2>1. UNCHANGED samUp
      BY <1>4 DEF SamStatusChanged, external, services
    <2>2. PICK call \in CallRec(AppReplies) :
              LET x == [watched |-> sessions[s].watched, status |-> Tail(queue),
                        listApps |-> call] IN
              /\ s \in DOMAIN sessions /\ queue # <<>>
              /\ sessions' = [sessions EXCEPT ![s] = x]
              /\ Head(queue) \/ call = NoCall
      BY <1>4, SamTold
    <2>3. u # s => u \in DOMAIN sessions /\ sessions'[u] = sessions[u]
      BY <2>2
    <2>4. CASE u = s
      <3>1. sessions'[u].status = Tail(queue) /\ sessions'[u].listApps = call
        BY <2>2, <2>4
      <3>2. queue \in Seq(BOOLEAN) /\ queue[Len(queue)] = (s \in samUp)
        BY <1>0, <2>2 DEF ManagerKnown
      <3> HIDE DEF queue
      <3>3. /\ Tail(queue) # <<>> => Tail(queue)[Len(Tail(queue))] = queue[Len(queue)]
            /\ Tail(queue) = <<>> => Head(queue) = queue[Len(queue)]
        BY <2>2, <3>2, TailOfQueue
      <3>4. Tail(queue) = <<>> /\ s \notin samUp => ~call.live
        <4>1. NoCall.live = FALSE
          BY DEF NoCall
        <4>2. Tail(queue) = <<>> => Head(queue) = (s \in samUp)
          BY <3>2, <3>3
        <4> QED
          BY <2>2, <4>1, <4>2
      <3> QED
        BY <2>1, <2>4, <3>1, <3>2, <3>3, <3>4 DEF ManagerKnown
    <2> QED
      BY <1>1, <2>1, <2>3, <2>4
  <1>5. ASSUME NEW s \in SessionIds, OnListApps(s)
        PROVE  ManagerKnown(u)'
    <2> DEFINE old  == sessions[s]
               rest == [old.listApps EXCEPT !.replies = Tail(@)]
               x    == [old EXCEPT !.listApps = rest]
    <2>1. UNCHANGED samUp
      BY <1>5 DEF OnListApps, external, services
    <2>2. s \in DOMAIN sessions /\ sessions' = [sessions EXCEPT ![s] = x] /\ old.listApps.live
      BY <1>5, AppsListed
    <2>3. x.status = old.status /\ x.listApps.live = old.listApps.live
      BY <1>0, <2>2 DEF SessionRec, CallRec
    <2> HIDE DEF x
    <2>4. CASE u = s
      BY <2>1, <2>2, <2>3, <2>4 DEF ManagerKnown
    <2>5. CASE u # s
      BY <1>1, <2>1, <2>2, <2>5
    <2> QED
      BY <2>4, <2>5
  <1>6. ASSUME NEW s \in SessionIds,
               \/ SamGoes(s) \/ SamComes(s)
               \/ \E app \in AppIds, kind \in {"added", "removed", "updated"} :
                     Tell(s, kind, app)
        PROVE  ManagerKnown(u)'
    <2>1. /\ DOMAIN sessions' = DOMAIN sessions
          /\ sessions'[u].listApps.live = sessions[u].listApps.live
          /\ u # s => sessions'[u] = sessions[u]
      BY <1>6, ManagerSays
    <2>2. CASE u # s
      <3>1. u \in samUp' <=> u \in samUp
        BY <1>6, <2>2 DEF SamGoes, SamComes, Tell
      <3> QED
        BY <1>1, <2>1, <2>2, <3>1
    <2>3. CASE u = s /\ UNCHANGED samUp
      <3>1. sessions'[u].status = sessions[u].status
        BY <1>6, <2>1, <2>3, ManagerSays
      <3> QED
        BY <2>1, <2>3, <3>1 DEF ManagerKnown
    <2>4. CASE u = s /\ samUp' # samUp
      <3>1. sessions'[u].status = Told(sessions[u].watched, sessions[u].status, u \in samUp')
        BY <1>6, <2>1, <2>4, ManagerSays
      <3> DEFINE news == (u \in samUp')
                 longer == Append(sessions[u].status, news)
      <3>2. news \in BOOLEAN
        OBVIOUS
      <3>3. longer # <<>> /\ longer[Len(longer)] = news
        <4> HIDE DEF news
        <4> QED
          BY <1>0, <2>1, <3>2, AppendToQueue
      <3>4. CASE sessions[u].watched
        BY <3>1, <3>3, <3>4 DEF ManagerKnown, Told
      <3>5. CASE ~sessions[u].watched
        <4>1. sessions'[u].status = <<>> /\ ~sessions'[u].listApps.live
          BY <1>0, <2>1, <3>1, <3>5 DEF Told
        <4> QED
          BY <4>1 DEF ManagerKnown
      <3> QED
        BY <1>0, <2>1, <3>4, <3>5
    <2> QED
      BY <2>2, <2>3, <2>4
  <1>7. CASE AccountGoes \/ AccountComes \/ UsersChange \/ UNCHANGED vars
    <2>1. UNCHANGED <<sessions, samUp>>
      BY <1>7 DEF AccountGoes, AccountComes, UsersChange, vars, external, services
    <2> QED
      BY <1>1, <2>1
  <1> QED
    BY <1>2, <1>3, <1>4, <1>5, <1>6, <1>7
       DEF Next, Service, Install, Uninstall, Upgrade

\* The process starts with the news of the services under way.
LEMMA FreshKnown == Fresh => StatusKnown
  <1> SUFFICES ASSUME Fresh PROVE StatusKnown
    OBVIOUS
  <1>0. PICK watched \in BOOLEAN :
           /\ accountWatched = (EnableSession /\ watched)
           /\ accountStatus = FirstNews(accountWatched, accountUp) /\ getSessions = NoCall
           /\ sessions = FirstSessions(watched)
    BY DEF Fresh
  <1>1. CASE EnableSession
    <2>1. DOMAIN sessions = {}
      BY <1>0, <1>1 DEF FirstSessions
    <2>2. accountStatus = IF accountWatched THEN <<accountUp>> ELSE <<>>
      BY <1>0 DEF FirstNews
    <2>3. <<accountUp>> # <<>> /\ <<accountUp>>[Len(<<accountUp>>)] = accountUp
      OBVIOUS
    <2> QED
      BY <1>0, <2>1, <2>2, <2>3 DEF StatusKnown, AccountKnown
  <1>2. CASE ~EnableSession
    <2>1. accountStatus = <<>>
      BY <1>0, <1>2 DEF FirstNews
    <2>2. DOMAIN sessions = {""} /\ sessions[""] \in NewSessions("")
      BY <1>0, <1>2 DEF FirstSessions, NewSessions
    <2>3. ManagerKnown("")
      BY <2>2, NewSessionType DEF ManagerKnown
    <2> QED
      BY <1>0, <1>2, <2>1, <2>2, <2>3 DEF StatusKnown, AccountKnown
  <1> QED
    BY <1>1, <1>2

\* In every reachable state, once the news of a service that is down is delivered,
\* what depended on it is gone.
THEOREM NothingOutlives == Spec => []NothingOutlivesItsService
  <1>2. TypeOK /\ StatusKnown /\ [Next]_vars => StatusKnown'
    <2>1. TypeOK /\ StatusKnown /\ [Next]_vars /\ ~Restart => StatusKnown'
      BY AccountKnownNext, ManagerKnownNext DEF StatusKnown
    <2>2. Restart => StatusKnown'
      BY RestartFresh, FreshKnown, PTL
    <2> QED
      BY <2>1, <2>2
  <1>3. StatusKnown => NothingOutlivesItsService
    BY DEF StatusKnown, AccountKnown, ManagerKnown, NothingOutlivesItsService, Live
  <1> QED
    BY <1>2, <1>3, InitFresh, FreshKnown, DirectoryTypeCorrect, PTL DEF Spec

-----------------------------------------------------------------------------
\* The key of an application in a session names both.
Key(s, app) == ConvertKey(GetSessionId(s), app)

LEMMA KeysApart ==
    ASSUME NEW s \in SessionIds, NEW u \in SessionIds, NEW a \in AppIds, NEW b \in AppIds,
           Key(s, a) = Key(u, b)
    PROVE  GetSessionId(s) = GetSessionId(u) /\ a = b
  <1> DEFINE id == GetSessionId(s)  other == GetSessionId(u)
  <1>1. \A x \in SessionIds : LET i == GetSessionId(x) IN
           /\ i # "host" /\ (i # "" => i \in DOMAIN Split)
           /\ \E y \in SessionIds \cup {"host"} : SessionPart(i) = SessionPart(y)
    BY BuildAssumption, NamesAssumption DEF GetSessionId, SessionPart
  <1>2. /\ id # "host" /\ other # "host"
        /\ id # "" => id \in DOMAIN Split
        /\ other # "" => other \in DOMAIN Split
    BY <1>1
  <1>3. "host" \in DOMAIN Split /\ a \in DOMAIN Split /\ b \in DOMAIN Split
    BY NamesAssumption
  <1>4. ~Continues(id, other) /\ ~Continues(other, id)
    <2>1. PICK x, y \in SessionIds \cup {"host"} :
             SessionPart(id) = SessionPart(x) /\ SessionPart(other) = SessionPart(y)
      BY <1>1
    <2> HIDE DEF id, other
    <2> QED
      BY <2>1, SessionIdsApart DEF Continues
  <1>5. ConvertKey(id, a) = ConvertKey(other, b)
    BY DEF Key
  <1> HIDE DEF id, other
  <1>6. id = other /\ a = b
    BY <1>2, <1>3, <1>4, <1>5, KeyParts
  <1> QED
    BY <1>6 DEF id, other

\* A reply takes away the handler of the application it names, and of no other.
LEMMA RemovedHandler ==
    ASSUME TypeOK, NEW s \in SessionIds, NEW app \in AppIds, NEW k \in DOMAIN handlers,
           k = ConvertKey(GetSessionId(s), app)
    PROVE  handlers[k].sessionId = GetSessionId(s) /\ handlers[k].name = app
  <1>1. handlers[k] \in HandlerRec /\ k = GetKey(handlers[k])
    BY DEF TypeOK
  <1>2. PICK u \in SessionIds : handlers[k].sessionId = GetSessionId(u)
    BY <1>1 DEF HandlerRec
  <1>3. handlers[k].name \in AppIds /\ Key(s, app) = Key(u, handlers[k].name)
    BY <1>1, <1>2 DEF HandlerRec, GetKey, Key
  <1> QED
    BY <1>2, <1>3, KeysApart

\* The body of SurvivorsKeepHandlers.
KeptOrRemoved(k, s) ==
    LET queue == sessions[s].listApps.replies IN
    \/ sessions[s].status # sessions'[s].status
    \/ /\ queue # <<>> /\ sessions'[s].listApps.replies = Tail(queue)
       /\ Head(queue) = [kind |-> "removed", items |-> <<handlers[k].name>>]

\* A handler that goes while its session stays is uninstalled, or the session's
\* application manager has news.
LEMMA SurvivorsNext ==
    ASSUME TypeOK, [Next]_vars, ~Restart, NEW k \in DOMAIN handlers, k \notin DOMAIN handlers',
           NEW s, s = handlers[k].sessionId, s \in DOMAIN sessions, s \in DOMAIN sessions'
    PROVE  KeptOrRemoved(k, s)
  <1>1. CASE AccountStatusChanged
    BY <1>1, TypeAccountStatus
  <1>2. CASE OnGetSessions
    <2> DEFINE reply == Head(getSessions.replies)
    <2>1. reply.kind # "error"
      BY <1>2, SessionsListed
    <2>2. /\ DOMAIN sessions' = reply.items
          /\ handlers' = WithoutHandlersOf(DOMAIN sessions \ reply.items)
      BY <1>2, <2>1, SessionsListed
    <2> HIDE DEF reply
    <2>3. s \in DOMAIN sessions \ reply.items
      BY <2>2, SessionsErased
    <2> QED
      BY <2>2, <2>3
  <1>3. ASSUME NEW u \in SessionIds, SamStatusChanged(u)
        PROVE  KeptOrRemoved(k, s)
    <2> DEFINE queue == sessions[u].status
    <2>1. PICK call \in CallRec(AppReplies) :
              LET x == [watched |-> sessions[u].watched, status |-> Tail(queue),
                        listApps |-> call] IN
              /\ u \in DOMAIN sessions /\ queue # <<>>
              /\ sessions' = [sessions EXCEPT ![u] = x]
              /\ handlers' = handlers \/ handlers' = RemoveBySessionId(handlers, u)
      BY <1>3, SamTold
    <2>2. s = u
      BY <2>1, SessionErased
    <2>3. sessions'[s].status = Tail(queue)
      BY <2>1, <2>2
    <2>4. queue \in Seq(BOOLEAN)
      BY <2>1 DEF TypeOK, SessionRec
    <2>5. Tail(queue) # queue
      <3> HIDE DEF queue
      <3>1. Len(Tail(queue)) # Len(queue)
        BY <2>1, <2>4
      <3> QED
        BY <3>1
    <2> QED
      BY <2>2, <2>3, <2>5 DEF KeptOrRemoved
  <1>4. ASSUME NEW u \in SessionIds, OnListApps(u)
        PROVE  KeptOrRemoved(k, s)
    <2> DEFINE old   == sessions[u]
               rest  == [old.listApps EXCEPT !.replies = Tail(@)]
               x     == [old EXCEPT !.listApps = rest]
               reply == Head(old.listApps.replies)
    <2>1. /\ u \in DOMAIN sessions /\ old.listApps.replies # <<>>
          /\ sessions' = [sessions EXCEPT ![u] = x]
      BY <1>4, AppsListed
    <2>2. /\ reply.kind = "removed" /\ reply \in AppReplies
          /\ k = ConvertKey(GetSessionId(u), reply.items[1])
      BY <1>4, AppsListed
    <2>3. x.listApps.replies = Tail(old.listApps.replies)
      BY <2>1 DEF TypeOK, SessionRec, CallRec
    <2> HIDE DEF reply, x
    <2>4. PICK app \in AppIds : reply = [kind |-> "removed", items |-> <<app>>]
      BY <2>2 DEF AppReplies, Refused
    <2>5. reply.items[1] = app
      BY <2>4
    <2>6. s = GetSessionId(u) /\ handlers[k].name = app
      BY <2>2, <2>5, RemovedHandler
    <2>7. s = u
      BY <2>6, WhoseId, BuildAssumption DEF TypeOK
    <2> QED
      BY <2>1, <2>3, <2>4, <2>6, <2>7 DEF KeptOrRemoved, reply
  <1>5. ASSUME NEW u \in SessionIds,
               \/ SamGoes(u) \/ SamComes(u)
               \/ \E app \in AppIds, kind \in {"added", "removed", "updated"} :
                     Tell(u, kind, app)
        PROVE  KeptOrRemoved(k, s)
    BY <1>5, ManagerSays
  <1>6. CASE AccountGoes \/ AccountComes \/ UsersChange \/ UNCHANGED vars
    BY <1>6 DEF AccountGoes, AccountComes, UsersChange, vars
  <1> QED
    BY <1>1, <1>2, <1>3, <1>4, <1>5, <1>6
       DEF Next, Service, Install, Uninstall, Upgrade

\* No step takes a handler from a session that stays and whose application manager
\* has no news, but the delivery of its application's removal.
THEOREM SurvivorsAreKept == Spec => SurvivorsKeepHandlers
  <1>1. TypeOK /\ [Next]_vars =>
            [Restart \/ \A k \in DOMAIN handlers \ DOMAIN handlers' :
                LET s == handlers[k].sessionId IN
                s \in DOMAIN sessions /\ s \in DOMAIN sessions' =>
                    LET queue == sessions[s].listApps.replies IN
                    \/ sessions[s].status # sessions'[s].status
                    \/ /\ queue # <<>> /\ sessions'[s].listApps.replies = Tail(queue)
                       /\ Head(queue) = [kind  |-> "removed",
                                         items |-> <<handlers[k].name>>]]_vars
    BY SurvivorsNext DEF KeptOrRemoved
  <1> QED
    BY <1>1, DirectoryTypeCorrect, PTL DEF Spec, SurvivorsKeepHandlers


-----------------------------------------------------------------------------
\* Whether a reply mentions it, and what it then says.
Names(r, app) == r.kind = "list" \/ (r.kind \in {"added", "removed"} /\ r.items[1] = app)

Says(r, app) == r.kind # "removed" /\ app \in Range(r.items)

LEMMA WillBeEnds ==
    ASSUME NEW s, NEW app
    PROVE  /\ WillBeFiled(s, app) <=> Ends(sessions[s].listApps.replies, Filed(s), app)
           /\ (WillBeFiled(s, app) <=> Ends(sessions[s].listApps.replies, Filed(s), app))'
  BY DEF WillBeFiled

LEMMA MentionsAre ==
    ASSUME NEW R, NEW q \in Seq(R), NEW app
    PROVE  /\ Mentions(q, app) \subseteq 1..Len(q)
           /\ \A i : i \in Mentions(q, app) <=> i \in 1..Len(q) /\ Names(q[i], app)
  <1>1. DOMAIN q = 1..Len(q)
    OBVIOUS
  <1> QED
    BY <1>1 DEF Mentions, Names

\* The last mention is the one that counts.
LEMMA EndsByLast ==
    ASSUME NEW R, NEW q \in Seq(R), NEW filed, NEW app, NEW i \in 1..Len(q),
           Names(q[i], app), \A j \in 1..Len(q) : Names(q[j], app) => j <= i
    PROVE  Ends(q, filed, app) <=> Says(q[i], app)
  <1> DEFINE said == Mentions(q, app)
             last == CHOOSE j \in said : \A m \in said : m <= j
  <1>1. said \subseteq 1..Len(q) /\ i \in said /\ \A j \in said : j <= i
    BY MentionsAre
  <1>2. last = i
    <2>1. \E j \in said : \A m \in said : m <= j
      BY <1>1
    <2> HIDE DEF said
    <2>2. last \in said /\ \A m \in said : m <= last
      BY <2>1
    <2> HIDE DEF last
    <2>3. last \in Int /\ i \in Int /\ last <= i /\ i <= last
      BY <1>1, <2>2
    <2> QED
      BY <2>3
  <1>3. Ends(q, filed, app) <=> q[last].kind # "removed" /\ app \in Range(q[last].items)
    BY <1>1 DEF Ends
  <1> HIDE DEF last, said
  <1> QED
    BY <1>2, <1>3 DEF Says

LEMMA EndsUnnamed ==
    ASSUME NEW R, NEW q \in Seq(R), NEW filed, NEW app,
           \A j \in 1..Len(q) : ~Names(q[j], app)
    PROVE  Ends(q, filed, app) <=> app \in filed
  <1>1. Mentions(q, app) = {}
    BY MentionsAre
  <1> QED
    BY <1>1 DEF Ends

\* Either nothing in a queue names the application or something names it last.
LEMMA LastNamed ==
    ASSUME NEW R, NEW q \in Seq(R), NEW app
    PROVE  \/ \A j \in 1..Len(q) : ~Names(q[j], app)
           \/ \E i \in 1..Len(q) : /\ Names(q[i], app)
                                   /\ \A j \in 1..Len(q) : Names(q[j], app) => j <= i
  <1> DEFINE T == {j \in 1..Len(q) : Names(q[j], app)}
  <1>1. CASE T # {}
    <2>1. Len(q) \in Nat /\ T \subseteq 1..Len(q)
      OBVIOUS
    <2>2. PICK i \in T : \A m \in T : m <= i
      <3> HIDE DEF T
      <3> QED
        BY <1>1, <2>1, LastOfPositions
    <2> QED
      BY <2>2
  <1>2. CASE T = {}
    BY <1>2
  <1> QED
    BY <1>1, <1>2

\* A reply added to a queue decides when it names the application.
LEMMA EndsOfAppend ==
    ASSUME NEW R, NEW q \in Seq(R), NEW r \in R, NEW filed, NEW app
    PROVE  Ends(Append(q, r), filed, app) <=>
               IF Names(r, app) THEN Says(r, app) ELSE Ends(q, filed, app)
  <1> DEFINE a == Append(q, r)
  <1>1. /\ a \in Seq(R) /\ Len(q) \in Nat /\ Len(a) = Len(q) + 1 /\ a[Len(q) + 1] = r
        /\ \A i \in 1..Len(q) : a[i] = q[i]
    OBVIOUS
  <1> HIDE DEF a
  <1>2. \A i \in 1..Len(a) : i = Len(q) + 1 \/ i \in 1..Len(q)
    BY <1>1
  <1>3. CASE Names(r, app)
    <2>1. Len(q) + 1 \in 1..Len(a) /\ \A j \in 1..Len(a) : j <= Len(q) + 1
      BY <1>1
    <2>2. Ends(a, filed, app) <=> Says(a[Len(q) + 1], app)
      BY <1>1, <1>3, <2>1, EndsByLast
    <2> QED
      BY <1>1, <1>3, <2>2 DEF a
  <1>4. CASE ~Names(r, app)
    <2>1. CASE \A j \in 1..Len(q) : ~Names(q[j], app)
      <3>1. \A j \in 1..Len(a) : ~Names(a[j], app)
        BY <1>1, <1>2, <1>4, <2>1
      <3> QED
        BY <1>1, <1>4, <2>1, <3>1, EndsUnnamed DEF a
    <2>2. ASSUME NEW i \in 1..Len(q), Names(q[i], app),
                 \A j \in 1..Len(q) : Names(q[j], app) => j <= i
          PROVE  Ends(a, filed, app) <=> Ends(q, filed, app)
      <3>1. i \in 1..Len(a) /\ a[i] = q[i]
        BY <1>1
      <3>2. \A j \in 1..Len(a) : Names(a[j], app) => j <= i
        BY <1>1, <1>2, <1>4, <2>2
      <3>3. Ends(a, filed, app) <=> Says(a[i], app)
        BY <1>1, <2>2, <3>1, <3>2, EndsByLast
      <3>4. Ends(q, filed, app) <=> Says(q[i], app)
        BY <2>2, EndsByLast
      <3> QED
        BY <3>1, <3>3, <3>4
    <2> QED
      BY <1>4, <2>1, <2>2, LastNamed DEF a
  <1> QED
    BY <1>3, <1>4

\* A reply that is delivered and filed as it says changes nothing of what will be.
LEMMA EndsOfTail ==
    ASSUME NEW R, NEW q \in Seq(R), q # <<>>, NEW filed, NEW rest, NEW app,
           app \in rest <=> IF Names(Head(q), app) THEN Says(Head(q), app) ELSE app \in filed
    PROVE  Ends(Tail(q), rest, app) <=> Ends(q, filed, app)
  <1> DEFINE t == Tail(q)
  <1>1. /\ t \in Seq(R) /\ Len(q) \in Nat \ {0} /\ Len(t) = Len(q) - 1 /\ Head(q) = q[1]
        /\ \A i \in 1..Len(t) : t[i] = q[i + 1]
    BY TailOfQueue
  <1> HIDE DEF t
  <1>2. \A j \in 1..Len(q) : j # 1 => j - 1 \in 1..Len(t) /\ t[j - 1] = q[j]
    <2> SUFFICES ASSUME NEW j \in 1..Len(q), j # 1
                 PROVE  j - 1 \in 1..Len(t) /\ t[j - 1] = q[j]
      OBVIOUS
    <2>1. j - 1 \in 1..Len(t) /\ (j - 1) + 1 = j
      BY <1>1
    <2> QED
      BY <1>1, <2>1
  <1>3. CASE \A j \in 1..Len(t) : ~Names(t[j], app)
    <2>1. \A j \in 1..Len(q) : j # 1 => ~Names(q[j], app)
      BY <1>2, <1>3
    <2>2. Ends(t, rest, app) <=> app \in rest
      BY <1>1, <1>3, EndsUnnamed
    <2>3. CASE Names(q[1], app)
      <3>1. 1 \in 1..Len(q) /\ \A j \in 1..Len(q) : Names(q[j], app) => j <= 1
        BY <1>1, <2>1
      <3>2. Ends(q, filed, app) <=> Says(q[1], app)
        BY <2>3, <3>1, EndsByLast
      <3> QED
        BY <1>1, <2>2, <2>3, <3>2 DEF t
    <2>4. CASE ~Names(q[1], app)
      <3>1. \A j \in 1..Len(q) : ~Names(q[j], app)
        BY <2>1, <2>4
      <3>2. Ends(q, filed, app) <=> app \in filed
        BY <3>1, EndsUnnamed
      <3> QED
        BY <1>1, <2>2, <2>4, <3>2 DEF t
    <2> QED
      BY <2>3, <2>4
  <1>4. ASSUME NEW i \in 1..Len(t), Names(t[i], app),
               \A j \in 1..Len(t) : Names(t[j], app) => j <= i
        PROVE  Ends(t, rest, app) <=> Ends(q, filed, app)
    <2>1. i + 1 \in 1..Len(q) /\ t[i] = q[i + 1]
      BY <1>1
    <2>2. \A j \in 1..Len(q) : Names(q[j], app) => j <= i + 1
      <3> SUFFICES ASSUME NEW j \in 1..Len(q), Names(q[j], app), j # 1 PROVE j <= i + 1
        OBVIOUS
      <3>1. j - 1 <= i
        BY <1>2, <1>4
      <3> QED
        BY <3>1
    <2>3. Ends(q, filed, app) <=> Says(q[i + 1], app)
      BY <1>4, <2>1, <2>2, EndsByLast
    <2>4. Ends(t, rest, app) <=> Says(t[i], app)
      BY <1>1, <1>4, EndsByLast
    <2> QED
      BY <2>1, <2>3, <2>4
  <1>5. \/ \A j \in 1..Len(t) : ~Names(t[j], app)
        \/ \E i \in 1..Len(t) : /\ Names(t[i], app)
                                /\ \A j \in 1..Len(t) : Names(t[j], app) => j <= i
    BY <1>1, LastNamed
  <1>6. Ends(t, rest, app) <=> Ends(q, filed, app)
    <2>1. CASE \A j \in 1..Len(t) : ~Names(t[j], app)
      BY <1>3, <2>1 DEF t
    <2>2. CASE \E i \in 1..Len(t) : /\ Names(t[i], app)
                                   /\ \A j \in 1..Len(t) : Names(t[j], app) => j <= i
      BY <1>4, <2>2 DEF t
    <2> QED
      BY <1>5, <2>1, <2>2
  <1> QED
    BY <1>6 DEF t

-----------------------------------------------------------------------------
\* What is filed for a session in a table.
FiledIn(hs, s) == {hs[k].name : k \in {m \in DOMAIN hs : hs[m].sessionId = GetSessionId(s)}}

\* In a table whose handlers are filed under their own keys an application is filed
\* for a session when its key is there.
LEMMA FiledByKey ==
    ASSUME NEW hs, WellFiled(hs), NEW s \in SessionIds, NEW app \in AppIds
    PROVE  app \in FiledIn(hs, s) <=> Key(s, app) \in DOMAIN hs
  <1>1. ASSUME app \in FiledIn(hs, s) PROVE Key(s, app) \in DOMAIN hs
    <2>1. PICK k \in DOMAIN hs : hs[k].sessionId = GetSessionId(s) /\ hs[k].name = app
      BY <1>1 DEF FiledIn
    <2> QED
      BY <2>1 DEF WellFiled, GetKey, Key
  <1>2. ASSUME Key(s, app) \in DOMAIN hs PROVE app \in FiledIn(hs, s)
    <2> DEFINE h == hs[Key(s, app)]
    <2>1. h \in HandlerRec /\ Key(s, app) = GetKey(h)
      BY <1>2 DEF WellFiled
    <2>2. PICK u \in SessionIds : h.sessionId = GetSessionId(u)
      BY <2>1 DEF HandlerRec
    <2>3. h.name \in AppIds /\ Key(s, app) = Key(u, h.name)
      BY <2>1, <2>2 DEF HandlerRec, GetKey, Key
    <2>4. h.sessionId = GetSessionId(s) /\ h.name = app
      BY <2>2, <2>3, KeysApart
    <2> QED
      BY <1>2, <2>4 DEF FiledIn
  <1> QED
    BY <1>1, <1>2

\* The same for the table of the process, before and after a step.
LEMMA FiledKeys ==
    ASSUME NEW s \in SessionIds, NEW app \in AppIds
    PROVE  /\ TypeOK => (app \in Filed(s) <=> Key(s, app) \in DOMAIN handlers)
           /\ TypeOK' => (app \in Filed(s)' <=> Key(s, app) \in DOMAIN handlers')
  <1>1. Filed(s) = FiledIn(handlers, s) /\ Filed(s)' = FiledIn(handlers', s)
    BY DEF Filed, FiledIn
  <1>2. TypeOK => WellFiled(handlers)
    BY TypeParts
  <1>3. TypeOK' => WellFiled(handlers')
    BY DEF TypeOK, WellFiled
  <1> QED
    BY <1>1, <1>2, <1>3, FiledByKey

\* Two sessions file their handlers under the same id only when they are the same,
\* or one of them is "host".
LEMMA OwnIds ==
    ASSUME NEW s \in SessionIds, Own(s), NEW u \in SessionIds, GetSessionId(u) = GetSessionId(s)
    PROVE  u = s
  BY WhoseId, BuildAssumption DEF Own

\* A list makes the keys of the applications it names, and no other.
LEMMA AddAllKeys ==
    ASSUME NEW s \in SessionIds, NEW apps \in Seq(AppIds), NEW u \in SessionIds,
           NEW app \in AppIds
    PROVE  /\ Key(u, app) \in DOMAIN AddAll(s, apps) =>
                 \/ Key(u, app) \in DOMAIN handlers
                 \/ GetSessionId(u) = GetSessionId(s) /\ app \in Range(apps)
           /\ Key(u, app) \in DOMAIN handlers => Key(u, app) \in DOMAIN AddAll(s, apps)
           /\ GetSessionId(u) = GetSessionId(s) /\ app \in Range(apps) /\ app # "" =>
                 Key(u, app) \in DOMAIN AddAll(s, apps)
  <1> DEFINE Made(i) == MakeHandler(s, apps[i], FiltersInList(apps, i))
             new     == {i \in DOMAIN apps : Accepts(handlers, Made(i))}
             keys    == {GetKey(Made(i)) : i \in new}
  <1>1. DOMAIN AddAll(s, apps) = DOMAIN handlers \cup keys
    BY DEF AddAll
  <1>2. ASSUME NEW i \in DOMAIN apps
        PROVE  GetKey(Made(i)) = Key(s, apps[i]) /\ Made(i).name = apps[i]
    <2>1. /\ Made(i).sessionId = GetSessionId(s)
          /\ Made(i).name = apps[i]
      BY DEF MakeHandler
    <2> HIDE DEF Made
    <2> QED
      BY <2>1 DEF GetKey, Key
  <1>3. ASSUME Key(u, app) \in keys
        PROVE  GetSessionId(u) = GetSessionId(s) /\ app \in Range(apps)
    <2>1. PICK i \in new : Key(u, app) = GetKey(Made(i))
      BY <1>3
    <2>2. i \in DOMAIN apps /\ apps[i] \in AppIds
      OBVIOUS
    <2> HIDE DEF Made, new, keys
    <2>3. Key(u, app) = Key(s, apps[i])
      BY <1>2, <2>1, <2>2
    <2>4. GetSessionId(u) = GetSessionId(s) /\ app = apps[i]
      BY <2>2, <2>3, KeysApart
    <2> QED
      BY <2>2, <2>4 DEF Range
  <1>4. ASSUME GetSessionId(u) = GetSessionId(s), app \in Range(apps), app # "",
               Key(u, app) \notin DOMAIN handlers
        PROVE  Key(u, app) \in keys
    <2>1. PICK i \in DOMAIN apps : apps[i] = app
      BY <1>4 DEF Range
    <2> HIDE DEF Made
    <2>2. GetKey(Made(i)) = Key(u, app) /\ Made(i).name = app
      BY <1>2, <1>4, <2>1 DEF Key
    <2>3. i \in new
      BY <1>4, <2>2 DEF Accepts
    <2> HIDE DEF new
    <2> QED
      BY <2>2, <2>3
  <1> HIDE DEF keys
  <1> QED
    BY <1>1, <1>3, <1>4

\* A listing names each application once and all of them.
LEMMA ListingsName ==
    ASSUME NEW S \in SUBSET AppIds, NEW q \in Listings(S)
    PROVE  \A app : app \in Range(q) <=> app \in S
  <1> DEFINE n == Cardinality(S)
  <1>1. IsFiniteSet(S) /\ n \in Nat
    BY NamesAssumption, FS_Subset, FS_CardinalityType
  <1>2. q \in Injection(1..n, S) /\ DOMAIN q = 1..n
    BY DEF Listings, Injection
  <1> HIDE DEF n
  <1>3. Cardinality(1..n) = n
    BY <1>1, FS_Interval
  <1>4. Cardinality(1..n) = Cardinality(S) <=> q \in Surjection(1..n, S)
    BY <1>1, <1>2, FS_Injection
  <1>5. q \in Surjection(1..n, S)
    BY <1>3, <1>4 DEF n
  <1> QED
    BY <1>2, <1>5 DEF Surjection, Range

-----------------------------------------------------------------------------
\* While a listing is served nothing under way is an error, a list is under way
\* only as the first reply, and then nothing of the session is filed yet.
ListsFirst(s) ==
    LET queue == sessions[s].listApps.replies IN
    \A i \in 1..Len(queue) :
        /\ queue[i].kind # "error"
        /\ queue[i].kind = "list" => i = 1 /\ \A app \in AppIds : app \notin Filed(s)

\* What the replies under way make of the handlers is what is installed.
Mirrors(s) ==
    \A app \in AppIds : app # "" =>
        (Ends(sessions[s].listApps.replies, Filed(s), app) <=> app \in installed[s])

Follows(s) == sessions[s].listApps.served => ListsFirst(s) /\ Mirrors(s)

DirectoryFollows == \A s \in DOMAIN sessions : Own(s) => Follows(s)

\* Steps that leave a session's listing and handlers alone.
LEMMA FollowsKept ==
    ASSUME NEW s \in SessionIds, TypeOK, s \in DOMAIN sessions, Follows(s),
           sessions'[s].listApps = sessions[s].listApps, installed'[s] = installed[s],
           \A app \in AppIds : app \in Filed(s)' <=> app \in Filed(s)
    PROVE  Follows(s)'
  <1> DEFINE q == sessions[s].listApps.replies
  <1>1. sessions'[s].listApps.replies = q /\ sessions'[s].listApps.served = sessions[s].listApps.served
    OBVIOUS
  <1>2. SUFFICES ASSUME sessions[s].listApps.served PROVE ListsFirst(s)' /\ Mirrors(s)'
    BY <1>1 DEF Follows
  <1>3. ListsFirst(s) /\ Mirrors(s)
    BY <1>2 DEF Follows
  <1>4. ListsFirst(s)'
    BY <1>1, <1>3 DEF ListsFirst
  <1>5. \A app \in AppIds : Ends(q, Filed(s)', app) <=> Ends(q, Filed(s), app)
    BY DEF Ends
  <1>6. Mirrors(s)'
    BY <1>1, <1>3, <1>5 DEF Mirrors
  <1> QED
    BY <1>4, <1>6

\* A listing nobody serves promises nothing.
LEMMA FollowsUnserved ==
    ASSUME NEW s, ~sessions'[s].listApps.served
    PROVE  Follows(s)'
  BY DEF Follows

\* A listing that has just been asked for.
LEMMA FollowsNew ==
    ASSUME NEW s \in SessionIds, TypeOK, NEW items \in Listings(installed[s]),
           sessions'[s].listApps.replies = <<[kind |-> "list", items |-> items]>>,
           installed'[s] = installed[s], \A app \in AppIds : app \notin Filed(s)'
    PROVE  Follows(s)'
  <1> DEFINE r == [kind |-> "list", items |-> items]
             q == <<r>>
  <1>1. installed[s] \in SUBSET AppIds
    BY DEF TypeOK
  <1>2. r \in AppReplies
    BY <1>1, ListingsType, AppReplyTypes
  <1>3. r.kind = "list" /\ r.items = items
    OBVIOUS
  <1> HIDE DEF r
  <1>4. q \in Seq(AppReplies) /\ Len(q) = 1 /\ q[1] = r
    BY <1>2
  <1>5. sessions'[s].listApps.replies = q
    BY DEF r
  <1> HIDE DEF q
  <1>6. ListsFirst(s)'
    BY <1>3, <1>4, <1>5 DEF ListsFirst
  <1>7. \A app : Ends(q, Filed(s)', app) <=> app \in installed[s]
    <2> SUFFICES ASSUME NEW app PROVE Ends(q, Filed(s)', app) <=> app \in installed[s]
      OBVIOUS
    <2>1. Names(q[1], app)
      BY <1>3, <1>4 DEF Names
    <2>2. Ends(q, Filed(s)', app) <=> Says(q[1], app)
      <3>1. 1 \in 1..Len(q) /\ \A j \in 1..Len(q) : Names(q[j], app) => j <= 1
        BY <1>4
      <3> QED
        BY <1>4, <2>1, <3>1, EndsByLast
    <2>3. app \in Range(items) <=> app \in installed[s]
      BY <1>1, ListingsName
    <2> QED
      BY <1>3, <1>4, <2>2, <2>3 DEF Says
  <1>8. Mirrors(s)'
    BY <1>5, <1>7 DEF Mirrors
  <1> QED
    BY <1>6, <1>8 DEF Follows

\* A change the application manager reports.
LEMMA FollowsTold ==
    ASSUME NEW s \in SessionIds, TypeOK, s \in DOMAIN sessions, Follows(s),
           NEW app \in AppIds, NEW kind \in {"added", "removed", "updated"},
           sessions'[s].listApps = Push(sessions[s].listApps, [kind |-> kind, items |-> <<app>>]),
           UNCHANGED handlers,
           \A b \in AppIds : b # app => (b \in installed'[s] <=> b \in installed[s]),
           app \in installed'[s] <=> IF kind = "updated" THEN app \in installed[s]
                                     ELSE kind = "added"
    PROVE  Follows(s)'
  <1> DEFINE call == sessions[s].listApps
             q    == call.replies
             r    == [kind |-> kind, items |-> <<app>>]
  <1>1. call \in CallRec(AppReplies) /\ q \in Seq(AppReplies)
    BY DEF TypeOK, SessionRec, CallRec
  <1>2. r \in AppReplies
    BY AppReplyTypes
  <1>3. r.kind = kind /\ r.items[1] = app /\ \A b : b \in Range(r.items) <=> b = app
    BY DEF Range
  <1>4. Filed(s)' = Filed(s)
    BY DEF Filed
  <1> HIDE DEF r
  <1>5. sessions'[s].listApps = Push(call, r)
    BY DEF r
  <1>6. CASE ~call.served
    BY <1>1, <1>2, <1>5, <1>6, PushType, FollowsUnserved
  <1>7. CASE call.served
    <2>1. sessions'[s].listApps.replies = Append(q, r)
      <3> HIDE DEF call
      <3>1. Push(call, r).replies = Append(call.replies, r)
        BY <1>1, <1>2, <1>7, PushType
      <3> QED
        BY <1>5, <3>1
    <2>2. ListsFirst(s) /\ Mirrors(s)
      BY <1>7 DEF Follows
    <2>3. \A i \in 1..Len(q) :
             /\ q[i].kind # "error"
             /\ q[i].kind = "list" => i = 1 /\ \A b \in AppIds : b \notin Filed(s)
      BY <2>2 DEF ListsFirst
    <2>4. \A b \in AppIds : b # "" => (Ends(q, Filed(s), b) <=> b \in installed[s])
      BY <2>2 DEF Mirrors
    <2>5. \A b : Ends(Append(q, r), Filed(s), b) <=>
                     IF Names(r, b) THEN Says(r, b) ELSE Ends(q, Filed(s), b)
      BY <1>1, <1>2, EndsOfAppend
    <2> HIDE DEF q
    <2>6. ListsFirst(s)'
      <3> DEFINE a == Append(q, r)
      <3>1. /\ Len(q) \in Nat /\ Len(a) = Len(q) + 1 /\ a[Len(q) + 1] = r
            /\ \A i \in 1..Len(q) : a[i] = q[i]
        BY <1>1
      <3> HIDE DEF a
      <3>2. \A i \in 1..Len(a) : i = Len(q) + 1 \/ i \in 1..Len(q)
        BY <3>1
      <3>3. \A i \in 1..Len(a) :
               /\ a[i].kind # "error"
               /\ a[i].kind = "list" => i = 1 /\ \A b \in AppIds : b \notin Filed(s)
        BY <1>3, <2>3, <3>1, <3>2
      <3> QED
        BY <1>4, <2>1, <3>3 DEF ListsFirst, a
    <2>7. \A b \in AppIds : b # "" => (Ends(Append(q, r), Filed(s), b) <=> b \in installed'[s])
      <3> SUFFICES ASSUME NEW b \in AppIds, b # ""
                   PROVE  Ends(Append(q, r), Filed(s), b) <=> b \in installed'[s]
        OBVIOUS
      <3>1. Names(r, b) <=> kind \in {"added", "removed"} /\ b = app
        BY <1>3 DEF Names
      <3>2. Says(r, b) <=> kind # "removed" /\ b = app
        BY <1>3 DEF Says
      <3> QED
        BY <2>4, <2>5, <3>1, <3>2
    <2>8. Mirrors(s)'
      BY <1>4, <2>1, <2>7 DEF Mirrors
    <2> QED
      BY <2>6, <2>8 DEF Follows
  <1> QED
    BY <1>6, <1>7

\* What onListApps does to the table, key by key: what the reply says of the
\* application it names, nothing to any other.
LEMMA ListAppsKeys ==
    ASSUME TypeOK, NEW s \in SessionIds, OnListApps(s), NEW u \in SessionIds,
           NEW app \in AppIds
    PROVE  LET reply == Head(sessions[s].listApps.replies) IN
           /\ GetSessionId(u) # GetSessionId(s) =>
                 (Key(u, app) \in DOMAIN handlers' <=> Key(u, app) \in DOMAIN handlers)
           /\ u = s /\ app # "" /\ reply.kind # "error" =>
                 (Key(s, app) \in DOMAIN handlers' <=>
                     IF Names(reply, app)
                     THEN Says(reply, app) \/ (reply.kind = "list" /\ Key(s, app) \in DOMAIN handlers)
                     ELSE Key(s, app) \in DOMAIN handlers)
  <1> DEFINE reply == Head(sessions[s].listApps.replies)
             Made == MakeHandler(s, reply.items[1], TheFilters(Declared(reply.items[1])))
             Goal ==
                 /\ GetSessionId(u) # GetSessionId(s) =>
                       (Key(u, app) \in DOMAIN handlers' <=> Key(u, app) \in DOMAIN handlers)
                 /\ u = s /\ app # "" /\ reply.kind # "error" =>
                       (Key(s, app) \in DOMAIN handlers' <=>
                           IF Names(reply, app)
                           THEN \/ Says(reply, app)
                                \/ reply.kind = "list" /\ Key(s, app) \in DOMAIN handlers
                           ELSE Key(s, app) \in DOMAIN handlers)
  <1>1. reply \in AppReplies
    <2>1. s \in DOMAIN sessions /\ sessions[s].listApps.replies # <<>>
      BY DEF OnListApps
    <2>2. sessions[s].listApps \in CallRec(AppReplies)
      BY <2>1 DEF TypeOK, SessionRec
    <2> QED
      BY <2>1, <2>2, DeliverType
  <1>2. \/ reply.kind = "list" /\ handlers' = AddAll(s, reply.items)
        \/ reply.kind = "added" /\ handlers' = AddHandler(handlers, Made)
        \/ /\ reply.kind = "removed"
           /\ handlers' = RemoveHandler(handlers, ConvertKey(GetSessionId(s), reply.items[1]))
        \/ reply.kind \in {"updated", "error"} /\ handlers' = handlers
    BY DEF OnListApps
  <1>3. ASSUME reply.kind \in {"added", "removed"}
        PROVE  /\ reply.items[1] \in AppIds
               /\ \A b : b \in Range(reply.items) <=> b = reply.items[1]
    <2> HIDE DEF reply
    <2>1. PICK b \in AppIds : reply.items = <<b>>
      BY <1>1, <1>3 DEF AppReplies, Refused
    <2> QED
      BY <2>1 DEF Range
  <1>4. GetKey(Made) = Key(s, reply.items[1]) /\ Made.name = reply.items[1]
    BY DEF MakeHandler, GetKey, Key
  <1> HIDE DEF Made, reply
  <1>0. /\ Names(reply, app) \in BOOLEAN /\ Says(reply, app) \in BOOLEAN
        /\ reply.kind = "list" => Names(reply, app) /\ (Says(reply, app) <=> app \in Range(reply.items))
        /\ reply.kind = "added" =>
              /\ Names(reply, app) <=> reply.items[1] = app
              /\ Says(reply, app) <=> app \in Range(reply.items)
        /\ reply.kind = "removed" =>
              (Names(reply, app) <=> reply.items[1] = app) /\ ~Says(reply, app)
        /\ reply.kind \in {"updated", "error"} => ~Names(reply, app)
    BY DEF Names, Says
  <1>5. ASSUME reply.kind = "list", handlers' = AddAll(s, reply.items) PROVE Goal
    <2>1. reply.items \in Seq(AppIds)
      BY <1>1, <1>5, AppReplyTypes
    <2>2. Names(reply, app) /\ (Says(reply, app) <=> app \in Range(reply.items))
      BY <1>0, <1>5
    <2>3. /\ Key(u, app) \in DOMAIN handlers' =>
                \/ Key(u, app) \in DOMAIN handlers
                \/ GetSessionId(u) = GetSessionId(s) /\ app \in Range(reply.items)
          /\ Key(u, app) \in DOMAIN handlers => Key(u, app) \in DOMAIN handlers'
          /\ GetSessionId(u) = GetSessionId(s) /\ app \in Range(reply.items) /\ app # "" =>
                Key(u, app) \in DOMAIN handlers'
      BY <1>5, <2>1, AddAllKeys
    <2> QED
      BY <1>5, <2>2, <2>3
  <1>6. ASSUME reply.kind = "added", handlers' = AddHandler(handlers, Made) PROVE Goal
    <2>1. \A k : k \in DOMAIN handlers' <=>
              \/ k \in DOMAIN handlers
              \/ reply.items[1] # "" /\ k = Key(s, reply.items[1])
      <3>1. CASE Accepts(handlers, Made)
        <4>1. handlers' = Put(handlers, GetKey(Made), Made)
          BY <1>6, <3>1 DEF AddHandler
        <4>2. DOMAIN handlers' = DOMAIN handlers \cup {GetKey(Made)}
          BY <4>1, PutIsMap
        <4> QED
          BY <1>4, <3>1, <4>2 DEF Accepts
      <3>2. CASE ~Accepts(handlers, Made)
        BY <1>4, <1>6, <3>2 DEF AddHandler, Accepts
      <3> QED
        BY <3>1, <3>2
    <2>2. Key(u, app) = Key(s, reply.items[1]) =>
              GetSessionId(u) = GetSessionId(s) /\ app = reply.items[1]
      BY <1>3, <1>6, KeysApart
    <2>3. (Names(reply, app) <=> app = reply.items[1]) /\ (Says(reply, app) <=> app = reply.items[1])
      BY <1>0, <1>3, <1>6
    <2> QED
      BY <1>6, <2>1, <2>2, <2>3
  <1>7. ASSUME reply.kind = "removed",
               handlers' = RemoveHandler(handlers, ConvertKey(GetSessionId(s), reply.items[1]))
        PROVE  Goal
    <2>1. DOMAIN handlers' = DOMAIN handlers \ {Key(s, reply.items[1])}
      BY <1>7, EraseIsMap DEF RemoveHandler, Key
    <2>2. Key(u, app) = Key(s, reply.items[1]) =>
              GetSessionId(u) = GetSessionId(s) /\ app = reply.items[1]
      BY <1>3, <1>7, KeysApart
    <2>3. (Names(reply, app) <=> app = reply.items[1]) /\ ~Says(reply, app)
      BY <1>0, <1>7
    <2> QED
      BY <1>7, <2>1, <2>2, <2>3
  <1>8. ASSUME reply.kind \in {"updated", "error"}, handlers' = handlers
        PROVE  Goal
    BY <1>0, <1>8
  <1>9. Goal
    BY <1>2, <1>5, <1>6, <1>7, <1>8
  <1> QED
    BY <1>9 DEF reply

\* The delivery of the next reply.
LEMMA FollowsDelivered ==
    ASSUME TypeOK, TypeOK', NEW s \in SessionIds, OnListApps(s), Follows(s)
    PROVE  Follows(s)'
  <1> DEFINE call == sessions[s].listApps
             q    == call.replies
  <1>1. /\ s \in DOMAIN sessions /\ q # <<>> /\ q \in Seq(AppReplies)
        /\ sessions'[s].listApps.replies = Tail(q)
        /\ sessions'[s].listApps.served = call.served /\ installed' = installed
    <2>1. s \in DOMAIN sessions /\ q # <<>> /\ installed' = installed
      BY DEF OnListApps, external, services
    <2>2. call \in CallRec(AppReplies) /\ sessions[s] \in SessionRec
      BY <2>1 DEF TypeOK, SessionRec
    <2>3. sessions'[s].listApps = [call EXCEPT !.replies = Tail(@)]
      BY <2>1, <2>2 DEF OnListApps, SessionRec
    <2>4. q \in Seq(AppReplies)
      BY <2>2 DEF CallRec
    <2> HIDE DEF call
    <2>5. /\ [call EXCEPT !.replies = Tail(@)].replies = Tail(call.replies)
          /\ [call EXCEPT !.replies = Tail(@)].served = call.served
      BY <2>1, <2>2, DeliverType
    <2> QED
      BY <2>1, <2>3, <2>4, <2>5
  <1>2. SUFFICES ASSUME call.served PROVE ListsFirst(s)' /\ Mirrors(s)'
    BY <1>1 DEF Follows
  <1>3. /\ \A i \in 1..Len(q) :
              /\ q[i].kind # "error"
              /\ q[i].kind = "list" => i = 1 /\ \A app \in AppIds : app \notin Filed(s)
        /\ \A app \in AppIds : app # "" => (Ends(q, Filed(s), app) <=> app \in installed[s])
    BY <1>2 DEF Follows, ListsFirst, Mirrors
  <1>4. \A app \in AppIds : app # "" =>
            (app \in Filed(s)' <=>
                IF Names(Head(q), app) THEN Says(Head(q), app) ELSE app \in Filed(s))
    <2> SUFFICES ASSUME NEW app \in AppIds
                 PROVE  app # "" => (app \in Filed(s)' <=>
                            IF Names(Head(q), app) THEN Says(Head(q), app) ELSE app \in Filed(s))
      OBVIOUS
    <2>1. /\ app \in Filed(s) <=> Key(s, app) \in DOMAIN handlers
          /\ app \in Filed(s)' <=> Key(s, app) \in DOMAIN handlers'
      BY FiledKeys
    <2>2. Head(q).kind # "error" /\ (Head(q).kind = "list" => app \notin Filed(s))
      <3>1. Head(q) = q[1] /\ 1 \in 1..Len(q)
        BY <1>1
      <3> QED
        BY <1>3, <3>1
    <2>3. app # "" /\ Head(q).kind # "error" =>
             (Key(s, app) \in DOMAIN handlers' <=>
                 IF Names(Head(q), app)
                 THEN Says(Head(q), app) \/ (Head(q).kind = "list" /\ Key(s, app) \in DOMAIN handlers)
                 ELSE Key(s, app) \in DOMAIN handlers)
      BY ListAppsKeys
    <2> QED
      BY <2>1, <2>2, <2>3
  <1> HIDE DEF q, call
  <1>5. ListsFirst(s)'
    <2> DEFINE t == Tail(q)
    <2>1. /\ Len(t) \in Nat /\ \A i \in 1..Len(t) : t[i] = q[i + 1] /\ i + 1 \in 1..Len(q)
      BY <1>1, TailOfQueue
    <2> HIDE DEF t
    <2>2. \A i \in 1..Len(t) : t[i].kind # "error" /\ t[i].kind # "list"
      <3> SUFFICES ASSUME NEW i \in 1..Len(t)
                   PROVE  t[i].kind # "error" /\ t[i].kind # "list"
        OBVIOUS
      <3>1. i + 1 # 1
        BY <2>1
      <3> QED
        BY <1>3, <2>1, <3>1
    <2>3. sessions'[s].listApps.replies = t
      BY <1>1 DEF t
    <2> QED
      BY <2>2, <2>3 DEF ListsFirst
  <1>6. Mirrors(s)'
    <2>1. \A app \in AppIds : app # "" => (Ends(Tail(q), Filed(s)', app) <=> Ends(q, Filed(s), app))
      BY <1>1, <1>4, EndsOfTail
    <2> QED
      BY <1>1, <1>3, <2>1 DEF Mirrors
  <1> QED
    BY <1>5, <1>6

\* A session whose application manager nobody listens to has no handler.
LEMMA DeadFiled ==
    ASSUME TypeOK, NoOrphanHandlers, NEW s \in SessionIds, Own(s), ~Live(s)
    PROVE  \A app \in AppIds : app \notin Filed(s)
  <1> SUFFICES ASSUME NEW k \in DOMAIN handlers, handlers[k].sessionId = s PROVE FALSE
    BY DEF Filed, Own
  <1>1. EnableSession /\ s = ""
    BY DEF NoOrphanHandlers
  <1> QED
    BY <1>1, BuildAssumption

\* The handlers of a session that a step leaves alone.
LEMMA FiledSame ==
    ASSUME NEW s,
           \A k \in DOMAIN handlers' :
              handlers'[k].sessionId = GetSessionId(s) =>
                  k \in DOMAIN handlers /\ handlers[k] = handlers'[k],
           \A k \in DOMAIN handlers :
              handlers[k].sessionId = GetSessionId(s) =>
                  k \in DOMAIN handlers' /\ handlers'[k] = handlers[k]
    PROVE  Filed(s)' = Filed(s)
  BY DEF Filed

\* SAM::onServerStatusChanged keeps a call, makes one, or ends it.
LEMMA SamCalls ==
    ASSUME TypeOK, NEW s \in SessionIds, SamStatusChanged(s)
    PROVE  /\ s \in DOMAIN sessions
           /\ \/ sessions'[s].listApps = sessions[s].listApps /\ handlers' = handlers
              \/ ~sessions'[s].listApps.served
              \/ /\ ~Live(s) /\ handlers' = handlers
                 /\ \E items \in Listings(installed[s]) :
                       sessions'[s].listApps.replies = <<[kind |-> "list", items |-> items]>>
  <1> DEFINE lists == {[kind |-> "list", items |-> q] : q \in Listings(installed[s])}
             calls == IF sessions[s].listApps.live THEN {sessions[s].listApps}
                                                   ELSE LSCalls(s \in samUp, lists)
             Update(call) == [watched |-> sessions[s].watched, status |-> Tail(sessions[s].status),
                              listApps |-> call]
  <1>1. s \in DOMAIN sessions
    BY DEF SamStatusChanged
  <1>2. \A call : sessions' = [sessions EXCEPT ![s] = Update(call)] => sessions'[s].listApps = call
    BY <1>1
  <1>3. \/ /\ \E call \in calls : sessions' = [sessions EXCEPT ![s] = Update(call)]
           /\ handlers' = handlers
        \/ sessions' = [sessions EXCEPT ![s] = Update(NoCall)]
    BY DEF SamStatusChanged
  <1>4. lists \subseteq AppReplies
    <2>1. installed[s] \in SUBSET AppIds
      BY DEF TypeOK
    <2>2. \A q \in Listings(installed[s]) : q \in Seq(AppIds)
      BY <2>1, ListingsType
    <2> QED
      BY <2>2, AppReplyTypes
  <1>5. \A r \in lists : \E items \in Listings(installed[s]) : r = [kind |-> "list", items |-> items]
    OBVIOUS
  <1>6. ASSUME NEW call \in calls
        PROVE  \/ call = sessions[s].listApps
               \/ ~call.served
               \/ ~Live(s) /\ \E r \in lists : call.replies = <<r>>
    <2>1. CASE ~sessions[s].listApps.live
      <3>1. call \in LSCalls(s \in samUp, lists)
        BY <2>1
      <3> HIDE DEF lists, calls
      <3>2. call.served => \E r \in lists : call.replies = <<r>>
        BY <1>4, <3>1, LSCallsType, AppReplyTypes
      <3> QED
        BY <2>1, <3>2 DEF Live
    <2>2. CASE sessions[s].listApps.live
      BY <2>2
    <2> QED
      BY <2>1, <2>2
  <1> HIDE DEF lists, calls, Update
  <1>7. CASE sessions' = [sessions EXCEPT ![s] = Update(NoCall)]
    <2>1. sessions'[s].listApps = NoCall
      BY <1>2, <1>7
    <2>2. ~NoCall.served
      BY DEF NoCall
    <2> QED
      BY <1>1, <2>1, <2>2
  <1>8. ASSUME NEW call \in calls, sessions' = [sessions EXCEPT ![s] = Update(call)],
               handlers' = handlers
        PROVE  \/ sessions'[s].listApps = sessions[s].listApps /\ handlers' = handlers
               \/ ~sessions'[s].listApps.served
               \/ /\ ~Live(s) /\ handlers' = handlers
                  /\ \E items \in Listings(installed[s]) :
                        sessions'[s].listApps.replies = <<[kind |-> "list", items |-> items]>>
    <2>1. sessions'[s].listApps = call
      BY <1>2, <1>8
    <2> QED
      BY <1>5, <1>6, <1>8, <2>1
  <1> QED
    BY <1>1, <1>3, <1>7, <1>8

\* What an application manager does is told on the listing of its own session only.
LEMMA ManagerTells ==
    ASSUME TypeOK, NEW s \in SessionIds, s \in DOMAIN sessions
    PROVE  /\ SamGoes(s) \/ SamComes(s) =>
                 \/ sessions'[s].listApps = sessions[s].listApps
                 \/ ~sessions'[s].listApps.served
           /\ \A kind, app : Tell(s, kind, app) =>
                 sessions'[s].listApps = Push(sessions[s].listApps,
                                              [kind |-> kind, items |-> <<app>>])
  <1> DEFINE old == sessions[s]
  <1>1. \A x : sessions' = ForSession(s, x) => sessions'[s] = x
    BY DEF ForSession
  <1>2. old.listApps \in CallRec(AppReplies)
    BY DEF TypeOK, SessionRec
  <1>3. ASSUME SamGoes(s) PROVE ~sessions'[s].listApps.served
    <2>1. sessions'[s] = [watched  |-> old.watched,
                          status   |-> Told(old.watched, old.status, FALSE),
                          listApps |-> Dead(old.listApps)]
      BY <1>1, <1>3 DEF SamGoes
    <2>2. ~Dead(old.listApps).served
      BY <1>2, DeadType, AppReplyTypes
    <2>3. sessions'[s].listApps = Dead(old.listApps)
      BY <2>1
    <2> QED
      BY <2>2, <2>3
  <1>4. ASSUME SamComes(s) PROVE sessions'[s].listApps = old.listApps
    <2>1. sessions'[s] = [watched  |-> old.watched,
                          status   |-> Told(old.watched, old.status, TRUE),
                          listApps |-> old.listApps]
      BY <1>1, <1>4 DEF SamComes
    <2> QED
      BY <2>1
  <1>5. ASSUME NEW kind, NEW app, Tell(s, kind, app)
        PROVE  sessions'[s].listApps = Push(old.listApps, [kind |-> kind, items |-> <<app>>])
    <2> DEFINE call == Push(old.listApps, [kind |-> kind, items |-> <<app>>])
    <2>1. sessions' = ForSession(s, [watched |-> old.watched, status |-> old.status,
                                     listApps |-> call])
      BY <1>5 DEF Tell
    <2> HIDE DEF call
    <2>2. sessions'[s] = [watched |-> old.watched, status |-> old.status, listApps |-> call]
      BY <1>1, <2>1
    <2>3. sessions'[s].listApps = call
      BY <2>2
    <2> QED
      BY <2>3 DEF call
  <1> QED
    BY <1>3, <1>4, <1>5

\* The process starts without a listing.
LEMMA FreshFollows == Fresh => DirectoryFollows
  <1> SUFFICES ASSUME Fresh, NEW s \in DOMAIN sessions PROVE Follows(s)
    BY DEF DirectoryFollows
  <1>1. sessions[s] \in NewSessions(s)
    <2>1. PICK watched \in BOOLEAN : sessions = FirstSessions(watched)
      BY DEF Fresh
    <2>2. DOMAIN <<>> = {}
      OBVIOUS
    <2>3. sessions = [x \in {""} |-> NewSession(x, watched)]
      BY <2>1, <2>2 DEF FirstSessions
    <2> QED
      BY <2>3 DEF NewSessions
  <1>2. ~sessions[s].listApps.served
    BY <1>1, NewSessionType DEF NoCall
  <1> QED
    BY <1>2 DEF Follows

\* The steps of the services for one session.
LEMMA FollowsService ==
    ASSUME TypeOK, DirectoryFollows, NEW u \in SessionIds,
           \/ SamGoes(u) \/ SamComes(u)
           \/ \E app \in AppIds : Install(u, app) \/ Uninstall(u, app) \/ Upgrade(u, app)
    PROVE  DirectoryFollows'
  <1>1. \/ SamGoes(u) \/ SamComes(u)
        \/ \E app \in AppIds, kind \in {"added", "removed", "updated"} : Tell(u, kind, app)
    BY DEF Install, Uninstall, Upgrade
  <1>2. /\ handlers' = handlers /\ DOMAIN sessions' = DOMAIN sessions
        /\ \A s \in DOMAIN sessions : s # u => sessions'[s] = sessions[s]
    BY <1>1, ManagerSays
  <1>3. /\ installed \in [SessionIds -> SUBSET AppIds] /\ DOMAIN sessions \subseteq SessionIds
    BY DEF TypeOK
  <1>4. \A s \in SessionIds : s # u => installed'[s] = installed[s]
    BY <1>3 DEF SamGoes, SamComes, Install, Uninstall, Upgrade, Tell
  <1>5. \A s : Filed(s)' = Filed(s)
    BY <1>2 DEF Filed
  <1> SUFFICES ASSUME NEW s \in DOMAIN sessions, Own(s) PROVE Follows(s)'
    BY <1>2 DEF DirectoryFollows, Own, GetSessionId
  <1>6. Follows(s) /\ s \in SessionIds
    BY <1>3 DEF DirectoryFollows
  <1>7. CASE s # u
    BY <1>2, <1>4, <1>5, <1>6, <1>7, FollowsKept
  <1>8. CASE s = u
    <2>1. CASE SamGoes(u) \/ SamComes(u)
      <3>1. \/ sessions'[s].listApps = sessions[s].listApps
            \/ ~sessions'[s].listApps.served
        BY <1>6, <1>8, <2>1, ManagerTells
      <3>2. installed'[s] = installed[s]
        BY <2>1 DEF SamGoes, SamComes
      <3> QED
        BY <1>5, <1>6, <3>1, <3>2, FollowsKept, FollowsUnserved
    <2>2. ASSUME NEW app \in AppIds, Install(u, app) \/ Uninstall(u, app) \/ Upgrade(u, app)
          PROVE  Follows(s)'
      <3>1. \/ Tell(s, "added", app) /\ installed' = [installed EXCEPT ![s] = @ \cup {app}]
            \/ Tell(s, "removed", app) /\ installed' = [installed EXCEPT ![s] = @ \ {app}]
            \/ Tell(s, "updated", app) /\ installed' = installed
        BY <1>8, <2>2 DEF Install, Uninstall, Upgrade
      <3>2. PICK kind \in {"added", "removed", "updated"} :
                /\ Tell(s, kind, app)
                /\ \A b \in AppIds : b # app => (b \in installed'[s] <=> b \in installed[s])
                /\ app \in installed'[s] <=> IF kind = "updated" THEN app \in installed[s]
                                             ELSE kind = "added"
        <4>1. CASE Tell(s, "added", app) /\ installed' = [installed EXCEPT ![s] = @ \cup {app}]
          <5>1. installed'[s] = installed[s] \cup {app}
            BY <1>3, <1>6, <4>1
          <5> QED
            BY <4>1, <5>1
        <4>2. CASE Tell(s, "removed", app) /\ installed' = [installed EXCEPT ![s] = @ \ {app}]
          <5>1. installed'[s] = installed[s] \ {app}
            BY <1>3, <1>6, <4>2
          <5> QED
            BY <4>2, <5>1
        <4>3. CASE Tell(s, "updated", app) /\ installed' = installed
          BY <4>3
        <4> QED
          BY <3>1, <4>1, <4>2, <4>3
      <3>3. sessions'[s].listApps = Push(sessions[s].listApps, [kind |-> kind, items |-> <<app>>])
        BY <1>6, <3>2, ManagerTells
      <3> QED
        BY <1>2, <1>6, <3>2, <3>3, FollowsTold
    <2> QED
      BY <1>8, <2>1, <2>2
  <1> QED
    BY <1>7, <1>8

\* Every step keeps the handlers after the application managers.
LEMMA FollowsNext ==
    TypeOK /\ NoOrphanHandlers /\ DirectoryFollows /\ [Next]_vars => DirectoryFollows'
  <1> SUFFICES ASSUME TypeOK, NoOrphanHandlers, DirectoryFollows, [Next]_vars
               PROVE  DirectoryFollows'
    OBVIOUS
  <1>0. /\ TypeOK' /\ DOMAIN sessions \subseteq SessionIds /\ DOMAIN sessions' \subseteq SessionIds
        /\ \A s \in DOMAIN sessions : Own(s) => Follows(s)
        /\ \A k \in DOMAIN handlers, s \in SessionIds :
              Own(s) /\ handlers[k].sessionId = GetSessionId(s) => handlers[k].sessionId = s
    <2>1. TypeOK'
      BY TypeNext
    <2> QED
      BY <2>1 DEF TypeOK, DirectoryFollows, Own
  <1>1. CASE AccountStatusChanged
    BY <1>1, TypeAccountStatus DEF DirectoryFollows
  <1>2. CASE OnGetSessions
    <2> DEFINE reply == Head(getSessions.replies)
    <2>0. installed' = installed
      BY <1>2 DEF OnGetSessions, external, services
    <2>1. CASE reply.kind = "error"
      <3>1. sessions' = sessions /\ handlers' = handlers
        BY <1>2, <2>1, SessionsListed
      <3>2. \A s : Filed(s)' = Filed(s)
        BY <3>1 DEF Filed
      <3> SUFFICES ASSUME NEW s \in DOMAIN sessions, Own(s) PROVE Follows(s)'
        BY <3>1 DEF DirectoryFollows, Own, GetSessionId
      <3> QED
        BY <1>0, <2>0, <3>1, <3>2, FollowsKept
    <2>2. CASE reply.kind # "error"
      <3>1. /\ DOMAIN sessions' = reply.items
            /\ \A s \in DOMAIN sessions' :
                  IF s \in DOMAIN sessions THEN sessions'[s] = sessions[s]
                                           ELSE sessions'[s] \in NewSessions(s)
            /\ handlers' = WithoutHandlersOf(DOMAIN sessions \ reply.items)
        BY <1>2, <2>2, SessionsListed
      <3> HIDE DEF reply
      <3> SUFFICES ASSUME NEW s \in DOMAIN sessions', Own(s) PROVE Follows(s)'
        BY DEF DirectoryFollows, Own, GetSessionId
      <3>2. CASE s \in DOMAIN sessions
        <4>1. /\ \A k \in DOMAIN handlers' :
                    handlers'[k].sessionId = GetSessionId(s) =>
                        k \in DOMAIN handlers /\ handlers[k] = handlers'[k]
              /\ \A k \in DOMAIN handlers :
                    handlers[k].sessionId = GetSessionId(s) =>
                        k \in DOMAIN handlers' /\ handlers'[k] = handlers[k]
          BY <1>0, <3>1, <3>2, SessionsErased
        <4>2. Filed(s)' = Filed(s)
          BY <4>1, FiledSame
        <4>3. sessions'[s] = sessions[s] /\ s \in SessionIds /\ Follows(s)
          BY <1>0, <3>1, <3>2
        <4> QED
          BY <2>0, <3>2, <4>2, <4>3, FollowsKept
      <3>3. CASE s \notin DOMAIN sessions
        <4>1. sessions'[s] \in NewSessions(s)
          BY <3>1, <3>3
        <4>2. ~sessions'[s].listApps.served
          BY <4>1, NewSessionType DEF NoCall
        <4> QED
          BY <4>2, FollowsUnserved
      <3> QED
        BY <3>2, <3>3
    <2> QED
      BY <2>1, <2>2
  <1>3. ASSUME NEW u \in SessionIds, SamStatusChanged(u)
        PROVE  DirectoryFollows'
    <2>0. installed' = installed
      BY <1>3 DEF SamStatusChanged, external, services
    <2>1. PICK x : /\ u \in DOMAIN sessions /\ sessions' = [sessions EXCEPT ![u] = x]
                   /\ handlers' = handlers \/ handlers' = RemoveBySessionId(handlers, u)
      BY <1>3, SamTold
    <2>2. DOMAIN sessions' = DOMAIN sessions /\ \A s \in DOMAIN sessions : s # u => sessions'[s] = sessions[s]
      BY <2>1
    <2>3. handlers' = handlers => \A s : Filed(s)' = Filed(s)
      BY DEF Filed
    <2> SUFFICES ASSUME NEW s \in DOMAIN sessions, Own(s) PROVE Follows(s)'
      BY <2>2 DEF DirectoryFollows, Own, GetSessionId
    <2>4. s \in SessionIds /\ Follows(s)
      BY <1>0
    <2>5. CASE s # u
      <3>1. Filed(s)' = Filed(s)
        <4>1. CASE handlers' = handlers
          BY <2>3, <4>1
        <4>2. CASE handlers' = RemoveBySessionId(handlers, u)
          <5>1. /\ \A k \in DOMAIN handlers' :
                      handlers'[k].sessionId = GetSessionId(s) =>
                          k \in DOMAIN handlers /\ handlers[k] = handlers'[k]
                /\ \A k \in DOMAIN handlers :
                      handlers[k].sessionId = GetSessionId(s) =>
                          k \in DOMAIN handlers' /\ handlers'[k] = handlers[k]
            BY <1>0, <2>4, <2>5, <4>2, SessionErased
          <5> QED
            BY <5>1, FiledSame
        <4> QED
          BY <2>1, <4>1, <4>2
      <3> QED
        BY <2>0, <2>2, <2>4, <2>5, <3>1, FollowsKept
    <2>6. CASE s = u
      <3>1. \/ sessions'[s].listApps = sessions[s].listApps /\ handlers' = handlers
            \/ ~sessions'[s].listApps.served
            \/ /\ ~Live(s) /\ handlers' = handlers
               /\ \E items \in Listings(installed[s]) :
                     sessions'[s].listApps.replies = <<[kind |-> "list", items |-> items]>>
        BY <1>3, <2>6, SamCalls
      <3>2. CASE sessions'[s].listApps = sessions[s].listApps /\ handlers' = handlers
        BY <2>0, <2>3, <2>4, <3>2, FollowsKept
      <3>3. CASE ~sessions'[s].listApps.served
        BY <3>3, FollowsUnserved
      <3>4. CASE /\ ~Live(s) /\ handlers' = handlers
                 /\ \E items \in Listings(installed[s]) :
                       sessions'[s].listApps.replies = <<[kind |-> "list", items |-> items]>>
        <4>1. \A app \in AppIds : app \notin Filed(s)'
          BY <2>3, <2>4, <3>4, DeadFiled
        <4> QED
          BY <2>0, <2>4, <3>4, <4>1, FollowsNew
      <3> QED
        BY <3>1, <3>2, <3>3, <3>4
    <2> QED
      BY <2>5, <2>6
  <1>4. ASSUME NEW u \in SessionIds, OnListApps(u)
        PROVE  DirectoryFollows'
    <2>0. installed' = installed
      BY <1>4 DEF OnListApps, external, services
    <2>1. PICK x : sessions' = [sessions EXCEPT ![u] = x]
      BY <1>4, AppsListed
    <2>2. DOMAIN sessions' = DOMAIN sessions /\ \A s \in DOMAIN sessions : s # u => sessions'[s] = sessions[s]
      BY <2>1
    <2> SUFFICES ASSUME NEW s \in DOMAIN sessions, Own(s) PROVE Follows(s)'
      BY <2>2 DEF DirectoryFollows, Own, GetSessionId
    <2>3. s \in SessionIds /\ Follows(s)
      BY <1>0
    <2>4. CASE s # u
      <3>1. GetSessionId(s) # GetSessionId(u)
        BY <2>3, <2>4, OwnIds
      <3>2. \A app \in AppIds : app \in Filed(s)' <=> app \in Filed(s)
        <4> SUFFICES ASSUME NEW app \in AppIds PROVE app \in Filed(s)' <=> app \in Filed(s)
          OBVIOUS
        <4>1. Key(s, app) \in DOMAIN handlers' <=> Key(s, app) \in DOMAIN handlers
          BY <1>4, <2>3, <3>1, ListAppsKeys
        <4> QED
          BY <1>0, <2>3, <4>1, FiledKeys
      <3> QED
        BY <2>0, <2>2, <2>3, <2>4, <3>2, FollowsKept
    <2>5. CASE s = u
      BY <1>0, <1>4, <2>3, <2>5, FollowsDelivered
    <2> QED
      BY <2>4, <2>5
  <1>5. CASE (\E s \in SessionIds : SamGoes(s) \/ SamComes(s)) \/ Service
    BY <1>5, FollowsService DEF Service
  <1>6. CASE AccountGoes \/ AccountComes \/ UsersChange \/ UNCHANGED vars
    <2>1. sessions' = sessions /\ handlers' = handlers /\ installed' = installed
      BY <1>6 DEF AccountGoes, AccountComes, UsersChange, vars, external, services
    <2>2. \A s : Filed(s)' = Filed(s)
      BY <2>1 DEF Filed
    <2> SUFFICES ASSUME NEW s \in DOMAIN sessions, Own(s) PROVE Follows(s)'
      BY <2>1 DEF DirectoryFollows, Own, GetSessionId
    <2> QED
      BY <1>0, <2>1, <2>2, FollowsKept
  <1>7. CASE Restart
    BY <1>7, RestartFresh, FreshFollows, PTL
  <1> QED
    BY <1>1, <1>2, <1>3, <1>4, <1>5, <1>6, <1>7 DEF Next

\* In every reachable state the handlers of a session whose listing is served,
\* with the changes under way, are exactly the applications installed in it.
THEOREM HandlersFollowApps == Spec => []HandlersMirrorApps
  <1>1. TypeOK /\ DirectoryFollows => HandlersMirrorApps
    <2> SUFFICES ASSUME DirectoryFollows, NEW s \in DOMAIN sessions, Own(s),
                        sessions[s].listApps.served, NEW app \in AppIds \ {""}
                 PROVE  WillBeFiled(s, app) <=> app \in installed[s]
      BY DEF HandlersMirrorApps
    <2>1. Mirrors(s) /\ app \in AppIds /\ app # ""
      BY DEF DirectoryFollows, Follows
    <2>2. Ends(sessions[s].listApps.replies, Filed(s), app) <=> app \in installed[s]
      BY <2>1 DEF Mirrors
    <2> QED
      BY <2>2, WillBeEnds
  <1> QED
    BY <1>1, InitFresh, FreshFollows, FollowsNext, DirectoryTypeCorrect, HandlersHaveOwners,
       PTL DEF Spec


-----------------------------------------------------------------------------
\* What onListApps makes of the i-th application of a list is its own when it declares
\* filters: no later one of those read so far declares any.
OwnFilters(h) == Declared(h.name) # {} => h.filters = TheFilters(Declared(h.name))

LEMMA ListedFilters ==
    ASSUME NEW s, NEW apps \in Seq(AppIds), NEW i \in DOMAIN apps
    PROVE  OwnFilters(MakeHandler(s, apps[i], FiltersInList(apps, i)))
  <1> DEFINE declaring == {j \in 1..i : Declared(apps[j]) # {}}
             last == CHOOSE j \in declaring : \A m \in declaring : m <= j
  <1>1. ASSUME Declared(apps[i]) # {}
        PROVE  FiltersInList(apps, i) = TheFilters(Declared(apps[i]))
    <2>1. i \in declaring /\ \A m \in declaring : m <= i
      BY <1>1
    <2>2. last \in declaring /\ \A m \in declaring : m <= last
      <3> HIDE DEF declaring
      <3> QED
        BY <2>1
    <2>3. last = i
      BY <2>1, <2>2
    <2>4. FiltersInList(apps, i) = TheFilters(Declared(apps[last]))
      BY <2>1 DEF FiltersInList
    <2> QED
      BY <2>3, <2>4
  <1> QED
    BY <1>1 DEF OwnFilters, MakeHandler

\* A handler that is filed has a name, and no filters but its own if it declares some.
WellMade(h) == h.name # "" /\ OwnFilters(h)

HandlersWellMade == \A k \in DOMAIN handlers : WellMade(handlers[k])

\* Which handlers a step leaves: old ones, or the one it files.
LEMMA AddedFilters ==
    ASSUME NEW s \in SessionIds, NEW apps \in Seq(AppIds), HandlersWellMade
    PROVE  \A k \in DOMAIN AddAll(s, apps) : WellMade(AddAll(s, apps)[k])
  <1> DEFINE Made(i) == MakeHandler(s, apps[i], FiltersInList(apps, i))
             new     == {i \in DOMAIN apps : Accepts(handlers, Made(i))}
             keys    == {GetKey(Made(i)) : i \in new}
             all     == AddAll(s, apps)
  <1>1. /\ DOMAIN all = DOMAIN handlers \cup keys
        /\ \A k \in DOMAIN handlers : all[k] = handlers[k]
        /\ \A k \in keys : k \notin DOMAIN handlers =>
              all[k] = Made(CHOOSE i \in new : GetKey(Made(i)) = k)
    BY DEF AddAll
  <1>2. \A i \in new : WellMade(Made(i))
    BY ListedFilters DEF Accepts, WellMade
  <1>3. ASSUME NEW k \in keys, k \notin DOMAIN handlers PROVE WellMade(all[k])
    <2>1. PICK i \in new : GetKey(Made(i)) = k
      OBVIOUS
    <2> DEFINE first == CHOOSE j \in new : GetKey(Made(j)) = k
    <2>2. first \in new
      <3> HIDE DEF new, Made
      <3> QED
        BY <2>1
    <2>4. all[k] = Made(first)
      BY <1>1, <1>3
    <2> HIDE DEF first, new, Made, all
    <2> QED
      BY <1>2, <2>2, <2>4
  <1> HIDE DEF keys, new, Made, all
  <1>4. \A k \in DOMAIN all : WellMade(all[k])
    BY <1>1, <1>3 DEF HandlersWellMade
  <1> QED
    BY <1>4 DEF all

LEMMA FiltersNext == TypeOK /\ HandlersWellMade /\ [Next]_vars => HandlersWellMade'
  <1> SUFFICES ASSUME TypeOK, HandlersWellMade, [Next]_vars
               PROVE  HandlersWellMade'
    OBVIOUS
  <1>k. ASSUME \A k \in DOMAIN handlers' : k \in DOMAIN handlers /\ handlers'[k] = handlers[k]
        PROVE  HandlersWellMade'
    BY <1>k DEF HandlersWellMade
  <1>1. CASE AccountStatusChanged
    <2>1. handlers' = WithoutHandlersOf(DOMAIN sessions)
      BY <1>1 DEF AccountStatusChanged
    <2> QED
      BY <2>1, <1>k, SessionsErased
  <1>2. CASE OnGetSessions
    <2> DEFINE gone == DOMAIN sessions \ Head(getSessions.replies).items
    <2>1. UNCHANGED handlers \/ handlers' = WithoutHandlersOf(gone)
      BY <1>2 DEF OnGetSessions
    <2> HIDE DEF gone
    <2> QED
      BY <2>1, <1>k, SessionsErased
  <1>3. ASSUME NEW s \in SessionIds, SamStatusChanged(s) PROVE HandlersWellMade'
    <2>1. UNCHANGED handlers \/ handlers' = RemoveBySessionId(handlers, s)
      BY <1>3 DEF SamStatusChanged
    <2> QED
      BY <2>1, <1>k, SessionErased
  <1>4. ASSUME NEW s \in SessionIds, OnListApps(s) PROVE HandlersWellMade'
    <2> DEFINE reply == Head(sessions[s].listApps.replies)
    <2>1. reply \in AppReplies
      <3>1. sessions[s].listApps \in CallRec(AppReplies) /\ sessions[s].listApps.replies # <<>>
        BY <1>4 DEF OnListApps, TypeOK, SessionRec
      <3> QED
        BY <3>1, DeliverType
    <2>2. \/ reply.kind = "list" /\ handlers' = AddAll(s, reply.items)
          \/ /\ reply.kind = "added"
             /\ handlers' = AddHandler(handlers, MakeHandler(s, reply.items[1],
                                           TheFilters(Declared(reply.items[1]))))
          \/ handlers' = RemoveHandler(handlers, ConvertKey(GetSessionId(s), reply.items[1]))
          \/ handlers' = handlers
      BY <1>4 DEF OnListApps
    <2> HIDE DEF reply
    <2>3. CASE reply.kind = "list" /\ handlers' = AddAll(s, reply.items)
      <3>1. reply.items \in Seq(AppIds)
        BY <2>1, <2>3, AppReplyTypes
      <3>2. \A k \in DOMAIN handlers' : WellMade(handlers'[k])
        BY <3>1, <2>3, AddedFilters
      <3> QED
        BY <3>2 DEF HandlersWellMade
    <2>4. CASE /\ reply.kind = "added"
               /\ handlers' = AddHandler(handlers, MakeHandler(s, reply.items[1],
                                             TheFilters(Declared(reply.items[1]))))
      <3> DEFINE h == MakeHandler(s, reply.items[1], TheFilters(Declared(reply.items[1])))
      <3>1. reply.items[1] \in AppIds
        BY <2>1, <2>4, AppReplyTypes
      <3>2. h \in HandlerRec
        BY <3>1, FiltersType, MadeType
      <3>3. Accepts(handlers, h) => WellMade(h)
        BY DEF Accepts, WellMade, OwnFilters, MakeHandler
      <3>4. handlers' = AddHandler(handlers, h)
        BY <2>4
      <3> HIDE DEF h
      <3>5. \A k \in DOMAIN handlers' :
               (k \in DOMAIN handlers /\ handlers'[k] = handlers[k]) \/ handlers'[k] = h
        BY <3>2, <3>4, AddFiled, TypeParts
      <3>6. ~Accepts(handlers, h) => handlers' = handlers
        BY <3>4 DEF AddHandler
      <3>7. \A k \in DOMAIN handlers' : WellMade(handlers'[k])
        BY <3>3, <3>5, <3>6 DEF HandlersWellMade
      <3> QED
        BY <3>7 DEF HandlersWellMade
    <2>5. CASE handlers' = RemoveHandler(handlers, ConvertKey(GetSessionId(s), reply.items[1]))
      <3>1. PICK key : key = ConvertKey(GetSessionId(s), reply.items[1])
        OBVIOUS
      <3>2. handlers' = Erase(handlers, {key})
        BY <2>5, <3>1 DEF RemoveHandler
      <3>3. /\ DOMAIN handlers' = DOMAIN handlers \ {key}
            /\ \A k \in DOMAIN handlers \ {key} : handlers'[k] = handlers[k]
        BY <3>2, EraseIsMap
      <3> QED
        BY <3>3, <1>k
    <2>6. CASE handlers' = handlers
      BY <2>6, <1>k
    <2> QED
      BY <2>2, <2>3, <2>4, <2>5, <2>6
  <1>5. ASSUME NEW s \in SessionIds,
               \/ SamGoes(s) \/ SamComes(s)
               \/ \E app \in AppIds, kind \in {"added", "removed", "updated"} :
                     Tell(s, kind, app)
        PROVE  HandlersWellMade'
    BY <1>5, <1>k, ManagerSays
  <1>6. CASE AccountGoes \/ AccountComes \/ UsersChange \/ UNCHANGED vars
    <2>1. UNCHANGED handlers
      BY <1>6 DEF AccountGoes, AccountComes, UsersChange, vars
    <2> QED
      BY <2>1, <1>k
  <1>7. CASE Restart
    BY <1>7, <1>k DEF Restart
  <1> QED
    BY <1>1, <1>2, <1>3, <1>4, <1>5, <1>6, <1>7
       DEF Next, Service, Install, Uninstall, Upgrade

LEMMA HandlersAreWellMade == Spec => []HandlersWellMade
  <1>1. Init => HandlersWellMade
    BY DEF Init, HandlersWellMade
  <1> QED
    BY <1>1, DirectoryTypeCorrect, FiltersNext, PTL DEF Spec

\* No application that declares filters is ever matched by another one's: what
\* onListApps keeps over a list reaches only applications that declare none.
THEOREM DeclaredFiltersKept == Spec => []DeclaredFiltersAreOwn
  <1>1. HandlersWellMade => DeclaredFiltersAreOwn
    BY DEF HandlersWellMade, WellMade, OwnFilters, DeclaredFiltersAreOwn
  <1> QED
    BY <1>1, HandlersAreWellMade, PTL

\* Where every application declares filters nothing leaks from one to the next.
THEOREM NoLeakWhereAllDeclare ==
    ASSUME \A app \in AppIds : Declared(app) # {}
    PROVE  Spec => []HandlersHaveTheirOwnFilters
  <1>1. TypeOK /\ DeclaredFiltersAreOwn => HandlersHaveTheirOwnFilters
    <2> SUFFICES ASSUME TypeOK, DeclaredFiltersAreOwn, NEW k \in DOMAIN handlers
                 PROVE  handlers[k].filters = TheFilters(Declared(handlers[k].name))
      BY DEF HandlersHaveTheirOwnFilters
    <2>1. handlers[k].name \in AppIds
      BY DEF TypeOK, HandlerRec
    <2> QED
      BY <2>1 DEF DeclaredFiltersAreOwn
  <1> QED
    BY <1>1, DirectoryTypeCorrect, DeclaredFiltersKept, PTL

-----------------------------------------------------------------------------
\* How many replies of a queue are news, and what each will have made of the
\* applications that are filed.
Count(q) == IF q # <<>> /\ q[Len(q)].kind = "error" THEN Len(q) - 1 ELSE Len(q)

After(q, filed, i) == {app \in Named : Ends(SubSeq(q, 1, i), filed, app)}

NewsOf(q, filed) == [i \in 1..Count(q) |-> After(q, filed, i)]

LEMMA NewsIs ==
    ASSUME NEW s
    PROVE  News(s) = NewsOf(UnderWay(s), Filed(s)) /\ News(s)' = NewsOf(UnderWay(s)', Filed(s)')
  BY DEF News, NewsOf, Count, After

LEMMA CountType ==
    ASSUME NEW R, NEW q \in Seq(R), NEW filed
    PROVE  /\ Count(q) \in 0..Len(q) /\ Len(q) \in Nat
           /\ NewsOf(q, filed) \in Seq(SUBSET Named) /\ Len(NewsOf(q, filed)) = Count(q)
           /\ \A i \in 1..Count(q) : NewsOf(q, filed)[i] = After(q, filed, i)
           /\ NewsOf(q, filed) = <<>> <=> Count(q) = 0
  <1>1. Len(q) \in Nat /\ (q # <<>> => Len(q) > 0)
    OBVIOUS
  <1>2. Count(q) \in 0..Len(q) /\ Count(q) \in Nat
    BY <1>1 DEF Count
  <1>3. \A i : After(q, filed, i) \in SUBSET Named
    BY DEF After
  <1> DEFINE n == Count(q)
             news == [i \in 1..n |-> After(q, filed, i)]
  <1>4. news \in Seq(SUBSET Named) /\ Len(news) = n /\ \A i \in 1..n : news[i] = After(q, filed, i)
    <2> HIDE DEF n
    <2>1. n \in Nat
      BY <1>2 DEF n
    <2>2. news \in [1..n -> SUBSET Named]
      BY <1>3
    <2> QED
      BY <2>1, <2>2
  <1>5. NewsOf(q, filed) = news
    BY DEF NewsOf
  <1> HIDE DEF n, news
  <1>6. news = <<>> <=> Len(news) = 0
    BY <1>4
  <1> QED
    BY <1>1, <1>2, <1>4, <1>5, <1>6 DEF n

\* Two accounts of the same news.
LEMMA NewsEqual ==
    ASSUME NEW R, NEW q \in Seq(R), NEW r \in Seq(R), NEW f, NEW g, Count(q) = Count(r),
           \A i \in 1..Count(q) : After(q, f, i) = After(r, g, i)
    PROVE  NewsOf(q, f) = NewsOf(r, g)
  BY DEF NewsOf

LEMMA FilesEqual ==
    ASSUME NEW f, NEW g, \A app \in Named : app \in f <=> app \in g, NEW q
    PROVE  NewsOf(q, f) = NewsOf(q, g)
  <1>1. ASSUME NEW i PROVE After(q, f, i) = After(q, g, i)
    <2>1. ASSUME NEW app \in Named, NEW p PROVE Ends(p, f, app) <=> Ends(p, g, app)
      BY DEF Ends
    <2> QED
      BY <2>1 DEF After
  <1> QED
    BY <1>1 DEF NewsOf
\* Prefixes of a queue.
LEMMA Prefix ==
    ASSUME NEW R, NEW q \in Seq(R), NEW i \in 0..Len(q)
    PROVE  /\ SubSeq(q, 1, i) \in Seq(R) /\ Len(SubSeq(q, 1, i)) = i
           /\ \A j \in 1..i : SubSeq(q, 1, i)[j] = q[j]
  <1>1. 1 \in Int /\ i \in Int /\ \A j \in 1..i : q[j] \in R
    OBVIOUS
  <1> DEFINE p == SubSeq(q, 1, i)
  <1>2. /\ p \in Seq(R) /\ Len(p) = IF 1 <= i THEN i - 1 + 1 ELSE 0
        /\ \A j \in 1..(i - 1 + 1) : p[j] = q[1 + j - 1]
    BY <1>1, SubSeqProperties
  <1> HIDE DEF p
  <1>3. Len(p) = i /\ i - 1 + 1 = i /\ \A j \in 1..i : 1 + j - 1 = j
    BY <1>2
  <1>4. p \in Seq(R) /\ Len(p) = i /\ \A j \in 1..i : p[j] = q[j]
    BY <1>2, <1>3
  <1> QED
    BY <1>4 DEF p

LEMMA PrefixOfAppend ==
    ASSUME NEW R, NEW q \in Seq(R), NEW r \in R
    PROVE  /\ \A i \in 0..Len(q) : SubSeq(Append(q, r), 1, i) = SubSeq(q, 1, i)
           /\ SubSeq(Append(q, r), 1, Len(q) + 1) = Append(q, r)
  <1> DEFINE a == Append(q, r)
  <1>1. /\ a \in Seq(R) /\ Len(q) \in Nat /\ Len(a) = Len(q) + 1
        /\ \A j \in 1..Len(q) : a[j] = q[j]
    OBVIOUS
  <1> HIDE DEF a
  <1>2. SubSeq(a, 1, Len(a)) = a
    BY <1>1, SubSeqFull
  <1>3. ASSUME NEW i \in 0..Len(q) PROVE SubSeq(a, 1, i) = SubSeq(q, 1, i)
    <2> DEFINE p == SubSeq(a, 1, i)
               o == SubSeq(q, 1, i)
    <2>1. i \in 0..Len(a)
      BY <1>1
    <2>2. p \in Seq(R) /\ Len(p) = i /\ \A j \in 1..i : p[j] = a[j]
      BY <1>1, <2>1, Prefix
    <2>3. o \in Seq(R) /\ Len(o) = i /\ \A j \in 1..i : o[j] = q[j]
      BY Prefix
    <2>4. \A j \in 1..i : j \in 1..Len(q)
      BY <1>1
    <2> HIDE DEF p, o
    <2>5. p = o
      BY <1>1, <2>2, <2>3, <2>4, SeqEqual
    <2> QED
      BY <2>5 DEF p, o
  <1> QED
    BY <1>1, <1>2, <1>3 DEF a

LEMMA PrefixOfTail ==
    ASSUME NEW R, NEW q \in Seq(R), q # <<>>, NEW i \in 1..Len(q)
    PROVE  /\ SubSeq(q, 1, i) # <<>> /\ Head(SubSeq(q, 1, i)) = Head(q)
           /\ Tail(SubSeq(q, 1, i)) = SubSeq(Tail(q), 1, i - 1)
  <1>1. Len(q) \in Nat /\ 1 \in 1..Len(q) /\ i \in 0..Len(q) /\ i - 1 \in 0..Len(q)
    OBVIOUS
  <1> DEFINE p == SubSeq(q, 1, i)
             t == Tail(q)
             o == SubSeq(t, 1, i - 1)
  <1>2. p \in Seq(R) /\ Len(p) = i /\ \A j \in 1..i : p[j] = q[j]
    BY <1>1, Prefix
  <1>3. t \in Seq(R) /\ Len(t) = Len(q) - 1 /\ \A j \in 1..Len(t) : t[j] = q[j + 1]
    BY HeadTailProperties
  <1> HIDE DEF t
  <1>4. o \in Seq(R) /\ Len(o) = i - 1 /\ \A j \in 1..(i - 1) : o[j] = t[j]
    <2>1. i - 1 \in 0..Len(t)
      BY <1>1, <1>3
    <2> QED
      BY <1>3, <2>1, Prefix
  <1> HIDE DEF p, o
  <1>5. p # <<>>
    BY <1>2
  <1> DEFINE u == Tail(p)
  <1>6. u \in Seq(R) /\ Len(u) = i - 1 /\ \A j \in 1..Len(u) : u[j] = p[j + 1]
    BY <1>2, <1>5, HeadTailProperties
  <1> HIDE DEF u
  <1>7. \A j \in 1..(i - 1) : u[j] = o[j]
    <2> SUFFICES ASSUME NEW j \in 1..(i - 1) PROVE u[j] = o[j]
      OBVIOUS
    <2>1. j + 1 \in 1..i /\ j \in 1..Len(t) /\ j \in 1..Len(u)
      BY <1>1, <1>3, <1>6
    <2> QED
      BY <1>2, <1>3, <1>4, <1>6, <2>1
  <1>8. u = o
    BY <1>4, <1>6, <1>7, SeqEqual
  <1>9. Head(p) = Head(q)
    <2>1. Head(p) = p[1] /\ Head(q) = q[1] /\ 1 \in 1..i
      BY <1>1, <1>2, <1>5
    <2> QED
      BY <1>2, <2>1
  <1> QED
    BY <1>5, <1>8, <1>9 DEF p, t, o, u

\* A listing that has just been asked for, an error that is all there is, and nothing.
LEMMA NewsAtFirst ==
    ASSUME NEW R, NEW r \in R, NEW f, NEW S \in SUBSET Named,
           \A app \in Named : app \in Range(r.items) <=> app \in S
    PROVE  /\ NewsOf(<<>>, f) = <<>>
           /\ r.kind = "error" => NewsOf(<<r>>, f) = <<>>
           /\ r.kind = "list" => NewsOf(<<r>>, f) = <<S>>
  <1> DEFINE q == <<r>>
             none == <<>>
  <1>1. q \in Seq(R) /\ Len(q) = 1 /\ q[1] = r /\ q # <<>>
    OBVIOUS
  <1>2. none \in Seq(R) /\ Len(none) = 0
    OBVIOUS
  <1>3. NewsOf(none, f) = <<>>
    <2>1. Count(none) = 0
      BY <1>2 DEF Count
    <2> HIDE DEF none
    <2> QED
      BY <1>2, <2>1, CountType
  <1> HIDE DEF q
  <1>4. r.kind = "error" => NewsOf(q, f) = <<>>
    <2>1. r.kind = "error" => Count(q) = 0
      BY <1>1 DEF Count
    <2> QED
      BY <1>1, <2>1, CountType
  <1>5. ASSUME r.kind = "list" PROVE NewsOf(q, f) = <<S>>
    <2>1. Count(q) = 1
      BY <1>1, <1>5 DEF Count
    <2>2. SubSeq(q, 1, 1) = q
      BY <1>1, SubSeqFull
    <2>3. \A app \in Named : Ends(q, f, app) <=> app \in S
      <3> SUFFICES ASSUME NEW app \in Named PROVE Ends(q, f, app) <=> app \in S
        OBVIOUS
      <3>1. 1 \in 1..Len(q) /\ Names(q[1], app) /\ \A j \in 1..Len(q) : Names(q[j], app) => j <= 1
        BY <1>1, <1>5 DEF Names
      <3>2. Ends(q, f, app) <=> Says(q[1], app)
        BY <1>1, <3>1, EndsByLast
      <3> QED
        BY <1>1, <1>5, <3>2 DEF Says
    <2>4. After(q, f, 1) = S
      BY <2>2, <2>3 DEF After
    <2>5. NewsOf(q, f) = [i \in 1..1 |-> S]
      <3>1. NewsOf(q, f) = [i \in 1..1 |-> After(q, f, i)]
        BY <2>1 DEF NewsOf
      <3>2. \A i \in 1..1 : After(q, f, i) = S
        BY <2>4
      <3> QED
        BY <3>1, <3>2
    <2> QED
      BY <2>5
  <1> QED
    BY <1>3, <1>4, <1>5 DEF q
\* Without an error every reply is news.
LEMMA AllNews ==
    ASSUME NEW R, NEW q \in Seq(R), \A i \in 1..Len(q) : q[i].kind # "error"
    PROVE  Count(q) = Len(q)
  <1>1. q # <<>> => Len(q) \in 1..Len(q)
    OBVIOUS
  <1> QED
    BY <1>1 DEF Count

\* One more reply: a change is one more piece of news, an error is none.
LEMMA NewsOfAppend ==
    ASSUME NEW R, NEW q \in Seq(R), NEW r \in R, NEW f,
           \A i \in 1..Len(q) : q[i].kind # "error"
    PROVE  /\ r.kind = "error" => NewsOf(Append(q, r), f) = NewsOf(q, f)
           /\ r.kind # "error" =>
                 NewsOf(Append(q, r), f) =
                     Append(NewsOf(q, f), {app \in Named : Ends(Append(q, r), f, app)})
  <1> DEFINE a == Append(q, r)
             n == Len(q)
             S == {app \in Named : Ends(a, f, app)}
  <1>1. a \in Seq(R) /\ n \in Nat /\ Len(a) = n + 1 /\ a[n + 1] = r /\ a # <<>>
    OBVIOUS
  <1>2. Count(q) = n
    BY AllNews
  <1>3. \A i \in 0..n : SubSeq(a, 1, i) = SubSeq(q, 1, i)
    BY PrefixOfAppend
  <1>4. SubSeq(a, 1, n + 1) = a
    BY PrefixOfAppend
  <1> HIDE DEF a, n
  <1>5. \A i \in 1..n : After(a, f, i) = After(q, f, i)
    <2> SUFFICES ASSUME NEW i \in 1..n PROVE After(a, f, i) = After(q, f, i)
      OBVIOUS
    <2>1. i \in 0..n
      BY <1>1
    <2> QED
      BY <1>3, <2>1 DEF After
  <1>6. ASSUME r.kind = "error" PROVE NewsOf(a, f) = NewsOf(q, f)
    <2>1. Count(a) = n
      BY <1>1, <1>6 DEF Count
    <2> QED
      BY <1>1, <1>2, <1>5, <2>1, NewsEqual
  <1>7. ASSUME r.kind # "error" PROVE NewsOf(a, f) = Append(NewsOf(q, f), S)
    <2>1. Count(a) = n + 1
      BY <1>1, <1>7 DEF Count
    <2>2. /\ NewsOf(a, f) \in Seq(SUBSET Named) /\ Len(NewsOf(a, f)) = n + 1
          /\ \A i \in 1..(n + 1) : NewsOf(a, f)[i] = After(a, f, i)
      BY <1>1, <2>1, CountType
    <2>3. /\ NewsOf(q, f) \in Seq(SUBSET Named) /\ Len(NewsOf(q, f)) = n
          /\ \A i \in 1..n : NewsOf(q, f)[i] = After(q, f, i)
      BY <1>2, CountType
    <2>4. After(a, f, n + 1) = S
      BY <1>4 DEF After
    <2> DEFINE x == NewsOf(a, f)
               y == NewsOf(q, f)
    <2>5. S \in SUBSET Named
      OBVIOUS
    <2> HIDE DEF x, y, S
    <2>6. /\ Append(y, S) \in Seq(SUBSET Named) /\ Len(Append(y, S)) = n + 1
          /\ \A i \in 1..n : Append(y, S)[i] = y[i]
          /\ Append(y, S)[n + 1] = S
      BY <2>3, <2>5 DEF y
    <2>7. \A i \in 1..(n + 1) : x[i] = Append(y, S)[i]
      <3> SUFFICES ASSUME NEW i \in 1..(n + 1) PROVE x[i] = Append(y, S)[i]
        OBVIOUS
      <3>1. CASE i = n + 1
        BY <2>2, <2>4, <2>6, <3>1 DEF x
      <3>2. CASE i # n + 1
        <4>1. i \in 1..n
          BY <1>1, <3>2
        <4> QED
          BY <1>5, <2>2, <2>3, <2>6, <4>1 DEF x, y
      <3> QED
        BY <3>1, <3>2
    <2>8. x \in Seq(SUBSET Named) /\ Len(x) = n + 1
      BY <2>2 DEF x
    <2> QED
      BY <2>6, <2>7, <2>8, SeqEqual DEF x, y
  <1> QED
    BY <1>6, <1>7 DEF a, S

\* Delivering a reply shows the first news, if the reply is filed as it says.
LEMMA NewsOfTail ==
    ASSUME NEW R, NEW q \in Seq(R), q # <<>>, NEW f, NEW g, Count(q) # 0,
           \A app \in Named :
              app \in g <=> IF Names(Head(q), app) THEN Says(Head(q), app) ELSE app \in f
    PROVE  /\ NewsOf(q, f) # <<>>
           /\ NewsOf(Tail(q), g) = Tail(NewsOf(q, f))
           /\ \A app \in Named : app \in Head(NewsOf(q, f)) <=> app \in g
  <1> DEFINE t == Tail(q)
             n == Count(q)
  <1>1. /\ t \in Seq(R) /\ Len(q) \in Nat /\ Len(q) > 0 /\ Len(t) = Len(q) - 1
        /\ \A j \in 1..Len(t) : t[j] = q[j + 1]
    BY HeadTailProperties
  <1>2. n \in 0..Len(q) /\ n # 0
    BY CountType
  <1>3. Count(t) = n - 1
    <2> HIDE DEF t
    <2>1. CASE t = <<>>
      <3>1. Len(t) = 0
        BY <2>1
      <3>2. Count(t) = 0 /\ n = 1
        BY <1>1, <1>2, <2>1, <3>1 DEF Count
      <3> QED
        BY <3>2
    <2>2. CASE t # <<>>
      <3>1. Len(t) \in 1..Len(t)
        BY <1>1, <2>2
      <3>2. t[Len(t)] = q[Len(q)]
        <4>1. t[Len(t)] = q[Len(t) + 1]
          BY <1>1, <3>1
        <4>2. Len(t) + 1 = Len(q)
          BY <1>1
        <4> QED
          BY <4>1, <4>2
      <3> QED
        BY <1>1, <2>2, <3>2 DEF Count
    <2> QED
      BY <2>1, <2>2
  <1>4. ASSUME NEW i \in 1..Len(q)
        PROVE  After(q, f, i) = {app \in Named : Ends(SubSeq(t, 1, i - 1), g, app)}
    <2> DEFINE p == SubSeq(q, 1, i)
    <2>1. p \in Seq(R)
      BY <1>1, Prefix
    <2>2. p # <<>> /\ Head(p) = Head(q) /\ Tail(p) = SubSeq(t, 1, i - 1)
      BY PrefixOfTail
    <2> HIDE DEF p, t
    <2>3. \A app \in Named : Ends(p, f, app) <=> Ends(Tail(p), g, app)
      BY <2>1, <2>2, EndsOfTail
    <2> QED
      BY <2>2, <2>3 DEF After, p
  <1> HIDE DEF t
  <1>5. \A i \in 1..(n - 1) : i + 1 \in 1..Len(q) /\ After(t, g, i) = After(q, f, i + 1)
    <2> SUFFICES ASSUME NEW i \in 1..(n - 1)
                 PROVE  i + 1 \in 1..Len(q) /\ After(t, g, i) = After(q, f, i + 1)
      OBVIOUS
    <2>1. i + 1 \in 1..Len(q) /\ (i + 1) - 1 = i
      BY <1>2
    <2>2. After(q, f, i + 1) = {app \in Named : Ends(SubSeq(t, 1, (i + 1) - 1), g, app)}
      BY <1>4, <2>1
    <2> QED
      BY <2>1, <2>2 DEF After
  <1>6. \A app \in Named : app \in After(q, f, 1) <=> app \in g
    <2>1. 1 \in 1..Len(q) /\ 1 - 1 = 0 /\ 0 \in 0..Len(t)
      BY <1>1
    <2> DEFINE none == SubSeq(t, 1, 0)
    <2>2. none \in Seq(R) /\ Len(none) = 0
      BY <1>1, <2>1, Prefix
    <2>3. After(q, f, 1) = {app \in Named : Ends(SubSeq(t, 1, 1 - 1), g, app)}
      BY <1>4, <2>1
    <2>4. After(q, f, 1) = {app \in Named : Ends(none, g, app)}
      BY <2>1, <2>3
    <2> HIDE DEF none
    <2>5. ASSUME NEW app \in Named PROVE Ends(none, g, app) <=> app \in g
      <3>1. \A j \in 1..Len(none) : ~Names(none[j], app)
        BY <2>2
      <3> QED
        BY <2>2, <3>1, EndsUnnamed
    <2> QED
      BY <2>4, <2>5
  <1> DEFINE x == NewsOf(q, f)
             y == NewsOf(t, g)
  <1>7. /\ x \in Seq(SUBSET Named) /\ Len(x) = n /\ \A i \in 1..n : x[i] = After(q, f, i)
        /\ x # <<>>
    BY <1>2, CountType
  <1>8. /\ y \in Seq(SUBSET Named) /\ Len(y) = n - 1
        /\ \A i \in 1..(n - 1) : y[i] = After(t, g, i)
    BY <1>1, <1>3, CountType
  <1> HIDE DEF x, y
  <1>9. y = Tail(x)
    <2> DEFINE z == Tail(x)
    <2>1. z \in Seq(SUBSET Named) /\ Len(z) = n - 1 /\ \A i \in 1..Len(z) : z[i] = x[i + 1]
      BY <1>7, HeadTailProperties
    <2> HIDE DEF z
    <2>2. \A i \in 1..(n - 1) : y[i] = z[i]
      <3> SUFFICES ASSUME NEW i \in 1..(n - 1) PROVE y[i] = z[i]
        OBVIOUS
      <3>1. i + 1 \in 1..n /\ i \in 1..Len(z)
        BY <1>2, <2>1
      <3> QED
        BY <1>5, <1>7, <1>8, <2>1, <3>1
    <2>3. y = z
      BY <1>8, <2>1, <2>2, SeqEqual
    <2> QED
      BY <2>3 DEF z
  <1>10. Head(x) = After(q, f, 1)
    <2>1. Head(x) = x[1] /\ 1 \in 1..n
      BY <1>2, <1>7
    <2> QED
      BY <1>7, <2>1
  <1> QED
    BY <1>6, <1>7, <1>9, <1>10 DEF x, y, t
-----------------------------------------------------------------------------
\* What a step does to what is under way to a session and to what is filed for it.
SameFiles(s) == \A app \in AppIds : app \in Filed(s)' <=> app \in Filed(s)

NoFiles(s) == \A app \in AppIds : app \notin Filed(s)

StaysHeard(s) == s \in Heard' <=> s \in Heard

Quiet(s) == UnderWay(s)' = UnderWay(s) /\ StaysHeard(s) /\ SameFiles(s)

Lost(s) == UnderWay(s)' = <<>> /\ s \notin Heard' /\ NoFiles(s)'

Asked(s) ==
    /\ s \notin Heard /\ UnderWay(s) = <<>> /\ NoFiles(s) /\ NoFiles(s)'
    /\ \/ /\ s \in Heard'
          /\ \E items \in Listings(installed[s]) :
                UnderWay(s)' = <<[kind |-> "list", items |-> items]>>
       \/ s \notin Heard' /\ UnderWay(s)' = <<Refused>>

Hushed(s) ==
    /\ s \in Heard /\ s \notin Heard'
    /\ UnderWay(s)' = Append(UnderWay(s), Refused) /\ SameFiles(s)

Noted(s, r) ==
    /\ UnderWay(s)' = IF s \in Heard THEN Append(UnderWay(s), r) ELSE UnderWay(s)
    /\ StaysHeard(s) /\ SameFiles(s)

Delivered(s) ==
    LET r == Head(UnderWay(s)) IN
    /\ UnderWay(s) # <<>> /\ UnderWay(s)' = Tail(UnderWay(s)) /\ StaysHeard(s)
    /\ r.kind = "error" => SameFiles(s)
    /\ r.kind # "error" => \A app \in Named :
          app \in Filed(s)' <=>
              IF Names(r, app) THEN Says(r, app) \/ (r.kind = "list" /\ app \in Filed(s))
                               ELSE app \in Filed(s)

\* One session has news at a time, or some are lost, or an application changes.
OthersQuiet(u) == \A s \in OwnSessions \ {u} : Quiet(s)

SameApps == \A s \in OwnSessions : installed'[s] = installed[s]

OneMoves(u) == OthersQuiet(u) /\ SameApps /\ (Asked(u) \/ Hushed(u) \/ Delivered(u))

SomeLost == SameApps /\ \A s \in OwnSessions : Quiet(s) \/ Lost(s)

OneChanges(u, app, kind) ==
    /\ OthersQuiet(u) /\ Noted(u, [kind |-> kind, items |-> <<app>>])
    /\ \A s \in OwnSessions \ {u} : installed'[s] = installed[s]

Moves ==
    \/ SomeLost
    \/ \E u \in OwnSessions : OneMoves(u)
    \/ \E u \in OwnSessions, app \in AppIds, kind \in {"added", "removed", "updated"} :
          OneChanges(u, app, kind)

LEMMA OwnSession ==
    ASSUME NEW s \in OwnSessions
    PROVE  s \in SessionIds /\ Own(s) /\ GetSessionId(s) = s
  BY DEF OwnSessions, Own

\* What is under way to a session that exists, and to one that does not.
LEMMA WayOf ==
    ASSUME NEW s \in OwnSessions
    PROVE  /\ s \in DOMAIN sessions => /\ UnderWay(s) = sessions[s].listApps.replies
                                       /\ s \in Heard <=> sessions[s].listApps.served
           /\ s \notin DOMAIN sessions => UnderWay(s) = <<>> /\ s \notin Heard
           /\ s \in DOMAIN sessions' => /\ UnderWay(s)' = sessions'[s].listApps.replies
                                        /\ s \in Heard' <=> sessions'[s].listApps.served
           /\ s \notin DOMAIN sessions' => UnderWay(s)' = <<>> /\ s \notin Heard'
  BY DEF UnderWay, Heard

LEMMA WayType ==
    ASSUME NEW s \in OwnSessions
    PROVE  TypeOK => /\ UnderWay(s) \in Seq(AppReplies)
                     /\ s \in DOMAIN sessions => sessions[s].listApps \in CallRec(AppReplies)
  <1> SUFFICES ASSUME TypeOK
               PROVE  /\ UnderWay(s) \in Seq(AppReplies)
                      /\ s \in DOMAIN sessions => sessions[s].listApps \in CallRec(AppReplies)
    OBVIOUS
  <1>1. CASE s \in DOMAIN sessions
    <2>1. sessions[s].listApps \in CallRec(AppReplies)
      BY <1>1 DEF TypeOK, SessionRec
    <2>2. sessions[s].listApps.replies \in Seq(AppReplies)
      BY <2>1 DEF CallRec
    <2> QED
      BY <1>1, <2>1, <2>2, WayOf
  <1>2. CASE s \notin DOMAIN sessions
    <2>1. UnderWay(s) = <<>>
      BY <1>2, WayOf
    <2> QED
      BY <1>2, <2>1
  <1> QED
    BY <1>1, <1>2

\* A session and a listing that a step does not touch.
LEMMA QuietWhen ==
    ASSUME NEW s \in OwnSessions, s \in DOMAIN sessions' <=> s \in DOMAIN sessions,
           s \in DOMAIN sessions => sessions'[s].listApps = sessions[s].listApps,
           SameFiles(s)
    PROVE  Quiet(s)
  BY WayOf DEF Quiet, StaysHeard

\* A listing that is not live has nothing under way, and nothing is filed from it.
DeadIsEmpty ==
    \A s \in OwnSessions : ~Live(s) => UnderWay(s) = <<>> /\ s \notin Heard /\ NoFiles(s)

LEMMA NotListening == TypeOK /\ NoOrphanHandlers => DeadIsEmpty
  <1> SUFFICES ASSUME TypeOK, NoOrphanHandlers, NEW s \in OwnSessions, ~Live(s)
               PROVE  UnderWay(s) = <<>> /\ s \notin Heard /\ NoFiles(s)
    BY DEF DeadIsEmpty
  <1>1. NoFiles(s)
    BY OwnSession, DeadFiled DEF NoFiles
  <1>2. s \in DOMAIN sessions => sessions[s].listApps = NoCall
    BY WayType DEF Live, CallRec
  <1>3. NoCall.replies = <<>> /\ NoCall.served = FALSE
    BY DEF NoCall
  <1> QED
    BY <1>1, <1>2, <1>3, WayOf

LEMMA LostWhen ==
    ASSUME NEW s \in OwnSessions
    PROVE  TypeOK' /\ NoOrphanHandlers' /\ ~Live(s)' => Lost(s)
  <1>1. TypeOK' /\ NoOrphanHandlers' => DeadIsEmpty'
    BY NotListening, PTL
  <1> QED
    BY <1>1 DEF DeadIsEmpty, Lost
-----------------------------------------------------------------------------
\* Account's handlers lose sessions, and leave the others alone.
LEMMA MovesAccount ==
    ASSUME TypeOK, TypeOK', NoOrphanHandlers', AccountStatusChanged \/ OnGetSessions \/ Restart
    PROVE  SomeLost
  <1>1. SameApps
    BY DEF AccountStatusChanged, OnGetSessions, Restart, external, services, SameApps
  <1>2. SUFFICES ASSUME NEW s \in OwnSessions PROVE Quiet(s) \/ Lost(s)
    BY <1>1 DEF SomeLost
  <1>3. ~Live(s)' => Lost(s)
    BY LostWhen
  <1>4. CASE AccountStatusChanged
    <2>1. DOMAIN <<>> = {}
      OBVIOUS
    <2>2. DOMAIN sessions' = {}
      BY <1>4, <2>1 DEF AccountStatusChanged
    <2> QED
      BY <1>3, <2>2 DEF Live
  <1>5. CASE OnGetSessions
    <2> DEFINE reply == Head(getSessions.replies)
    <2>1. CASE reply.kind = "error"
      <3>1. sessions' = sessions /\ handlers' = handlers
        BY <1>5, <2>1, SessionsListed
      <3>2. SameFiles(s)
        BY <3>1 DEF SameFiles, Filed
      <3> QED
        BY <3>1, <3>2, QuietWhen
    <2>2. CASE reply.kind # "error"
      <3>1. /\ DOMAIN sessions' = reply.items
            /\ \A u \in DOMAIN sessions' :
                  IF u \in DOMAIN sessions THEN sessions'[u] = sessions[u]
                                           ELSE sessions'[u] \in NewSessions(u)
            /\ handlers' = WithoutHandlersOf(DOMAIN sessions \ reply.items)
        BY <1>5, <2>2, SessionsListed
      <3> HIDE DEF reply
      <3>2. CASE s \in DOMAIN sessions /\ s \in DOMAIN sessions'
        <4>1. /\ \A k \in DOMAIN handlers' :
                    handlers'[k].sessionId = GetSessionId(s) =>
                        k \in DOMAIN handlers /\ handlers[k] = handlers'[k]
              /\ \A k \in DOMAIN handlers :
                    handlers[k].sessionId = GetSessionId(s) =>
                        k \in DOMAIN handlers' /\ handlers'[k] = handlers[k]
          BY <3>1, <3>2, OwnSession, SessionsErased
        <4>2. SameFiles(s)
          BY <4>1, FiledSame DEF SameFiles
        <4> QED
          BY <3>1, <3>2, <4>2, QuietWhen
      <3>3. CASE s \notin DOMAIN sessions /\ s \in DOMAIN sessions'
        <4>1. sessions'[s] \in NewSessions(s)
          BY <3>1, <3>3
        <4>2. ~sessions'[s].listApps.live
          BY <4>1, NewSessionType DEF NoCall
        <4> QED
          BY <1>3, <4>2 DEF Live
      <3>4. CASE s \notin DOMAIN sessions'
        BY <1>3, <3>4 DEF Live
      <3> QED
        BY <3>2, <3>3, <3>4
    <2> QED
      BY <2>1, <2>2
  <1>6. CASE Restart
    <2>1. PICK watched \in BOOLEAN : sessions' = FirstSessions(watched)
      BY <1>6, WatchesType DEF Restart
    <2>2. ~Live(s)'
      <3>1. CASE EnableSession
        <4>1. DOMAIN <<>> = {}
          OBVIOUS
        <4>2. DOMAIN sessions' = {}
          BY <2>1, <3>1, <4>1 DEF FirstSessions
        <4> QED
          BY <4>2 DEF Live
      <3>2. CASE ~EnableSession
        <4>1. s \in DOMAIN sessions' => ~sessions'[s].listApps.live
          BY <2>1, <3>2 DEF FirstSessions, NewSession, NoCall
        <4> QED
          BY <4>1 DEF Live
      <3> QED
        BY <3>1, <3>2
    <2> QED
      BY <1>3, <2>2
  <1> QED
    BY <1>4, <1>5, <1>6

\* The account service says nothing to the sessions.
LEMMA MovesAccountService ==
    ASSUME TypeOK, AccountGoes \/ AccountComes \/ UsersChange \/ UNCHANGED vars
    PROVE  SomeLost
  <1>1. sessions' = sessions /\ handlers' = handlers /\ installed' = installed
    BY DEF AccountGoes, AccountComes, UsersChange, vars, external, services
  <1>2. \A s : SameFiles(s)
    BY <1>1 DEF SameFiles, Filed
  <1>3. \A s \in OwnSessions : Quiet(s)
    BY <1>1, <1>2, QuietWhen
  <1> QED
    BY <1>1, <1>3 DEF SomeLost, SameApps

\* What a call that is made gets.
LEMMA CallIs ==
    ASSUME NEW up, NEW first, NEW call \in LSCalls(up, first)
    PROVE  \/ call = NoCall
           \/ call.live /\ call.served /\ \E r \in first : call.replies = <<r>>
           \/ call.live /\ ~call.served /\ call.replies = <<Refused>>
  BY DEF LSCalls, Calls

\* SAM::onServerStatusChanged keeps the listing, asks for it, or loses it.
LEMMA SamAsks ==
    ASSUME TypeOK, NEW u \in OwnSessions, SamStatusChanged(u)
    PROVE  /\ u \in DOMAIN sessions /\ u \in DOMAIN sessions'
           /\ \/ sessions'[u].listApps = sessions[u].listApps /\ handlers' = handlers
              \/ ~sessions'[u].listApps.live
              \/ /\ ~Live(u) /\ handlers' = handlers
                 /\ \/ /\ sessions'[u].listApps.served
                       /\ \E items \in Listings(installed[u]) :
                             sessions'[u].listApps.replies =
                                 <<[kind |-> "list", items |-> items]>>
                    \/ /\ ~sessions'[u].listApps.served
                       /\ sessions'[u].listApps.replies = <<Refused>>
  <1> DEFINE lists == {[kind |-> "list", items |-> q] : q \in Listings(installed[u])}
             calls == IF sessions[u].listApps.live THEN {sessions[u].listApps}
                                                   ELSE LSCalls(u \in samUp, lists)
             Update(call) == [watched |-> sessions[u].watched, status |-> Tail(sessions[u].status),
                              listApps |-> call]
  <1>1. u \in DOMAIN sessions
    BY DEF SamStatusChanged
  <1>2. \A call : sessions' = [sessions EXCEPT ![u] = Update(call)] =>
                      u \in DOMAIN sessions' /\ sessions'[u].listApps = call
    BY <1>1
  <1>3. \/ /\ \E call \in calls : sessions' = [sessions EXCEPT ![u] = Update(call)]
           /\ handlers' = handlers
        \/ sessions' = [sessions EXCEPT ![u] = Update(NoCall)]
    BY DEF SamStatusChanged
  <1>4. \A r \in lists : \E items \in Listings(installed[u]) : r = [kind |-> "list", items |-> items]
    OBVIOUS
  <1>5. ~NoCall.live
    BY DEF NoCall
  <1>6. ASSUME NEW call \in calls
        PROVE  \/ call = sessions[u].listApps \/ ~call.live
               \/ /\ ~Live(u)
                  /\ \/ call.served /\ \E r \in lists : call.replies = <<r>>
                     \/ ~call.served /\ call.replies = <<Refused>>
    <2>1. CASE ~sessions[u].listApps.live
      <3>1. call \in LSCalls(u \in samUp, lists)
        BY <2>1
      <3> HIDE DEF lists, calls
      <3> QED
        BY <1>5, <2>1, <3>1, CallIs DEF Live
    <2>2. CASE sessions[u].listApps.live
      BY <2>2
    <2> QED
      BY <2>1, <2>2
  <1> HIDE DEF lists, calls, Update
  <1>7. CASE sessions' = [sessions EXCEPT ![u] = Update(NoCall)]
    BY <1>1, <1>2, <1>5, <1>7
  <1>8. ASSUME NEW call \in calls, sessions' = [sessions EXCEPT ![u] = Update(call)],
               handlers' = handlers
        PROVE  \/ sessions'[u].listApps = sessions[u].listApps
               \/ ~sessions'[u].listApps.live
               \/ /\ ~Live(u)
                  /\ \/ /\ sessions'[u].listApps.served
                        /\ \E items \in Listings(installed[u]) :
                              sessions'[u].listApps.replies =
                                  <<[kind |-> "list", items |-> items]>>
                     \/ /\ ~sessions'[u].listApps.served
                        /\ sessions'[u].listApps.replies = <<Refused>>
    <2>1. sessions'[u].listApps = call
      BY <1>2, <1>8
    <2> QED
      BY <1>4, <1>6, <2>1
  <1> QED
    BY <1>1, <1>2, <1>3, <1>7, <1>8
LEMMA MovesSam ==
    ASSUME TypeOK, TypeOK', NoOrphanHandlers, NoOrphanHandlers',
           NEW u \in SessionIds, SamStatusChanged(u)
    PROVE  SomeLost \/ \E s \in OwnSessions : OneMoves(s)
  <1>1. SameApps
    BY DEF SamStatusChanged, external, services, SameApps
  <1>2. PICK x : /\ u \in DOMAIN sessions /\ sessions' = [sessions EXCEPT ![u] = x]
                 /\ handlers' = handlers \/ handlers' = RemoveBySessionId(handlers, u)
    BY SamTold
  <1>3. DOMAIN sessions' = DOMAIN sessions /\ \A s \in DOMAIN sessions : s # u => sessions'[s] = sessions[s]
    BY <1>2
  <1>4. handlers' = handlers => \A s : SameFiles(s)
    BY DEF SameFiles, Filed
  <1>5. OthersQuiet(u)
    <2> SUFFICES ASSUME NEW s \in OwnSessions, s # u PROVE Quiet(s)
      BY DEF OthersQuiet
    <2>1. SameFiles(s)
      <3>1. CASE handlers' = handlers
        BY <1>4, <3>1
      <3>2. CASE handlers' = RemoveBySessionId(handlers, u)
        <4>1. /\ \A k \in DOMAIN handlers' :
                    handlers'[k].sessionId = GetSessionId(s) =>
                        k \in DOMAIN handlers /\ handlers[k] = handlers'[k]
              /\ \A k \in DOMAIN handlers :
                    handlers[k].sessionId = GetSessionId(s) =>
                        k \in DOMAIN handlers' /\ handlers'[k] = handlers[k]
          BY <3>2, OwnSession, SessionErased
        <4> QED
          BY <4>1, FiledSame DEF SameFiles
      <3> QED
        BY <1>2, <3>1, <3>2
    <2> QED
      BY <1>3, <2>1, QuietWhen
  <1>6. CASE u \notin OwnSessions
    BY <1>1, <1>5, <1>6 DEF OthersQuiet, SomeLost
  <1>7. CASE u \in OwnSessions
    <2>1. /\ u \in DOMAIN sessions /\ u \in DOMAIN sessions'
          /\ \/ sessions'[u].listApps = sessions[u].listApps /\ handlers' = handlers
             \/ ~sessions'[u].listApps.live
             \/ /\ ~Live(u) /\ handlers' = handlers
                /\ \/ /\ sessions'[u].listApps.served
                      /\ \E items \in Listings(installed[u]) :
                            sessions'[u].listApps.replies =
                                <<[kind |-> "list", items |-> items]>>
                   \/ /\ ~sessions'[u].listApps.served
                      /\ sessions'[u].listApps.replies = <<Refused>>
      BY <1>7, SamAsks
    <2>2. CASE sessions'[u].listApps = sessions[u].listApps /\ handlers' = handlers
      <3>1. Quiet(u)
        BY <1>4, <1>7, <2>1, <2>2, QuietWhen
      <3> QED
        BY <1>1, <1>5, <3>1 DEF OthersQuiet, SomeLost
    <2>3. CASE ~sessions'[u].listApps.live
      <3>1. Lost(u)
        BY <1>7, <2>3, LostWhen DEF Live
      <3> QED
        BY <1>1, <1>5, <3>1 DEF OthersQuiet, SomeLost
    <2>4. CASE /\ ~Live(u) /\ handlers' = handlers
               /\ \/ /\ sessions'[u].listApps.served
                     /\ \E items \in Listings(installed[u]) :
                           sessions'[u].listApps.replies =
                               <<[kind |-> "list", items |-> items]>>
                  \/ /\ ~sessions'[u].listApps.served
                     /\ sessions'[u].listApps.replies = <<Refused>>
      <3>1. UnderWay(u) = <<>> /\ u \notin Heard /\ NoFiles(u)
        BY <1>7, <2>4, NotListening DEF DeadIsEmpty
      <3>2. NoFiles(u)'
        BY <1>4, <2>4, <3>1 DEF NoFiles, SameFiles
      <3>3. Asked(u)
        BY <1>7, <2>1, <2>4, <3>1, <3>2, WayOf DEF Asked
      <3> QED
        BY <1>1, <1>5, <1>7, <3>3 DEF OneMoves
    <2> QED
      BY <2>1, <2>2, <2>3, <2>4
  <1> QED
    BY <1>6, <1>7

\* SAM::onListApps delivers the next reply.
LEMMA MovesListApps ==
    ASSUME TypeOK, TypeOK', NEW u \in SessionIds, OnListApps(u)
    PROVE  SomeLost \/ \E s \in OwnSessions : OneMoves(s)
  <1>1. SameApps
    BY DEF OnListApps, external, services, SameApps
  <1> DEFINE call == sessions[u].listApps
  <1>2. /\ u \in DOMAIN sessions /\ call.replies # <<>>
        /\ sessions' = [sessions EXCEPT ![u] = [sessions[u] EXCEPT
                            !.listApps = [sessions[u].listApps EXCEPT !.replies = Tail(@)]]]
    BY AppsListed
  <1>3. DOMAIN sessions' = DOMAIN sessions /\ \A s \in DOMAIN sessions : s # u => sessions'[s] = sessions[s]
    BY <1>2
  <1>4. OthersQuiet(u)
    <2> SUFFICES ASSUME NEW s \in OwnSessions, s # u PROVE Quiet(s)
      BY DEF OthersQuiet
    <2>1. GetSessionId(s) # GetSessionId(u)
      BY OwnSession, OwnIds
    <2>2. SameFiles(s)
      <3> SUFFICES ASSUME NEW app \in AppIds PROVE app \in Filed(s)' <=> app \in Filed(s)
        BY DEF SameFiles
      <3>1. Key(s, app) \in DOMAIN handlers' <=> Key(s, app) \in DOMAIN handlers
        BY <2>1, OwnSession, ListAppsKeys
      <3> QED
        BY <3>1, OwnSession, FiledKeys
    <2> QED
      BY <1>3, <2>2, QuietWhen
  <1>5. CASE u \notin OwnSessions
    BY <1>1, <1>4, <1>5 DEF OthersQuiet, SomeLost
  <1>6. CASE u \in OwnSessions
    <2>1. sessions[u] \in SessionRec /\ call \in CallRec(AppReplies)
      BY <1>2, <1>6, WayType DEF TypeOK
    <2>2. sessions'[u].listApps = [call EXCEPT !.replies = Tail(@)]
      BY <1>2, <2>1 DEF SessionRec
    <2> HIDE DEF call
    <2>3. /\ sessions'[u].listApps.replies = Tail(call.replies)
          /\ sessions'[u].listApps.served = call.served
      BY <1>2, <2>1, <2>2, DeliverType
    <2>4. UnderWay(u) = call.replies /\ (u \in Heard <=> call.served)
      BY <1>2, <1>6, WayOf DEF call
    <2>5. UnderWay(u)' = Tail(UnderWay(u)) /\ StaysHeard(u) /\ UnderWay(u) # <<>>
      BY <1>2, <1>3, <1>6, <2>3, <2>4, WayOf DEF StaysHeard
    <2>6. PICK r : r = Head(UnderWay(u))
      OBVIOUS
    <2>7. r = Head(sessions[u].listApps.replies)
      BY <2>4, <2>6 DEF call
    <2>8. r.kind = "error" => SameFiles(u)
      <3>1. r.kind = "error" => handlers' = handlers
        BY <2>7 DEF OnListApps
      <3> QED
        BY <3>1 DEF SameFiles, Filed
    <2>9. ASSUME r.kind # "error", NEW app \in Named
          PROVE  app \in Filed(u)' <=>
                    IF Names(r, app) THEN Says(r, app) \/ (r.kind = "list" /\ app \in Filed(u))
                                     ELSE app \in Filed(u)
      <3>1. app \in AppIds /\ app # ""
        BY DEF Named
      <3>2. /\ app \in Filed(u) <=> Key(u, app) \in DOMAIN handlers
            /\ app \in Filed(u)' <=> Key(u, app) \in DOMAIN handlers'
        BY <3>1, FiledKeys
      <3>3. Key(u, app) \in DOMAIN handlers' <=>
               IF Names(r, app)
               THEN Says(r, app) \/ (r.kind = "list" /\ Key(u, app) \in DOMAIN handlers)
               ELSE Key(u, app) \in DOMAIN handlers
        BY <2>7, <2>9, <3>1, ListAppsKeys
      <3> QED
        BY <3>2, <3>3
    <2>10. Delivered(u)
      BY <2>5, <2>6, <2>8, <2>9 DEF Delivered
    <2> QED
      BY <1>1, <1>4, <1>6, <2>10 DEF OneMoves
  <1> QED
    BY <1>5, <1>6
\* An application manager goes, comes, or says what changed.
LEMMA MovesManager ==
    ASSUME TypeOK, NEW u \in SessionIds,
           \/ SamGoes(u) \/ SamComes(u)
           \/ \E app \in AppIds : Install(u, app) \/ Uninstall(u, app) \/ Upgrade(u, app)
    PROVE  Moves
  <1>1. \/ SamGoes(u) \/ SamComes(u)
        \/ \E app \in AppIds, kind \in {"added", "removed", "updated"} : Tell(u, kind, app)
    BY DEF Install, Uninstall, Upgrade
  <1>2. /\ handlers' = handlers /\ DOMAIN sessions' = DOMAIN sessions
        /\ \A s \in DOMAIN sessions : s # u => sessions'[s] = sessions[s]
    BY <1>1, ManagerSays
  <1>3. \A s : SameFiles(s)
    BY <1>2 DEF SameFiles, Filed
  <1>4. OthersQuiet(u)
    BY <1>2, <1>3, QuietWhen DEF OthersQuiet
  <1>5. installed \in [SessionIds -> SUBSET AppIds]
    BY DEF TypeOK
  <1>6. \A s \in SessionIds : s # u => installed'[s] = installed[s]
    BY <1>5 DEF SamGoes, SamComes, Install, Uninstall, Upgrade, Tell
  <1>7. \A s \in OwnSessions \ {u} : installed'[s] = installed[s]
    BY <1>6, OwnSession
  <1>8. CASE u \notin OwnSessions
    BY <1>4, <1>7, <1>8 DEF OthersQuiet, SomeLost, SameApps, Moves
  <1>9. CASE u \in OwnSessions
    <2>1. CASE SamGoes(u) \/ SamComes(u)
      <3>1. SameApps
        BY <2>1 DEF SamGoes, SamComes, SameApps
      <3>2. SUFFICES Quiet(u) \/ Hushed(u)
        <4>1. Quiet(u) => SomeLost
          BY <1>4, <3>1 DEF OthersQuiet, SomeLost
        <4>2. Hushed(u) => OneMoves(u)
          BY <1>4, <3>1 DEF OneMoves
        <4> QED
          BY <1>9, <4>1, <4>2 DEF Moves
      <3>3. CASE u \notin DOMAIN sessions
        BY <1>2, <1>3, <1>9, <3>3, QuietWhen
      <3>4. CASE u \in DOMAIN sessions
        <4> DEFINE call == sessions[u].listApps
        <4>1. \A x : sessions' = ForSession(u, x) => sessions'[u] = x
          BY <3>4 DEF ForSession
        <4>2. CASE SamComes(u)
          <5>1. sessions'[u] =
                    [watched  |-> sessions[u].watched,
                     status   |-> Told(sessions[u].watched, sessions[u].status, TRUE),
                     listApps |-> call]
            BY <4>1, <4>2 DEF SamComes
          <5>2. sessions'[u].listApps = call
            BY <5>1
          <5> QED
            BY <1>2, <1>3, <1>9, <5>2, QuietWhen
        <4>3. CASE SamGoes(u)
          <5>1. sessions'[u] =
                    [watched  |-> sessions[u].watched,
                     status   |-> Told(sessions[u].watched, sessions[u].status, FALSE),
                     listApps |-> Dead(call)]
            BY <4>1, <4>3 DEF SamGoes
          <5>2. sessions'[u].listApps = Dead(call)
            BY <5>1
          <5>3. CASE ~call.served
            <6>1. Dead(call) = call
              BY <5>3 DEF Dead
            <6> QED
              BY <1>2, <1>3, <1>9, <5>2, <6>1, QuietWhen
          <5>4. CASE call.served
            <6>1. Dead(call).served = FALSE /\ Dead(call).replies = Append(call.replies, Refused)
              BY <5>4 DEF Dead
            <6> HIDE DEF call
            <6>2. /\ u \in Heard <=> call.served
                  /\ UnderWay(u) = call.replies
                  /\ u \in Heard' <=> Dead(call).served
                  /\ UnderWay(u)' = Dead(call).replies
              BY <1>2, <1>9, <3>4, <5>2, WayOf DEF call
            <6>3. Hushed(u)
              BY <1>3, <5>4, <6>1, <6>2 DEF Hushed
            <6> QED
              BY <6>3
          <5> QED
            BY <5>3, <5>4
        <4> QED
          BY <2>1, <4>2, <4>3
      <3> QED
        BY <3>3, <3>4
    <2>2. ASSUME NEW app \in AppIds, NEW kind \in {"added", "removed", "updated"},
                 Tell(u, kind, app)
          PROVE  Moves
      <3> DEFINE r == [kind |-> kind, items |-> <<app>>]
      <3>2. Noted(u, r)
        <4>1. CASE u \notin DOMAIN sessions
          <5>1. Quiet(u) /\ u \notin Heard
            BY <1>2, <1>3, <1>9, <4>1, QuietWhen, WayOf
          <5> QED
            BY <5>1 DEF Noted, Quiet
        <4>2. CASE u \in DOMAIN sessions
          <5> DEFINE call == sessions[u].listApps
          <5>1. r \in AppReplies
            BY AppReplyTypes
          <5>2. sessions'[u].listApps = Push(call, r)
            BY <2>2, <4>2, ManagerTells
          <5>3. call \in CallRec(AppReplies)
            BY <1>9, <4>2, WayType
          <5> HIDE DEF call, r
          <5>4. /\ Push(call, r).served = call.served
                /\ call.served => Push(call, r).replies = Append(call.replies, r)
                /\ ~call.served => Push(call, r) = call
            BY <5>1, <5>3, PushType
          <5>5. /\ u \in Heard <=> call.served
                /\ UnderWay(u) = call.replies
                /\ u \in Heard' <=> Push(call, r).served
                /\ UnderWay(u)' = Push(call, r).replies
            BY <1>2, <1>9, <4>2, <5>2, WayOf DEF call
          <5> QED
            BY <1>3, <5>4, <5>5 DEF Noted, StaysHeard
        <4> QED
          BY <4>1, <4>2
      <3>3. OneChanges(u, app, kind)
        BY <1>4, <1>7, <3>2 DEF OneChanges
      <3> QED
        BY <1>9, <3>3 DEF Moves
    <2> QED
      BY <1>1, <2>1, <2>2
  <1> QED
    BY <1>8, <1>9

\* Every step is one of these.
LEMMA MovesNext ==
    ASSUME TypeOK, TypeOK', NoOrphanHandlers, NoOrphanHandlers', [Next]_vars
    PROVE  Moves
  <1>1. ASSUME NEW u \in SessionIds, SamStatusChanged(u) \/ OnListApps(u)
        PROVE  Moves
    BY <1>1, MovesSam, MovesListApps DEF Moves
  <1>2. ASSUME NEW u \in SessionIds,
               \/ SamGoes(u) \/ SamComes(u)
               \/ \E app \in AppIds : Install(u, app) \/ Uninstall(u, app) \/ Upgrade(u, app)
        PROVE  Moves
    BY <1>2, MovesManager
  <1>3. CASE AccountStatusChanged \/ OnGetSessions \/ Restart
    BY <1>3, MovesAccount DEF Moves
  <1>4. CASE AccountGoes \/ AccountComes \/ UsersChange \/ UNCHANGED vars
    BY <1>4, MovesAccountService DEF Moves
  <1> QED
    BY <1>1, <1>2, <1>3, <1>4 DEF Next, Service
-----------------------------------------------------------------------------
\* An error is the last reply under way and nobody serves the listing any longer; a
\* list is the first, and nothing of the session is filed yet.
InOrder(s) ==
    LET queue == UnderWay(s) IN
    \A i \in 1..Len(queue) :
        /\ queue[i].kind = "error" => i = Len(queue) /\ s \notin Heard
        /\ queue[i].kind = "list" => i = 1 /\ NoFiles(s)

Orderly == \A s \in OwnSessions : InOrder(s)

LEMMA NoFilesSame ==
    ASSUME NEW s, SameFiles(s)
    PROVE  NoFiles(s)' <=> NoFiles(s)
  BY DEF SameFiles, NoFiles

\* One more reply.
LEMMA InOrderAppend ==
    ASSUME NEW s \in OwnSessions, TypeOK, InOrder(s), NEW r \in AppReplies, s \in Heard,
           UnderWay(s)' = Append(UnderWay(s), r), SameFiles(s),
           r.kind # "list", r.kind = "error" => s \notin Heard'
    PROVE  InOrder(s)'
  <1> DEFINE q == UnderWay(s)
             a == Append(q, r)
  <1>1. q \in Seq(AppReplies)
    BY WayType
  <1>2. \A i \in 1..Len(q) : q[i].kind # "error" /\ (q[i].kind = "list" => i = 1 /\ NoFiles(s))
    BY DEF InOrder
  <1> HIDE DEF q
  <1>3. /\ Len(q) \in Nat /\ Len(a) = Len(q) + 1 /\ a[Len(q) + 1] = r
        /\ \A i \in 1..Len(q) : a[i] = q[i]
    BY <1>1
  <1>4. UnderWay(s)' = a
    BY DEF q
  <1> HIDE DEF a
  <1>5. ASSUME NEW i \in 1..Len(a)
        PROVE  /\ a[i].kind = "error" => i = Len(a) /\ s \notin Heard'
               /\ a[i].kind = "list" => i = 1 /\ NoFiles(s)'
    <2>1. CASE i = Len(q) + 1
      BY <1>3, <2>1
    <2>2. CASE i # Len(q) + 1
      <3>1. i \in 1..Len(q)
        BY <1>3, <2>2
      <3> QED
        BY <1>2, <1>3, <3>1, NoFilesSame
    <2> QED
      BY <2>1, <2>2
  <1> QED
    BY <1>4, <1>5 DEF InOrder

LEMMA InOrderStep ==
    ASSUME NEW s \in OwnSessions, TypeOK, InOrder(s),
           \/ Quiet(s) \/ Lost(s) \/ Asked(s) \/ Hushed(s) \/ Delivered(s)
           \/ \E app \in AppIds, kind \in {"added", "removed", "updated"} :
                 Noted(s, [kind |-> kind, items |-> <<app>>])
    PROVE  InOrder(s)'
  <1> DEFINE q == UnderWay(s)
  <1>1. q \in Seq(AppReplies)
    BY WayType
  <1>2. CASE Quiet(s)
    <2>1. NoFiles(s)' <=> NoFiles(s)
      BY <1>2, NoFilesSame DEF Quiet
    <2> QED
      BY <1>2, <2>1 DEF InOrder, Quiet, StaysHeard
  <1>3. CASE Lost(s)
    <2>1. Len(UnderWay(s)') = 0
      BY <1>3 DEF Lost
    <2> QED
      BY <2>1 DEF InOrder
  <1>4. CASE Asked(s)
    <2>1. ASSUME NEW r, UnderWay(s)' = <<r>>, r.kind = "error" => s \notin Heard'
          PROVE  InOrder(s)'
      <3>1. Len(UnderWay(s)') = 1 /\ UnderWay(s)'[1] = r /\ NoFiles(s)'
        BY <1>4, <2>1 DEF Asked
      <3> QED
        BY <2>1, <3>1 DEF InOrder
    <2>2. CASE s \notin Heard' /\ UnderWay(s)' = <<Refused>>
      BY <2>1, <2>2
    <2>3. CASE /\ s \in Heard'
               /\ \E items \in Listings(installed[s]) :
                     UnderWay(s)' = <<[kind |-> "list", items |-> items]>>
      <3>1. PICK items : UnderWay(s)' = <<[kind |-> "list", items |-> items]>>
        BY <2>3
      <3> QED
        BY <2>1, <3>1
    <2> QED
      BY <1>4, <2>2, <2>3 DEF Asked
  <1>5. CASE Hushed(s)
    <2>1. Refused \in AppReplies /\ Refused.kind = "error"
      BY AppReplyTypes DEF Refused
    <2> QED
      BY <1>5, <2>1, InOrderAppend DEF Hushed
  <1>6. CASE Delivered(s)
    <2> DEFINE t == Tail(q)
    <2>1. q # <<>> /\ UnderWay(s)' = t /\ (s \in Heard' <=> s \in Heard)
      BY <1>6 DEF Delivered, StaysHeard
    <2>2. \A i \in 1..Len(q) : /\ q[i].kind = "error" => i = Len(q) /\ s \notin Heard
                               /\ q[i].kind = "list" => i = 1
      BY DEF InOrder
    <2> HIDE DEF q
    <2>3. Len(q) \in Nat /\ Len(t) = Len(q) - 1 /\ \A i \in 1..Len(t) : t[i] = q[i + 1]
      BY <1>1, <2>1, HeadTailProperties
    <2> HIDE DEF t
    <2>4. \A i \in 1..Len(t) : i + 1 \in 1..Len(q) /\ i + 1 # 1 /\ (i + 1 = Len(q) => i = Len(t))
      BY <2>3
    <2>5. \A i \in 1..Len(t) : /\ t[i].kind = "error" => i = Len(t) /\ s \notin Heard'
                               /\ t[i].kind # "list"
      BY <2>1, <2>2, <2>3, <2>4
    <2> QED
      BY <2>1, <2>5 DEF InOrder
  <1>7. ASSUME NEW app \in AppIds, NEW kind \in {"added", "removed", "updated"},
               Noted(s, [kind |-> kind, items |-> <<app>>])
        PROVE  InOrder(s)'
    <2> DEFINE r == [kind |-> kind, items |-> <<app>>]
    <2>1. r \in AppReplies
      BY AppReplyTypes
    <2>2. r.kind # "list" /\ r.kind # "error"
      OBVIOUS
    <2> HIDE DEF r
    <2>3. CASE s \in Heard
      <3>1. UnderWay(s)' = Append(UnderWay(s), r) /\ SameFiles(s)
        BY <1>7, <2>3 DEF Noted, r
      <3> QED
        BY <2>1, <2>2, <2>3, <3>1, InOrderAppend
    <2>4. CASE s \notin Heard
      <3>1. Quiet(s)
        BY <1>7, <2>4 DEF Noted, Quiet
      <3> QED
        BY <1>2, <3>1
    <2> QED
      BY <2>3, <2>4
  <1> QED
    BY <1>2, <1>3, <1>4, <1>5, <1>6, <1>7

LEMMA OrderlyNext ==
    TypeOK /\ NoOrphanHandlers /\ Orderly /\ TypeOK' /\ NoOrphanHandlers' /\ [Next]_vars
        => Orderly'
  <1> SUFFICES ASSUME TypeOK, NoOrphanHandlers, Orderly, TypeOK', NoOrphanHandlers', [Next]_vars,
                      NEW s \in OwnSessions
               PROVE  InOrder(s)'
    <2>1. OwnSessions' = OwnSessions
      BY DEF OwnSessions, Own, GetSessionId
    <2> QED
      BY <2>1 DEF Orderly
  <1>1. Moves /\ InOrder(s)
    BY MovesNext DEF Orderly
  <1>2. CASE SomeLost
    BY <1>1, <1>2, InOrderStep DEF SomeLost
  <1>3. ASSUME NEW u \in OwnSessions, OneMoves(u) PROVE InOrder(s)'
    <2>1. CASE s = u
      BY <1>1, <1>3, <2>1, InOrderStep DEF OneMoves
    <2>2. CASE s # u
      <3>1. Quiet(s)
        BY <1>3, <2>2 DEF OneMoves, OthersQuiet
      <3> QED
        BY <1>1, <3>1, InOrderStep
    <2> QED
      BY <2>1, <2>2
  <1>4. ASSUME NEW u \in OwnSessions, NEW app \in AppIds,
               NEW kind \in {"added", "removed", "updated"}, OneChanges(u, app, kind)
        PROVE  InOrder(s)'
    <2>1. CASE s = u
      BY <1>1, <1>4, <2>1, InOrderStep DEF OneChanges
    <2>2. CASE s # u
      <3>1. Quiet(s)
        BY <1>4, <2>2 DEF OneChanges, OthersQuiet
      <3> QED
        BY <1>1, <3>1, InOrderStep
    <2> QED
      BY <2>1, <2>2
  <1> QED
    BY <1>1, <1>2, <1>3, <1>4 DEF Moves

\* Nothing is under way to a process that has just started, and nothing is filed.
FreshShows ==
    \A s \in OwnSessions : UnderWay(s) = <<>> /\ s \notin Heard /\ Filed(s) = {}

LEMMA FreshCatalog == Fresh => FreshShows /\ Orderly
  <1> SUFFICES ASSUME Fresh PROVE FreshShows /\ Orderly
    OBVIOUS
  <1>1. DOMAIN <<>> = {}
    OBVIOUS
  <1>2. \A s : Filed(s) = {}
    BY <1>1 DEF Fresh, Filed
  <1>3. \A s \in DOMAIN sessions : sessions[s].listApps = NoCall
    <2> SUFFICES ASSUME NEW s \in DOMAIN sessions PROVE sessions[s].listApps = NoCall
      OBVIOUS
    <2>1. PICK watched \in BOOLEAN : sessions = FirstSessions(watched)
      BY DEF Fresh
    <2>2. sessions[s] \in NewSessions(s)
      BY <1>1, <2>1 DEF FirstSessions, NewSessions
    <2> QED
      BY <2>2, NewSessionType
  <1>4. NoCall.replies = <<>> /\ NoCall.served = FALSE
    BY DEF NoCall
  <1>5. FreshShows
    BY <1>2, <1>3, <1>4, WayOf DEF FreshShows
  <1>6. Len(<<>>) = 0
    OBVIOUS
  <1> QED
    BY <1>5, <1>6 DEF FreshShows, Orderly, InOrder
-----------------------------------------------------------------------------
\* What the abstract steps see of a session.
Shown(s) == Filed(s) \ {""}

Shows(s) == News(s)' = News(s) /\ Shown(s)' = Shown(s) /\ StaysHeard(s)

LEMMA ShownIs ==
    ASSUME NEW s \in OwnSessions
    PROVE  /\ TypeOK => /\ Shown(s) \in SUBSET Named
                        /\ \A app \in Named : app \in Shown(s) <=> app \in Filed(s)
           /\ TypeOK' => /\ Shown(s)' \in SUBSET Named
                         /\ \A app \in Named : app \in Shown(s)' <=> app \in Filed(s)'
  BY DEF TypeOK, HandlerRec, Filed, Shown, Named

\* What is told of a session in a step that leaves it alone, loses it or asks for it.
LEMMA ShowsQuiet ==
    ASSUME TypeOK, TypeOK', NEW s \in OwnSessions, Quiet(s)
    PROVE  Shows(s)
  <1>1. \A app \in Named : app \in Filed(s)' <=> app \in Filed(s)
    BY DEF Quiet, SameFiles, Named
  <1>2. NewsOf(UnderWay(s), Filed(s)') = NewsOf(UnderWay(s), Filed(s))
    BY <1>1, FilesEqual
  <1>3. News(s)' = News(s)
    BY <1>2, NewsIs DEF Quiet
  <1>4. Shown(s)' = Shown(s)
    BY <1>1, ShownIs
  <1> QED
    BY <1>3, <1>4 DEF Shows, Quiet

LEMMA NoNews ==
    ASSUME NEW f, NEW q, q = <<>> \/ q = <<Refused>>
    PROVE  NewsOf(q, f) = <<>>
  <1>1. Refused \in AppReplies /\ Refused.kind = "error" /\ Refused.items = <<>>
    BY AppReplyTypes DEF Refused
  <1> DEFINE none == {}
  <1>2. none \in SUBSET Named /\ \A app \in Named : app \in Range(Refused.items) <=> app \in none
    BY <1>1 DEF Range
  <1> HIDE DEF none
  <1>3. NewsOf(<<>>, f) = <<>> /\ NewsOf(<<Refused>>, f) = <<>>
    BY <1>1, <1>2, NewsAtFirst
  <1> QED
    BY <1>3

LEMMA NothingShown ==
    ASSUME NEW s \in OwnSessions
    PROVE  /\ TypeOK /\ NoFiles(s) => Shown(s) = {}
           /\ TypeOK' /\ NoFiles(s)' => Shown(s)' = {}
  <1>1. \A app \in Named : app \in AppIds
    BY DEF Named
  <1>2. ASSUME TypeOK, NoFiles(s) PROVE Shown(s) = {}
    BY <1>1, <1>2, ShownIs DEF NoFiles
  <1>3. ASSUME TypeOK', NoFiles(s)' PROVE Shown(s)' = {}
    BY <1>1, <1>3, ShownIs DEF NoFiles
  <1> QED
    BY <1>2, <1>3

LEMMA ShowsLost ==
    ASSUME TypeOK', NEW s \in OwnSessions, Lost(s)
    PROVE  News(s)' = <<>> /\ Shown(s)' = {} /\ s \notin Heard'
  <1>1. News(s)' = <<>>
    BY NoNews, NewsIs DEF Lost
  <1> QED
    BY <1>1, NothingShown DEF Lost

LEMMA ShowsAsked ==
    ASSUME TypeOK, TypeOK', NEW s \in OwnSessions, Asked(s)
    PROVE  /\ News(s) = <<>> /\ Shown(s) = {} /\ Shown(s)' = {} /\ s \notin Heard
           /\ s \notin Heard' => News(s)' = <<>>
           /\ s \in Heard' => News(s)' = <<installed[s] \ {""}>>
  <1>1. Shown(s) = {} /\ Shown(s)' = {}
    BY NothingShown DEF Asked
  <1>2. News(s) = <<>>
    BY NoNews, NewsIs DEF Asked
  <1>3. ASSUME s \notin Heard' PROVE News(s)' = <<>>
    <2>1. UnderWay(s)' = <<Refused>>
      BY <1>3 DEF Asked
    <2> QED
      BY <2>1, NoNews, NewsIs
  <1>4. ASSUME s \in Heard' PROVE News(s)' = <<installed[s] \ {""}>>
    <2>1. PICK items \in Listings(installed[s]) :
              UnderWay(s)' = <<[kind |-> "list", items |-> items]>>
      BY <1>4 DEF Asked
    <2> DEFINE r == [kind |-> "list", items |-> items]
               S == installed[s] \ {""}
    <2>2. installed[s] \in SUBSET AppIds
      BY OwnSession DEF TypeOK
    <2>3. \A app : app \in Range(items) <=> app \in installed[s]
      BY <2>2, ListingsName
    <2>4. S \in SUBSET Named /\ \A app \in Named : app \in Range(r.items) <=> app \in S
      BY <2>2, <2>3 DEF Named
    <2>5. r \in AppReplies /\ r.kind = "list"
      BY <2>2, ListingsType, AppReplyTypes
    <2> HIDE DEF r, S
    <2>6. \A f : NewsOf(<<r>>, f) = <<S>>
      BY <2>4, <2>5, NewsAtFirst
    <2> QED
      BY <2>1, <2>6, NewsIs DEF r, S
  <1> QED
    BY <1>1, <1>2, <1>3, <1>4 DEF Asked

\* What is under way to a session that is heard has no error.
LEMMA HeardFirst ==
    ASSUME NEW s, InOrder(s), s \in Heard
    PROVE  \A i \in 1..Len(UnderWay(s)) : UnderWay(s)[i].kind # "error"
  BY DEF InOrder

LEMMA ShowsHushed ==
    ASSUME TypeOK, TypeOK', NEW s \in OwnSessions, InOrder(s), Hushed(s)
    PROVE  News(s)' = News(s) /\ Shown(s)' = Shown(s)
  <1> DEFINE q == UnderWay(s)
  <1>1. q \in Seq(AppReplies) /\ \A i \in 1..Len(q) : q[i].kind # "error"
    BY WayType, HeardFirst DEF Hushed
  <1>2. Refused \in AppReplies /\ Refused.kind = "error"
    BY AppReplyTypes DEF Refused
  <1>3. \A app \in Named : app \in Filed(s)' <=> app \in Filed(s)
    BY DEF Hushed, SameFiles, Named
  <1>4. UnderWay(s)' = Append(q, Refused)
    BY DEF Hushed
  <1>5. NewsOf(Append(q, Refused), Filed(s)) = NewsOf(q, Filed(s))
    <2> HIDE DEF q
    <2> QED
      BY <1>1, <1>2, NewsOfAppend
  <1>6. NewsOf(Append(q, Refused), Filed(s)') = NewsOf(Append(q, Refused), Filed(s))
    BY <1>3, FilesEqual
  <1>7. News(s)' = News(s)
    BY <1>4, <1>5, <1>6, NewsIs
  <1> QED
    BY <1>3, <1>7, ShownIs

\* A change is news to a session that is heard, and is none to another one.
LEMMA ShowsTold ==
    ASSUME TypeOK, TypeOK', DirectoryFollows', NEW s \in OwnSessions, InOrder(s),
           NEW kind \in {"added", "removed", "updated"}, NEW app \in AppIds,
           Noted(s, [kind |-> kind, items |-> <<app>>])
    PROVE  /\ Shown(s)' = Shown(s) /\ StaysHeard(s)
           /\ News(s)' = IF s \in Heard THEN Append(News(s), installed'[s] \ {""}) ELSE News(s)
  <1> DEFINE r == [kind |-> kind, items |-> <<app>>]
             q == UnderWay(s)
             a == Append(q, r)
             f == Filed(s)
             S == {b \in Named : Ends(a, f, b)}
  <1>1. r \in AppReplies /\ r.kind # "error"
    BY AppReplyTypes
  <1> HIDE DEF r
  <1>2. SameFiles(s) /\ StaysHeard(s) /\ UnderWay(s)' = IF s \in Heard THEN a ELSE q
    BY DEF Noted, r
  <1>3. \A b \in Named : b \in Filed(s)' <=> b \in f
    BY <1>2 DEF SameFiles, Named
  <1>4. Shown(s)' = Shown(s)
    BY <1>3, ShownIs
  <1>5. CASE s \notin Heard
    <2>1. Quiet(s)
      BY <1>2, <1>5 DEF Quiet
    <2> QED
      BY <1>2, <1>5, <2>1, ShowsQuiet DEF Shows
  <1>6. CASE s \in Heard
    <2>1. q \in Seq(AppReplies) /\ \A i \in 1..Len(q) : q[i].kind # "error"
      BY <1>6, WayType, HeardFirst
    <2>2. NewsOf(a, f) = Append(NewsOf(q, f), S)
      <3> HIDE DEF q, f
      <3> QED
        BY <1>1, <2>1, NewsOfAppend
    <2>3. NewsOf(a, Filed(s)') = NewsOf(a, f)
      BY <1>3, FilesEqual
    <2>4. S = installed'[s] \ {""}
      <3>1. s \in DOMAIN sessions' /\ sessions'[s].listApps.served
        BY <1>2, <1>6, WayOf DEF StaysHeard
      <3>2. Mirrors(s)'
        BY <3>1, OwnSession DEF DirectoryFollows, Follows, Own, GetSessionId
      <3>3. sessions'[s].listApps.replies = a
        BY <1>2, <1>6, <3>1, WayOf
      <3>4. \A b \in Named : Ends(a, Filed(s)', b) <=> b \in installed'[s]
        BY <3>2, <3>3 DEF Mirrors, Named
      <3>5. \A b \in Named : Ends(a, Filed(s)', b) <=> Ends(a, f, b)
        BY <1>3 DEF Ends
      <3>6. installed'[s] \in SUBSET AppIds
        BY OwnSession DEF TypeOK
      <3> QED
        BY <3>4, <3>5, <3>6 DEF Named
    <2>5. News(s)' = NewsOf(a, Filed(s)') /\ News(s) = NewsOf(q, f)
      BY <1>2, <1>6, NewsIs
    <2> QED
      BY <1>2, <1>4, <1>6, <2>2, <2>3, <2>4, <2>5
  <1> QED
    BY <1>5, <1>6

\* A reply that is delivered shows the first news, unless it is an error.
LEMMA ShowsDelivered ==
    ASSUME TypeOK, TypeOK', NEW s \in OwnSessions, InOrder(s), Delivered(s)
    PROVE  /\ StaysHeard(s)
           /\ \/ News(s)' = News(s) /\ Shown(s)' = Shown(s)
              \/ /\ News(s) # <<>>
                 /\ Shown(s)' = Head(News(s)) /\ News(s)' = Tail(News(s))
  <1> DEFINE q == UnderWay(s)
             f == Filed(s)
             g == Filed(s)'
  <1>1. q \in Seq(AppReplies) /\ q # <<>> /\ UnderWay(s)' = Tail(q) /\ StaysHeard(s)
    BY WayType DEF Delivered
  <1>2. PICK r : r = Head(q)
    OBVIOUS
  <1>3. /\ r.kind = "error" => SameFiles(s)
        /\ r.kind # "error" => \A app \in Named :
              app \in g <=> IF Names(r, app) THEN Says(r, app) \/ (r.kind = "list" /\ app \in f)
                                             ELSE app \in f
    BY <1>2 DEF Delivered
  <1>4. \A i \in 1..Len(q) : /\ q[i].kind = "error" => i = Len(q)
                             /\ q[i].kind = "list" => i = 1 /\ NoFiles(s)
    BY DEF InOrder
  <1>5. News(s) = NewsOf(q, f) /\ News(s)' = NewsOf(Tail(q), g)
    BY <1>1, NewsIs
  <1>6. \A app \in Named : app \in AppIds
    BY DEF Named
  <1> HIDE DEF q, f, g
  <1>7. /\ Len(q) \in Nat /\ 1 \in 1..Len(q) /\ q[1] = r
        /\ Tail(q) \in Seq(AppReplies) /\ Len(Tail(q)) = Len(q) - 1
    BY <1>1, <1>2, HeadTailProperties
  <1>8. CASE r.kind = "error"
    <2>0. Len(q) = 1
      BY <1>4, <1>7, <1>8
    <2>1. Len(q) = 1 /\ Count(q) = 0
      BY <1>1, <1>7, <1>8, <2>0 DEF Count
    <2>2. Tail(q) = <<>>
      BY <1>7, <2>1
    <2>3. NewsOf(q, f) = <<>>
      BY <1>1, <2>1, CountType
    <2>4. NewsOf(Tail(q), g) = <<>>
      BY <2>2, NoNews
    <2>5. Shown(s)' = Shown(s)
      BY <1>3, <1>6, <1>8, ShownIs DEF SameFiles
    <2> QED
      BY <1>1, <1>5, <2>3, <2>4, <2>5
  <1>9. CASE r.kind # "error"
    <2>1. Count(q) # 0
      BY <1>1, <1>7, <1>9 DEF Count
    <2>2. \A app \in Named : app \in g <=> IF Names(r, app) THEN Says(r, app) ELSE app \in f
      <3>1. r.kind = "list" => \A app \in Named : app \notin f
        BY <1>4, <1>6, <1>7 DEF NoFiles, f
      <3> QED
        BY <1>3, <1>9, <3>1
    <2>3. /\ NewsOf(q, f) # <<>>
          /\ NewsOf(Tail(q), g) = Tail(NewsOf(q, f))
          /\ \A app \in Named : app \in Head(NewsOf(q, f)) <=> app \in g
      BY <1>1, <1>2, <2>1, <2>2, NewsOfTail
    <2> DEFINE n == NewsOf(q, f)
    <2>4. n \in Seq(SUBSET Named)
      BY <1>1, CountType
    <2> HIDE DEF n
    <2>5. Head(n) \in SUBSET Named
      BY <2>3, <2>4 DEF n
    <2>6. Shown(s)' = Head(n)
      BY <2>3, <2>5, ShownIs DEF n, g
    <2> QED
      BY <1>1, <1>5, <2>3, <2>6 DEF n
  <1> QED
    BY <1>8, <1>9

-----------------------------------------------------------------------------
\* The abstract variables, before and after a step.
LEMMA CatalogVariables ==
    /\ OwnSessions' = OwnSessions /\ Named' = Named
    /\ Heard \subseteq OwnSessions /\ Heard' \subseteq OwnSessions
    /\ Offer = [s \in OwnSessions |-> installed[s] \ {""}]
    /\ Offer' = [s \in OwnSessions |-> installed'[s] \ {""}]
    /\ Coming = [s \in OwnSessions |-> News(s)]
    /\ Coming' = [s \in OwnSessions |-> News(s)']
    /\ Launchable = [s \in OwnSessions |-> Shown(s)]
    /\ Launchable' = [s \in OwnSessions |-> Shown(s)']
  <1>1. OwnSessions' = OwnSessions /\ Named' = Named
    BY DEF OwnSessions, Own, GetSessionId, Named
  <1>2. Heard \subseteq OwnSessions /\ Heard' \subseteq OwnSessions
    BY <1>1 DEF Heard
  <1> QED
    BY <1>1, <1>2 DEF Offer, Coming, Launchable, Shown

\* A step that only one session sees.
LEMMA OneShows ==
    ASSUME TypeOK, TypeOK', NEW u \in OwnSessions, OthersQuiet(u)
    PROVE  /\ Heard' \ {u} = Heard \ {u}
           /\ Coming' = [Coming EXCEPT ![u] = News(u)']
           /\ Launchable' = [Launchable EXCEPT ![u] = Shown(u)']
           /\ News(u)' = News(u) => Coming' = Coming
           /\ Shown(u)' = Shown(u) => Launchable' = Launchable
           /\ StaysHeard(u) => Heard' = Heard
  <1>1. \A s \in OwnSessions \ {u} : /\ News(s)' = News(s) /\ Shown(s)' = Shown(s)
                                     /\ s \in Heard' <=> s \in Heard
    BY ShowsQuiet DEF OthersQuiet, Shows, StaysHeard
  <1>2. Heard' \ {u} = Heard \ {u}
    <2>1. Heard \subseteq OwnSessions /\ Heard' \subseteq OwnSessions
      BY CatalogVariables
    <2>2. \A s : s \in Heard' \ {u} <=> s \in Heard \ {u}
      BY <1>1, <2>1
    <2> QED
      BY <2>2
  <1>3. ASSUME StaysHeard(u) PROVE Heard' = Heard
    <2>1. u \in Heard' <=> u \in Heard
      BY <1>3 DEF StaysHeard
    <2>2. \A s : s \in Heard' <=> s \in Heard
      BY <1>1, <2>1, CatalogVariables
    <2> QED
      BY <2>2
  <1>4. /\ Coming' = [Coming EXCEPT ![u] = News(u)']
        /\ News(u)' = News(u) => Coming' = Coming
    BY <1>1, CatalogVariables
  <1>5. /\ Launchable' = [Launchable EXCEPT ![u] = Shown(u)']
        /\ Shown(u)' = Shown(u) => Launchable' = Launchable
    BY <1>1, CatalogVariables
  <1> QED
    BY <1>2, <1>3, <1>4, <1>5

LEMMA SameOffer ==
    ASSUME SameApps
    PROVE  Offer' = Offer
  BY CatalogVariables DEF SameApps

\* Each kind of step is a step of the abstract specification, or none.
LEMMA CatalogLost ==
    ASSUME TypeOK, TypeOK', SomeLost
    PROVE  Catalog!Next
  <1> DEFINE S == {s \in OwnSessions : Lost(s)}
  <1>1. \A s \in OwnSessions \ S : /\ News(s)' = News(s) /\ Shown(s)' = Shown(s)
                                   /\ s \in Heard' <=> s \in Heard
    BY ShowsQuiet DEF SomeLost, Shows, StaysHeard
  <1>2. \A s \in S : News(s)' = <<>> /\ Shown(s)' = {} /\ s \notin Heard'
    BY ShowsLost
  <1>3. S \in SUBSET OwnSessions
    OBVIOUS
  <1> HIDE DEF S
  <1>4. Heard' = Heard \ S
    BY <1>1, <1>2, <1>3, CatalogVariables
  <1>5. Coming' = [s \in OwnSessions |-> IF s \in S THEN <<>> ELSE Coming[s]]
    BY <1>1, <1>2, <1>3, CatalogVariables
  <1>6. Launchable' = [s \in OwnSessions |-> IF s \in S THEN {} ELSE Launchable[s]]
    BY <1>1, <1>2, <1>3, CatalogVariables
  <1>7. Offer' = Offer
    BY SameOffer DEF SomeLost
  <1>8. Catalog!Drop(S)
    BY <1>4, <1>5, <1>6, <1>7 DEF Catalog!Drop
  <1> QED
    BY <1>3, <1>8 DEF Catalog!Next

LEMMA CatalogMoves ==
    ASSUME TypeOK, TypeOK', Orderly, NEW u \in OwnSessions, OneMoves(u)
    PROVE  Catalog!Next \/ UNCHANGED Catalog!vars
  <1>1. InOrder(u) /\ OthersQuiet(u) /\ Offer' = Offer
    BY SameOffer DEF Orderly, OneMoves
  <1>2. Coming[u] = News(u) /\ Launchable[u] = Shown(u) /\ Offer[u] = installed[u] \ {""}
    BY CatalogVariables
  <1>3. CASE Asked(u)
    <2>1. CASE u \in Heard'
      <3>1. /\ Coming' = [Coming EXCEPT ![u] = <<Offer[u]>>] /\ Launchable' = Launchable
            /\ Coming[u] = <<>> /\ Launchable[u] = {} /\ u \notin Heard
        BY <1>1, <1>2, <1>3, <2>1, OneShows, ShowsAsked
      <3>2. Heard' = Heard \cup {u}
        BY <1>1, <2>1, OneShows
      <3>3. Catalog!Open(u)
        BY <1>1, <3>1, <3>2 DEF Catalog!Open
      <3> QED
        BY <3>3 DEF Catalog!Next
    <2>2. CASE u \notin Heard'
      <3>1. News(u)' = News(u) /\ Shown(u)' = Shown(u) /\ StaysHeard(u)
        BY <1>3, <2>2, ShowsAsked DEF StaysHeard
      <3> QED
        BY <1>1, <3>1, OneShows DEF Catalog!vars
    <2> QED
      BY <2>1, <2>2
  <1>4. CASE Hushed(u)
    <2>1. Coming' = Coming /\ Launchable' = Launchable
      BY <1>1, <1>4, OneShows, ShowsHushed
    <2>2. Heard' = Heard \ {u}
      BY <1>1, <1>4, OneShows DEF Hushed
    <2>3. Catalog!Hush(u)
      BY <1>1, <2>1, <2>2 DEF Catalog!Hush
    <2> QED
      BY <2>3 DEF Catalog!Next
  <1>5. CASE Delivered(u)
    <2>1. /\ StaysHeard(u)
          /\ \/ News(u)' = News(u) /\ Shown(u)' = Shown(u)
             \/ /\ News(u) # <<>>
                /\ Shown(u)' = Head(News(u)) /\ News(u)' = Tail(News(u))
      BY <1>1, <1>5, ShowsDelivered
    <2>2. CASE News(u)' = News(u) /\ Shown(u)' = Shown(u)
      BY <1>1, <2>1, <2>2, OneShows DEF Catalog!vars
    <2>3. CASE /\ News(u) # <<>>
               /\ Shown(u)' = Head(News(u)) /\ News(u)' = Tail(News(u))
      <3>1. /\ Heard' = Heard
            /\ Coming' = [Coming EXCEPT ![u] = Tail(Coming[u])]
            /\ Launchable' = [Launchable EXCEPT ![u] = Head(Coming[u])]
        BY <1>1, <1>2, <2>1, <2>3, OneShows
      <3>2. Catalog!Show(u)
        BY <1>1, <1>2, <2>3, <3>1 DEF Catalog!Show
      <3> QED
        BY <3>2 DEF Catalog!Next
    <2> QED
      BY <2>1, <2>2, <2>3
  <1> QED
    BY <1>3, <1>4, <1>5 DEF OneMoves

LEMMA CatalogChanges ==
    ASSUME TypeOK, TypeOK', Orderly, DirectoryFollows', NEW u \in OwnSessions,
           NEW app \in AppIds, NEW kind \in {"added", "removed", "updated"},
           OneChanges(u, app, kind)
    PROVE  Catalog!Next
  <1> DEFINE apps == installed'[u] \ {""}
  <1>1. /\ InOrder(u) /\ OthersQuiet(u) /\ Noted(u, [kind |-> kind, items |-> <<app>>])
        /\ \A s \in OwnSessions \ {u} : installed'[s] = installed[s]
    BY DEF Orderly, OneChanges
  <1>2. /\ Shown(u)' = Shown(u) /\ StaysHeard(u)
        /\ News(u)' = IF u \in Heard THEN Append(News(u), apps) ELSE News(u)
    BY <1>1, ShowsTold
  <1>3. apps \in SUBSET Named
    BY OwnSession DEF TypeOK, Named
  <1>4. Offer' = [Offer EXCEPT ![u] = apps]
    BY <1>1, CatalogVariables
  <1> HIDE DEF apps
  <1>5. Heard' = Heard /\ Launchable' = Launchable
    BY <1>1, <1>2, OneShows
  <1>6. Coming[u] = News(u)
    BY CatalogVariables
  <1>7. Coming' = IF u \in Heard THEN [Coming EXCEPT ![u] = Append(@, apps)] ELSE Coming
    BY <1>1, <1>2, <1>6, OneShows
  <1>8. Catalog!Change(u, apps)
    BY <1>4, <1>5, <1>7 DEF Catalog!Change
  <1> QED
    BY <1>3, <1>8 DEF Catalog!Next

LEMMA CatalogNext ==
    ASSUME TypeOK, TypeOK', NoOrphanHandlers, NoOrphanHandlers', Orderly, DirectoryFollows',
           [Next]_vars
    PROVE  [Catalog!Next]_Catalog!vars
  BY MovesNext, CatalogLost, CatalogMoves, CatalogChanges DEF Moves

LEMMA CatalogInit == Init => Catalog!Init
  <1> SUFFICES ASSUME Init PROVE Catalog!Init
    OBVIOUS
  <1>1. TypeOK /\ FreshShows
    BY InitFresh, FreshTypes, FreshCatalog
  <1>2. Heard = {}
    BY <1>1, CatalogVariables DEF FreshShows
  <1>3. ASSUME NEW s \in OwnSessions PROVE News(s) = <<>> /\ Shown(s) = {}
    BY <1>1, NewsIs, NoNews DEF FreshShows, Shown
  <1>4. Coming = [s \in OwnSessions |-> <<>>] /\ Launchable = [s \in OwnSessions |-> {}]
    BY <1>3, CatalogVariables
  <1>5. Offer \in [OwnSessions -> SUBSET Named]
    <2>1. \A s \in OwnSessions : installed[s] \ {""} \in SUBSET Named
      BY <1>1, OwnSession DEF TypeOK, Named
    <2> QED
      BY <2>1, CatalogVariables
  <1> QED
    BY <1>2, <1>4, <1>5 DEF Catalog!Init

\* What can be launched in a session goes through what was installed in it: nothing is
\* skipped and nothing comes back, for any number of sessions, applications and replies.
THEOREM CatalogImplemented == Spec => ImplementsCatalog
  <1>1. /\ TypeOK /\ NoOrphanHandlers /\ Orderly /\ DirectoryFollows
        /\ TypeOK' /\ NoOrphanHandlers' /\ DirectoryFollows' /\ [Next]_vars
        => [Catalog!Next]_Catalog!vars
    BY CatalogNext
  <1>2. Init => Orderly /\ DirectoryFollows
    BY InitFresh, FreshCatalog, FreshFollows
  <1> QED
    BY <1>1, <1>2, CatalogInit, OrderlyNext, FollowsNext, DirectoryTypeCorrect,
       HandlersHaveOwners, PTL DEF Spec, ImplementsCatalog, Catalog!Spec

-----------------------------------------------------------------------------
(***************************************************************************)
(* The loss of an application manager that filed handlers is under way as  *)
(* a status message until the handlers are gone.                           *)
(***************************************************************************)
Warned(s) == FALSE \in Range(sessions[s].status)

NoneFiled(s) == \A k \in DOMAIN handlers : handlers[k].sessionId # s

Idle(s) ==
    /\ sessions[s].listApps.replies \in {<<>>, <<Refused>>}
    /\ NoneFiled(s)

Unheard(s) == sessions[s].listApps.live /\ ~sessions[s].listApps.served

Forewarned == \A s \in DOMAIN sessions : Unheard(s) => Warned(s) \/ Idle(s)

LEMMA TailIs ==
    ASSUME NEW S, NEW queue \in Seq(S), queue # <<>>
    PROVE  /\ Head(queue) = queue[1]
           /\ DOMAIN Tail(queue) = 1..(Len(queue) - 1)
           /\ \A j \in 1..(Len(queue) - 1) : Tail(queue)[j] = queue[j + 1]
  OBVIOUS

LEMMA WarningStays ==
    ASSUME NEW queue \in Seq(BOOLEAN), FALSE \in Range(queue)
    PROVE  /\ \A b \in BOOLEAN : FALSE \in Range(Append(queue, b))
           /\ queue # <<>> /\ Head(queue) => FALSE \in Range(Tail(queue))
  <1>0. DOMAIN queue = 1..Len(queue) /\ Len(queue) \in Nat
    OBVIOUS
  <1>1. PICK i \in 1..Len(queue) : queue[i] = FALSE
    BY <1>0, Zenon DEF Range
  <1>2. ASSUME NEW b \in BOOLEAN PROVE FALSE \in Range(Append(queue, b))
    <2>1. i \in DOMAIN Append(queue, b) /\ Append(queue, b)[i] = FALSE
      BY <1>1
    <2> QED
      BY <2>1 DEF Range
  <1>3. ASSUME queue # <<>>, Head(queue) PROVE FALSE \in Range(Tail(queue))
    <2>1. Head(queue) = queue[1]
      BY <1>3, TailIs
    <2>3. i # 1
      BY <1>1, <1>3, <2>1
    <2>4. i - 1 \in 1..(Len(queue) - 1)
      BY <1>0, <1>1, <2>3
    <2>5. DOMAIN Tail(queue) = 1..(Len(queue) - 1)
      BY <1>3, TailIs
    <2>6. \A j \in 1..(Len(queue) - 1) : Tail(queue)[j] = queue[j + 1]
      BY <1>3, TailIs
    <2>7. (i - 1) + 1 = i
      BY <1>0, <1>1
    <2>2. i - 1 \in DOMAIN Tail(queue) /\ Tail(queue)[i - 1] = FALSE
      BY <1>1, <2>4, <2>5, <2>6, <2>7
    <2> QED
      BY <2>2, Zenon DEF Range
  <1> QED
    BY <1>2, <1>3

LEMMA WarningGiven ==
    ASSUME NEW queue \in Seq(BOOLEAN)
    PROVE  FALSE \in Range(Append(queue, FALSE))
  <1>1. /\ Len(queue) + 1 \in DOMAIN Append(queue, FALSE)
        /\ Append(queue, FALSE)[Len(queue) + 1] = FALSE
    OBVIOUS
  <1> QED
    BY <1>1 DEF Range

\* A session nothing happens to stays forewarned, when no handler of it is filed.
LEMMA ForewarnedKept ==
    ASSUME NEW s, s \in DOMAIN sessions, Unheard(s) => Warned(s) \/ Idle(s),
           sessions'[s].listApps = sessions[s].listApps,
           Warned(s) => Warned(s)',
           NoneFiled(s) => NoneFiled(s)'
    PROVE  (Unheard(s) => Warned(s) \/ Idle(s))'
  BY DEF Unheard, Idle, Refused

\* Handlers that stay as they are, or go, are no news for s.
LEMMA NoneFiledKept ==
    ASSUME NEW s, \A k \in DOMAIN handlers' :
               \/ k \in DOMAIN handlers /\ handlers'[k] = handlers[k]
               \/ handlers'[k].sessionId # s
    PROVE  NoneFiled(s) => NoneFiled(s)'
  BY DEF NoneFiled

LEMMA ForewarnedNext ==
    TypeOK /\ NoOrphanHandlers /\ Forewarned /\ [Next]_vars => Forewarned'
  <1> SUFFICES ASSUME TypeOK, NoOrphanHandlers, Forewarned, [Next]_vars,
                      NEW s \in DOMAIN sessions'
               PROVE  (Unheard(s) => Warned(s) \/ Idle(s))'
    BY DEF Forewarned, Unheard, Warned, Idle, NoneFiled, Refused
  <1>0. /\ DOMAIN sessions \subseteq SessionIds
        /\ s \in DOMAIN sessions =>
              /\ sessions[s] \in SessionRec /\ sessions[s].status \in Seq(BOOLEAN)
              /\ sessions[s].listApps \in CallRec(AppReplies)
              /\ Unheard(s) => Warned(s) \/ Idle(s)
    BY DEF TypeOK, SessionRec, Forewarned
  <1>1. ASSUME sessions'[s] = sessions[s], s \in DOMAIN sessions,
               NoneFiled(s) => NoneFiled(s)'
        PROVE  (Unheard(s) => Warned(s) \/ Idle(s))'
    BY <1>0, <1>1, ForewarnedKept DEF Warned
  <1>2. ASSUME ~sessions'[s].listApps.live
        PROVE  (Unheard(s) => Warned(s) \/ Idle(s))'
    BY <1>2 DEF Unheard
  <1>3. CASE AccountStatusChanged
    <2>1. DOMAIN <<>> = {}
      OBVIOUS
    <2> QED
      BY <1>3, <2>1 DEF AccountStatusChanged
  <1>4. CASE OnGetSessions
    <2> DEFINE reply == Head(getSessions.replies)
    <2>1. CASE reply.kind = "error"
      <3>1. sessions' = sessions /\ handlers' = handlers
        BY <1>4, <2>1, SessionsListed
      <3> QED
        BY <1>1, <3>1, NoneFiledKept
    <2>2. CASE reply.kind # "error"
      <3>1. /\ IF s \in DOMAIN sessions THEN sessions'[s] = sessions[s]
                                        ELSE sessions'[s] \in NewSessions(s)
            /\ handlers' = WithoutHandlersOf(DOMAIN sessions \ reply.items)
        BY <1>4, <2>2, SessionsListed
      <3> HIDE DEF reply
      <3>2. NoneFiled(s) => NoneFiled(s)'
        BY <3>1, SessionsErased, NoneFiledKept
      <3> QED
        BY <1>1, <1>2, <3>1, <3>2, NewSessionType
    <2> QED
      BY <2>1, <2>2
  <1>5. ASSUME NEW u \in SessionIds, SamStatusChanged(u)
        PROVE  (Unheard(s) => Warned(s) \/ Idle(s))'
    <2>1. PICK call \in CallRec(AppReplies) :
           LET x == [watched |-> sessions[u].watched, status |-> Tail(sessions[u].status),
                     listApps |-> call] IN
           /\ u \in DOMAIN sessions /\ sessions[u].status # <<>> /\ x \in SessionRec
           /\ sessions' = [sessions EXCEPT ![u] = x]
           /\ \/ /\ Head(sessions[u].status) /\ handlers' = handlers
                 /\ sessions[u].listApps.live => call = sessions[u].listApps
              \/ /\ ~Head(sessions[u].status) /\ call = NoCall
                 /\ handlers' = RemoveBySessionId(handlers, u)
      BY <1>5, SamTold
    <2>2. NoneFiled(s) => NoneFiled(s)'
      <3>1. handlers' = handlers \/ handlers' = RemoveBySessionId(handlers, u)
        BY <2>1
      <3>2. \A k \in DOMAIN handlers' : k \in DOMAIN handlers /\ handlers'[k] = handlers[k]
        BY <3>1, SessionErased
      <3> QED
        BY <3>2, NoneFiledKept
    <2>3. s \in DOMAIN sessions
      BY <2>1
    <2>4. CASE s # u
      BY <1>1, <2>1, <2>2, <2>3, <2>4
    <2>5. CASE s = u
      <3>1. sessions'[s].listApps = call /\ sessions'[s].status = Tail(sessions[s].status)
        BY <2>1, <2>5
      <3>2. CASE ~Head(sessions[s].status)
        <4>0. ~NoCall.live
          BY DEF NoCall
        <4>1. ~call.live
          BY <2>1, <2>5, <3>2, <4>0
        <4> QED
          BY <1>2, <3>1, <4>1
      <3>3. CASE Head(sessions[s].status) /\ sessions[s].listApps.live
        <4>1. call = sessions[s].listApps
          BY <2>1, <2>5, <3>3
        <4>2. Warned(s) => Warned(s)'
          BY <1>0, <2>1, <2>3, <2>5, <3>1, <3>3, WarningStays DEF Warned
        <4> QED
          BY <1>0, <2>2, <2>3, <3>1, <4>1, <4>2, ForewarnedKept
      <3>4. CASE Head(sessions[s].status) /\ ~sessions[s].listApps.live
        <4>1. handlers' = handlers
          BY <2>1, <2>5, <3>4
        <4>2. NoneFiled(s)'
          BY <1>0, <2>3, <3>4, <4>1, BuildAssumption DEF NoneFiled, NoOrphanHandlers, Live
        <4>3. sessions'[s].listApps \in LSCalls(s \in samUp,
                  {[kind |-> "list", items |-> q] : q \in Listings(installed[s])})
          <5> DEFINE lists == {[kind |-> "list", items |-> q] : q \in Listings(installed[s])}
                     Update(c) == [watched  |-> sessions[s].watched,
                                   status   |-> Tail(sessions[s].status),
                                   listApps |-> c]
          <5>1. \E c \in LSCalls(s \in samUp, lists) :
                    sessions' = [sessions EXCEPT ![s] = Update(c)]
            BY <1>5, <2>5, <3>4 DEF SamStatusChanged
          <5>2. \A c : sessions' = [sessions EXCEPT ![s] = Update(c)] =>
                          sessions'[s].listApps = c
            BY <2>3
          <5> HIDE DEF lists, Update
          <5>3. sessions'[s].listApps \in LSCalls(s \in samUp, lists)
            BY <5>1, <5>2
          <5> QED
            BY <5>3 DEF lists
        <4>4. Unheard(s)' => sessions'[s].listApps.replies = <<Refused>>
          BY <4>3, CallIs DEF Unheard, NoCall
        <4> QED
          BY <4>2, <4>4 DEF Idle, Unheard, Refused
      <3> QED
        BY <3>2, <3>3, <3>4
    <2> QED
      BY <2>4, <2>5
  <1>6. ASSUME NEW u \in SessionIds, OnListApps(u)
        PROVE  (Unheard(s) => Warned(s) \/ Idle(s))'
    <2> DEFINE old == sessions[u]
               rest == [old.listApps EXCEPT !.replies = Tail(@)]
               x == [old EXCEPT !.listApps = rest]
    <2>1. /\ u \in DOMAIN sessions /\ old \in SessionRec /\ old.listApps.replies # <<>>
          /\ sessions' = [sessions EXCEPT ![u] = x]
          /\ \A k \in DOMAIN handlers' :
                 \/ k \in DOMAIN handlers /\ handlers'[k] = handlers[k]
                 \/ handlers'[k].sessionId = GetSessionId(u)
      BY <1>6, AppsListed DEF TypeOK
    <2>2. s \in DOMAIN sessions
      BY <2>1
    <2>3. CASE s # u
      <3>1. GetSessionId(u) # s
        <4>3. s \in SessionIds
          BY <1>0, <2>2
        <4>1. s \in SessionIds /\ EnableSession
          <5>1. ~EnableSession => s = "" /\ u = ""
            BY <4>3, BuildAssumption
          <5> QED
            BY <2>3, <4>3, <5>1
        <4>2. s # ""
          BY <4>1, BuildAssumption
        <4> QED
          BY <2>3, <4>2, WhoseId
      <3>2. NoneFiled(s) => NoneFiled(s)'
        BY <2>1, <3>1, NoneFiledKept
      <3> QED
        BY <1>1, <2>1, <2>2, <2>3, <3>2
    <2>4. CASE s = u
      <3>1. sessions'[s].status = sessions[s].status /\ sessions'[s].listApps = rest
        BY <2>1, <2>4 DEF SessionRec
      <3>2. rest.live = old.listApps.live /\ rest.served = old.listApps.served
            /\ rest.replies = Tail(old.listApps.replies)
        BY <1>0, <2>2, <2>4 DEF CallRec
      <3>3. Unheard(s)' => Unheard(s)
        BY <2>4, <3>1, <3>2 DEF Unheard
      <3>4. CASE Warned(s)
        BY <3>1, <3>4 DEF Warned
      <3>5. CASE Idle(s)
        <4>1. old.listApps.replies = <<Refused>>
          BY <2>1, <2>4, <3>5 DEF Idle
        <4>2. Head(old.listApps.replies) = Refused /\ Tail(old.listApps.replies) = <<>>
          BY <4>1
        <4>3. handlers' = handlers
          BY <1>6, <4>2 DEF OnListApps, Refused
        <4> QED
          BY <3>1, <3>2, <3>5, <4>2, <4>3 DEF Idle, NoneFiled
      <3> QED
        BY <1>0, <2>2, <3>3, <3>4, <3>5
    <2> QED
      BY <2>3, <2>4
  <1>7. ASSUME NEW u \in SessionIds,
               \/ SamGoes(u) \/ SamComes(u)
               \/ \E app \in AppIds, kind \in {"added", "removed", "updated"} :
                      Tell(u, kind, app)
        PROVE  (Unheard(s) => Warned(s) \/ Idle(s))'
    <2>1. /\ handlers' = handlers /\ s \in DOMAIN sessions
          /\ s # u => sessions'[s] = sessions[s]
      BY <1>7, ManagerSays
    <2>2. NoneFiled(s) => NoneFiled(s)'
      BY <2>1, NoneFiledKept
    <2>3. CASE s # u
      BY <1>1, <2>1, <2>2, <2>3
    <2>4. CASE s = u /\ SamGoes(u)
      <3> DEFINE old == sessions[s]
      <3>1. sessions'[s] = [watched  |-> old.watched,
                            status   |-> Told(old.watched, old.status, FALSE),
                            listApps |-> Dead(old.listApps)]
        BY <2>1, <2>4 DEF SamGoes, ForSession
      <3>2. sessions'[s].listApps.live => old.watched
        <4>1. sessions'[s].listApps.live = old.listApps.live
          BY <1>7, <2>1, <2>4, ManagerSays
        <4>2. ~NoCall.live
          BY DEF NoCall
        <4>3. ~old.watched => old.listApps = NoCall
          BY <1>0, <2>1 DEF SessionRec
        <4> QED
          BY <4>1, <4>2, <4>3
      <3>3. old.watched => FALSE \in Range(Told(old.watched, old.status, FALSE))
        BY <1>0, <2>1, WarningGiven DEF Told
      <3>4. sessions'[s].status = Told(old.watched, old.status, FALSE)
        BY <3>1
      <3> HIDE DEF old
      <3> QED
        BY <3>2, <3>3, <3>4 DEF Unheard, Warned
    <2>5. CASE s = u /\ SamComes(u)
      <3> DEFINE old == sessions[s]
      <3>1. sessions'[s] = [watched  |-> old.watched,
                            status   |-> Told(old.watched, old.status, TRUE),
                            listApps |-> old.listApps]
        BY <2>1, <2>5 DEF SamComes, ForSession
      <3>2. Warned(s) => Warned(s)'
        <4>1. sessions'[s].status = Told(old.watched, old.status, TRUE)
          BY <3>1
        <4>2. Told(old.watched, old.status, TRUE) \in {old.status, Append(old.status, TRUE)}
          BY DEF Told
        <4>3. old.status \in Seq(BOOLEAN)
          BY <1>0, <2>1
        <4>4. FALSE \in Range(old.status) => FALSE \in Range(Append(old.status, TRUE))
          BY <4>3, WarningStays
        <4> QED
          BY <4>1, <4>2, <4>4, Zenon DEF Warned
      <3> QED
        BY <1>0, <2>1, <2>2, <3>1, <3>2, ForewarnedKept
    <2>6. ASSUME NEW app \in AppIds, NEW kind \in {"added", "removed", "updated"},
                 s = u, Tell(u, kind, app)
          PROVE  (Unheard(s) => Warned(s) \/ Idle(s))'
      <3> DEFINE call == sessions[s].listApps
                 r    == [kind |-> kind, items |-> <<app>>]
      <3>1. sessions'[s].listApps = Push(call, r)
        BY <1>0, <2>1, <2>6, ManagerTells
      <3>2. r \in AppReplies
        BY AppReplyTypes
      <3>3. sessions'[s].status = sessions[s].status
        BY <1>7, <2>1, <2>6, ManagerSays DEF Tell
      <3> HIDE DEF r
      <3>4. Unheard(s)' => sessions'[s].listApps = call
        BY <1>0, <2>1, <3>1, <3>2, PushType DEF Unheard
      <3> QED
        BY <1>0, <2>1, <2>2, <3>3, <3>4, ForewarnedKept DEF Warned, Unheard
    <2> QED
      BY <1>7, <2>3, <2>4, <2>5, <2>6
  <1>8. CASE AccountGoes \/ AccountComes \/ UsersChange \/ UNCHANGED vars
    <2>1. sessions' = sessions /\ handlers' = handlers
      BY <1>8 DEF AccountGoes, AccountComes, UsersChange, vars
    <2> QED
      BY <1>1, <2>1, NoneFiledKept
  <1>9. CASE Restart
    <2>1. PICK watched \in BOOLEAN : sessions' = FirstSessions(watched)
      BY <1>9, WatchesType DEF Restart
    <2>2. DOMAIN <<>> = {}
      OBVIOUS
    <2>3. sessions'[s] \in NewSessions(s)
      BY <2>1, <2>2 DEF FirstSessions, NewSessions
    <2> QED
      BY <1>2, <2>3, NewSessionType
  <1>10. CASE Service
    BY <1>7, <1>10 DEF Service, Install, Uninstall, Upgrade
  <1> QED
    BY <1>3, <1>4, <1>5, <1>6, <1>7, <1>8, <1>9, <1>10 DEF Next

\* An application manager that is gone, and left handlers, is news under way.
THEOREM LostManagersAreNews == Spec => []Forewarned
  <1>1. Fresh => Forewarned
    <2> SUFFICES ASSUME Fresh, NEW s \in DOMAIN sessions PROVE ~Unheard(s)
      BY DEF Forewarned
    <2>1. PICK watched \in BOOLEAN : sessions = FirstSessions(watched)
      BY DEF Fresh
    <2>2. DOMAIN <<>> = {}
      OBVIOUS
    <2>3. sessions[s] \in NewSessions(s)
      BY <2>1, <2>2 DEF FirstSessions, NewSessions
    <2> QED
      BY <2>3, NewSessionType DEF Unheard
  <1> QED
    BY <1>1, InitFresh, ForewarnedNext, DirectoryTypeCorrect, HandlersHaveOwners, PTL DEF Spec
===============================================================================
