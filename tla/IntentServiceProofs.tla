-------------------------- MODULE IntentServiceProofs --------------------------
(*****************************************************************************)
(* The service keeps what each of its two parts promises: every behaviour of *)
(* IntentService is one of SessionDirectory and, seen through the sessions   *)
(* and the table, one of IntentManager, so what is proved of either holds of *)
(* the service.                                                              *)
(*****************************************************************************)
EXTENDS IntentService, SessionDirectoryProofs

-----------------------------------------------------------------------------
(***************************************************************************)
(* The directory, as it is in the service.                                 *)
(***************************************************************************)
LEMMA ServiceStepsDirectory == [ServiceNext]_serviceVars => [Next]_vars
  <1>1. CASE IntentStep
    BY <1>1 DEF IntentStep
  <1>2. CASE DirectoryStep
    BY <1>2 DEF DirectoryStep, Next
  <1>3. CASE Reboot
    BY <1>3 DEF Reboot, Next
  <1>4. CASE UNCHANGED serviceVars
    BY <1>4 DEF serviceVars
  <1> QED
    BY <1>1, <1>2, <1>3, <1>4 DEF ServiceNext

\* Every behaviour of the service is one of its directory.
THEOREM DirectorySideHolds == ServiceSpec => DirectorySide
  BY ServiceStepsDirectory, PTL DEF ServiceSpec, ServiceInit, DirectorySide, Spec

-----------------------------------------------------------------------------
(***************************************************************************)
(* The table is one of DirectoryStates: a function on keys, which TypeOK   *)
(* does not say.                                                           *)
(***************************************************************************)
IsTable == handlers = [k \in DOMAIN handlers |-> handlers[k]]

LEMMA ErasedIsTable ==
    ASSUME NEW f, NEW K
    PROVE  Erase(f, K) = [k \in DOMAIN Erase(f, K) |-> Erase(f, K)[k]]
  BY DEF Erase, Restrict

LEMMA FreshIsTable == handlers = <<>> => IsTable
  BY DEF IsTable

LEMMA IsTableNext == IsTable /\ [Next]_vars => IsTable'
  <1> SUFFICES ASSUME IsTable, [Next]_vars PROVE IsTable'
    OBVIOUS
  <1>1. CASE UNCHANGED handlers
    BY <1>1 DEF IsTable
  <1>2. ASSUME NEW K, handlers' = Erase(handlers, K) PROVE IsTable'
    BY <1>2, ErasedIsTable DEF IsTable
  <1>3. CASE AccountStatusChanged
    BY <1>2, <1>3 DEF AccountStatusChanged, WithoutHandlersOf
  <1>4. CASE OnGetSessions
    BY <1>1, <1>2, <1>4 DEF OnGetSessions, WithoutHandlersOf
  <1>5. ASSUME NEW s \in SessionIds, SamStatusChanged(s) PROVE IsTable'
    BY <1>1, <1>2, <1>5 DEF SamStatusChanged, RemoveBySessionId
  <1>6. ASSUME NEW s \in SessionIds, OnListApps(s) PROVE IsTable'
    <2>1. ASSUME NEW apps, handlers' = AddAll(s, apps) PROVE IsTable'
      BY <2>1 DEF IsTable, AddAll
    <2>2. ASSUME NEW h, handlers' = AddHandler(handlers, h) PROVE IsTable'
      BY <1>1, <2>2 DEF IsTable, AddHandler, Put
    <2>3. ASSUME NEW k, handlers' = RemoveHandler(handlers, k) PROVE IsTable'
      BY <1>2, <2>3 DEF RemoveHandler
    <2> QED
      BY <1>1, <1>6, <2>1, <2>2, <2>3 DEF OnListApps
  <1>7. CASE \/ AccountGoes \/ AccountComes \/ UsersChange
             \/ \E s \in SessionIds : SamGoes(s) \/ SamComes(s)
    BY <1>1, <1>7 DEF AccountGoes, AccountComes, UsersChange, SamGoes, SamComes
  <1>8. CASE Service
    BY <1>1, <1>8 DEF Service, Install, Uninstall, Upgrade, Tell
  <1>9. CASE Restart
    BY <1>9 DEF Restart, IsTable
  <1> QED
    BY <1>1, <1>3, <1>4, <1>5, <1>6, <1>7, <1>8, <1>9 DEF Next, vars

LEMMA DirectoryIsOne ==
    ASSUME TypeOK, IsTable
    PROVE  \E d \in DirectoryStates : Listed = d.sessions /\ handlers = d.handlers
  <1> DEFINE Keys == {GetKey(h) : h \in HandlerRec}
  <1>1. DOMAIN handlers \subseteq Keys
    BY DEF TypeOK
  <1>2. handlers \in [DOMAIN handlers -> HandlerRec]
    BY DEF TypeOK, IsTable
  <1>3. handlers \in Tables
    BY <1>1, <1>2 DEF Tables
  <1>4. Listed \in SUBSET SessionIds
    BY DEF TypeOK, Listed
  <1>5. [sessions |-> Listed, handlers |-> handlers] \in DirectoryStates
    BY <1>3, <1>4 DEF DirectoryStates
  <1> QED
    BY <1>5

-----------------------------------------------------------------------------
(***************************************************************************)
(* The intent side, as it is in the service.                               *)
(***************************************************************************)
LEMMA ServiceStepsIntents ==
    ASSUME TypeOK', IsTable', [ServiceNext]_serviceVars
    PROVE  [IM!Next]_(IM!vars)
  <1>0. \E d \in DirectoryStates : Listed' = d.sessions /\ handlers' = d.handlers
    <2>1. (TypeOK /\ IsTable =>
              \E d \in DirectoryStates : Listed = d.sessions /\ handlers = d.handlers)'
      BY DirectoryIsOne, PTL
    <2> QED
      BY <2>1
  <1>1. CASE IntentStep
    BY <1>1 DEF IntentStep, IM!Next
  <1>2. CASE DirectoryStep
    <2>1. UNCHANGED intentVars
      BY <1>2 DEF DirectoryStep
    <2>2. IM!DirectoryChange
      BY <1>0, <2>1 DEF intentVars, IM!DirectoryChange
    <2> QED
      BY <2>2 DEF IM!Next
  <1>3. CASE Reboot
    BY <1>0, <1>3 DEF Reboot, IM!Restart, IM!Next
  <1>4. CASE UNCHANGED serviceVars
    BY <1>4 DEF serviceVars, vars, intentVars, Listed, IM!vars
  <1> QED
    BY <1>1, <1>2, <1>3, <1>4 DEF ServiceNext

\* Every behaviour of the service is one of IntentManager, the directory being what
\* the account service and the application managers made of it.
THEOREM IntentSideHolds == ServiceSpec => IntentSide
  <1>1. ServiceSpec => Spec
    BY DirectorySideHolds DEF DirectorySide
  <1>2. Spec => []TypeOK
    BY DirectoryTypeCorrect
  <1>3. Spec => []IsTable
    <2>1. Init => IsTable
      BY FreshIsTable DEF Init
    <2> QED
      BY <2>1, IsTableNext, PTL DEF Spec
  <1>4. TypeOK' /\ IsTable' /\ [ServiceNext]_serviceVars => [IM!Next]_(IM!vars)
    BY ServiceStepsIntents
  <1> QED
    BY <1>1, <1>2, <1>3, <1>4, PTL DEF ServiceSpec, ServiceInit, IntentSide, IM!Spec

-----------------------------------------------------------------------------
(***************************************************************************)
(* Where start launches.                                                   *)
(***************************************************************************)
IsLog == \E S : launches \in Seq(S)

LEMMA Appended ==
    ASSUME NEW S, NEW log \in Seq(S), NEW r
    PROVE  /\ Append(log, r) \in Seq(S \cup {r})
           /\ \A t \in DOMAIN Append(log, r) \ DOMAIN log : Append(log, r)[t] = r
  <1>1. log \in Seq(S \cup {r})
    OBVIOUS
  <1>2. /\ Append(log, r) \in Seq(S \cup {r})
        /\ Len(Append(log, r)) = Len(log) + 1
        /\ Append(log, r)[Len(log) + 1] = r
    BY <1>1
  <1>3. DOMAIN log = 1..Len(log) /\ DOMAIN Append(log, r) = 1..(Len(log) + 1)
    BY <1>1, <1>2
  <1> QED
    BY <1>1, <1>2, <1>3

LEMMA SameLength ==
    ASSUME IsLog, NEW log, DOMAIN log = DOMAIN launches,
           log = [t \in DOMAIN launches |-> log[t]]
    PROVE  \E S : log \in Seq(S)
  <1> DEFINE R == {log[t] : t \in DOMAIN launches}
  <1>1. DOMAIN launches = 1..Len(launches) /\ Len(launches) \in Nat
    BY DEF IsLog
  <1>2. log \in [1..Len(launches) -> R]
    BY <1>1
  <1>3. log \in Seq(R)
    BY <1>1, <1>2
  <1> QED
    BY <1>3

\* A step either appends one launch, of a handler of the table, or keeps their number.
LEMMA LaunchesGrow ==
    ASSUME IsLog, [ServiceNext]_serviceVars
    PROVE  \/ /\ IsLog' /\ DOMAIN launches' = DOMAIN launches
           \/ \E r : /\ launches' = Append(launches, r)
                     /\ \E k \in DOMAIN handlers : /\ r.app = handlers[k].name
                                                  /\ r.handlerSession = handlers[k].sessionId
  <1>1. ASSUME UNCHANGED launches PROVE IsLog' /\ DOMAIN launches' = DOMAIN launches
    BY <1>1 DEF IsLog
  <1>2. ASSUME NEW log, DOMAIN log = DOMAIN launches, launches' = log,
               log = [t \in DOMAIN launches |-> log[t]]
        PROVE  IsLog' /\ DOMAIN launches' = DOMAIN launches
    BY <1>2, SameLength DEF IsLog
  <1>3. CASE IM!AnyStart
    <2>1. PICK c \in Callers, sid \in Listed, body \in Bodies,
               chosen \in BOOLEAN, subscribe \in BOOLEAN, monitored \in BOOLEAN :
            \E id \in ClientIds \cup {IM!FreshId} :
                IM!Start(c, sid, body, id, chosen, subscribe, monitored)
      BY <1>3 DEF IM!AnyStart
    <2>2. PICK id : IM!Start(c, sid, body, id, chosen, subscribe, monitored)
      BY <2>1
    <2>3. PICK h \in IM!GetHandler(handlers, IM!SessionNotSet(body)) :
             launches' = Append(launches,
              [id |-> id, chosen |-> chosen, caller |-> c, session |-> sid,
               app |-> h.name, handlerSession |-> h.sessionId,
               monitored |-> monitored, epoch |-> epoch, reply |-> "pending"])
      BY <2>2 DEF IM!Start
    <2>4. \E k \in DOMAIN handlers : h = handlers[k]
      BY <2>3 DEF IM!GetHandler, IM!MatchingKeys
    <2> QED
      BY <2>3, <2>4
  <1>4. ASSUME NEW t \in IM!Tokens, NEW value \in BOOLEAN, IM!OnLaunch(t, value)
        PROVE  IsLog' /\ DOMAIN launches' = DOMAIN launches
    <2>1. launches' = [launches EXCEPT ![t].reply = IF value THEN "ok" ELSE "failed"]
      BY <1>4 DEF IM!OnLaunch
    <2> QED
      BY <1>2, <2>1
  <1>5. ASSUME NEW t \in IM!Tokens, NEW hit, IM!OnServerStatusChanged(t, hit)
        PROVE  IsLog' /\ DOMAIN launches' = DOMAIN launches
    BY <1>1, <1>2, <1>5 DEF IM!OnServerStatusChanged, IM!LSCallCancel
  <1>6. CASE IntentStep
    <2>1. CASE IM!Query \/ IM!StartRejected
      BY <1>1, <2>1 DEF IM!Query, IM!StartRejected
    <2>2. CASE \E id \in IM!Ids : IM!SendResult(id)
      BY <1>1, <2>2 DEF IM!SendResult
    <2>3. CASE \E c \in Callers, id \in IM!Ids : IM!SubscribeResult(c, id)
      BY <1>1, <2>3 DEF IM!SubscribeResult
    <2>4. CASE \E c \in Callers, t \in IM!Tokens : IM!CancelSubscription(c, t)
      BY <1>1, <2>4 DEF IM!CancelSubscription
    <2>5. CASE \E c \in Callers : IM!Leave(c) \/ IM!Join(c)
      BY <1>1, <2>5 DEF IM!Leave, IM!Join
    <2> QED
      BY <1>3, <1>4, <1>5, <1>6, <2>1, <2>2, <2>3, <2>4, <2>5 DEF IntentStep
  <1>7. CASE DirectoryStep \/ Reboot \/ UNCHANGED serviceVars
    BY <1>1, <1>7 DEF DirectoryStep, Reboot, IM!Forget, serviceVars, intentVars
  <1> QED
    BY <1>6, <1>7 DEF ServiceNext

\* A handler is of an application its session has, or about to go.
IsOffered(app, s) ==
    \/ EnableSession /\ s = "" /\ "host" \in SessionIds
    \/ /\ Live(s)
       /\ \/ app \in installed[s]
          \/ ~WillBeFiled(s, app)
          \/ FALSE \in Range(sessions[s].status)

LEMMA HandlersAreOffered ==
    TypeOK /\ NoOrphanHandlers /\ HandlersMirrorApps /\ Forewarned /\ HandlersWellMade =>
        \A k \in DOMAIN handlers : IsOffered(handlers[k].name, handlers[k].sessionId)
  <1> SUFFICES ASSUME TypeOK, NoOrphanHandlers, HandlersMirrorApps, Forewarned,
                      HandlersWellMade, NEW k \in DOMAIN handlers
               PROVE  IsOffered(handlers[k].name, handlers[k].sessionId)
    OBVIOUS
  <1> DEFINE app == handlers[k].name
             s   == handlers[k].sessionId
  <1>1. app \in AppIds \ {""} /\ \E u \in SessionIds : s = GetSessionId(u)
    BY DEF TypeOK, HandlerRec, HandlersWellMade, WellMade
  <1>2. CASE ~Live(s)
    BY <1>2 DEF NoOrphanHandlers, IsOffered
  <1>3. CASE Live(s)
    <2>1. s \in DOMAIN sessions /\ s \in SessionIds /\ sessions[s].listApps.live
      BY <1>3 DEF Live, TypeOK
    <2>2. Own(s)
      <3>1. PICK u \in SessionIds : s = GetSessionId(u)
        BY <1>1
      <3>2. CASE EnableSession
        <4>1. s # ""
          BY <2>1, <3>2, BuildAssumption
        <4>2. s = u /\ GetSessionId(u) = u
          BY <3>1, <4>1, WhoseId
        <4> QED
          BY <4>2 DEF Own
      <3>3. CASE ~EnableSession
        <4>1. s = ""
          BY <2>1, <3>3, BuildAssumption
        <4> QED
          BY <3>3, <4>1 DEF Own, GetSessionId
      <3> QED
        BY <3>2, <3>3
    <2>3. CASE sessions[s].listApps.served
      <3>1. WillBeFiled(s, app) <=> app \in installed[s]
        BY <1>1, <2>1, <2>2, <2>3 DEF HandlersMirrorApps
      <3> QED
        BY <1>3, <3>1 DEF IsOffered
    <2>4. CASE ~sessions[s].listApps.served
      <3>1. ~NoneFiled(s)
        BY DEF NoneFiled
      <3>2. Warned(s)
        BY <2>1, <2>4, <3>1 DEF Forewarned, Unheard, Idle
      <3> QED
        BY <1>3, <3>2 DEF IsOffered, Warned
    <2> QED
      BY <2>3, <2>4
  <1> QED
    BY <1>2, <1>3

LEMMA LaunchesNext ==
    ASSUME \A k \in DOMAIN handlers : IsOffered(handlers[k].name, handlers[k].sessionId),
           IsLog, [ServiceNext]_serviceVars
    PROVE  /\ IsLog'
           /\ \A t \in DOMAIN launches' \ DOMAIN launches :
                  IsOffered(launches'[t].app, launches'[t].handlerSession)
  <1>1. CASE IsLog' /\ DOMAIN launches' = DOMAIN launches
    BY <1>1
  <1>2. ASSUME NEW r, launches' = Append(launches, r), NEW k \in DOMAIN handlers,
               r.app = handlers[k].name, r.handlerSession = handlers[k].sessionId
        PROVE  /\ IsLog'
               /\ \A t \in DOMAIN launches' \ DOMAIN launches :
                      IsOffered(launches'[t].app, launches'[t].handlerSession)
    <2>1. PICK S : launches \in Seq(S)
      BY DEF IsLog
    <2>2. /\ launches' \in Seq(S \cup {r})
          /\ \A t \in DOMAIN launches' \ DOMAIN launches : launches'[t] = r
      BY <1>2, <2>1, Appended
    <2>3. IsOffered(r.app, r.handlerSession)
      BY <1>2
    <2> QED
      BY <2>2, <2>3 DEF IsLog
  <1> QED
    BY <1>1, <1>2, LaunchesGrow

\* What start launches, in every reachable state, is installed where its handler was
\* filed, or the message that takes the handler away is under way.
THEOREM LaunchesAreInstalled == ServiceSpec => LaunchesAreOfInstalledApps
  <1>1. ServiceSpec => [](\A k \in DOMAIN handlers :
                             IsOffered(handlers[k].name, handlers[k].sessionId))
    BY DirectorySideHolds, DirectoryTypeCorrect, HandlersHaveOwners, HandlersFollowApps,
       LostManagersAreNews, HandlersAreWellMade, HandlersAreOffered, PTL DEF DirectorySide
  <1>2. ServiceInit => IsLog
    <2>1. <<>> \in Seq({})
      OBVIOUS
    <2> QED
      BY <2>1 DEF ServiceInit, IM!Init, IsLog
  <1>3. /\ \A k \in DOMAIN handlers : IsOffered(handlers[k].name, handlers[k].sessionId)
        /\ IsLog /\ [ServiceNext]_serviceVars
        => IsLog' /\ [\A t \in DOMAIN launches' \ DOMAIN launches :
                         IsOffered(launches'[t].app, launches'[t].handlerSession)]_serviceVars
    BY LaunchesNext
  <1>4. ServiceSpec =>
            [][\A t \in DOMAIN launches' \ DOMAIN launches :
                  IsOffered(launches'[t].app, launches'[t].handlerSession)]_serviceVars
    BY <1>1, <1>2, <1>3, PTL DEF ServiceSpec
  <1> QED
    BY <1>4 DEF LaunchesAreOfInstalledApps, IsOffered
===============================================================================
