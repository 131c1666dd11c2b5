--------------------------- MODULE SessionDirectory ---------------------------
(*****************************************************************************)
(* Which sessions exist and which applications can handle intents in them:   *)
(* bus/host/Account keeps m_sessions from the account service's getSessions, *)
(* each bus/session/Session owns a SAM client that keeps the handlers of its *)
(* session from the application manager's listApps, and bus/AbsLunaClient    *)
(* watches the bus status of both services.                                  *)
(*                                                                           *)
(* Every one of these calls is a subscription: the hub keeps a queue of      *)
(* replies for it, oldest first, and the main loop delivers one reply at a   *)
(* time.  Cancelling a call drops the replies under way (LSCallCancel).      *)
(* Calls do not wait for each other, so replies to different calls           *)
(* interleave in any order.                                                  *)
(*                                                                           *)
(* The services themselves are external: accountUp, users, samUp, installed  *)
(* are what is true of them, `served` whether the process that accepted a    *)
(* call still serves it.                                                     *)
(*****************************************************************************)
EXTENDS Integers, Sequences, FiniteSets, Functions, Matching

CONSTANTS
    EnableSession,  \* the ENABLE_SESSION build option
    SessionIds,     \* sessions the account service may list; {""} when disabled
    AppIds,         \* applications that may be installed
    Manifest,       \* app -> the set of its own "intentFilters", at most one
    Conf,           \* app -> the set of its intentFilters in ConfFile's database
    MayRefuse,      \* whether a call of the service may fail, and a service that is
                    \* up may answer one with an error
    MaxQueue,       \* bound: replies under way on a status or getSessions call
    MaxListed       \* bound: replies under way on a listApps call

ASSUME BuildAssumption ==
    /\ EnableSession \in BOOLEAN /\ MayRefuse \in BOOLEAN
    /\ (EnableSession => "" \notin SessionIds)
    /\ (~EnableSession => SessionIds = {""})

ASSUME QueueAssumption == {MaxQueue, MaxListed} \subseteq Nat \ {0}

ASSUME NamesAssumption ==
    /\ IsFiniteSet(AppIds)
    /\ AppIds \cup {"host"} \subseteq DOMAIN Split
    /\ \A s \in SessionIds : s # "" => s \in DOMAIN Split

\* No session's id is another's, nor "host", continued after an underscore.  Nothing in
\* the code checks it; KeysIdentifyApps of HandlerTable says what else may happen.
ASSUME SessionIdsApart ==
    \A s, u \in SessionIds \cup {"host"} : ~Continues(s, u)

VARIABLES
    accountWatched, \* Account's m_statusCall is set: the hub watches the account
                    \* service for it
    accountStatus,  \* replies under way on that call
    getSessions,    \* Account::m_getSessions: [live, served, replies]
    sessions,       \* Account::m_sessions: id -> [watched, status, listApps]: whether
                    \* the SAM's m_statusCall is set, the replies under way on it, and
                    \* its m_listApps call
    handlers,       \* Handlers::m_handlers
    accountUp, users,     \* the account service: on the bus, its sessions
    samUp, installed      \* application managers on the bus; session -> its apps

services == <<accountUp, users, samUp, installed>>
external == <<accountWatched, services>>
vars == <<accountStatus, getSessions, sessions, handlers, external>>

-----------------------------------------------------------------------------
\* Plausible slips of the operations below; only the mutation runs use them.
HandlersStay(S) == handlers

AllHandlersGo(S) == <<>>

NoCall == [live |-> FALSE, served |-> FALSE, replies |-> <<>>]

Refused == [kind |-> "error", items |-> <<>>]

\* A call of a service: the first reply is its state, or an error when it is down
\* or declines.
Calls(up, firstReplies) ==
    (IF up THEN {[live |-> TRUE, served |-> TRUE, replies |-> <<r>>] : r \in firstReplies}
           ELSE {})
    \cup (IF up /\ ~MayRefuse THEN {}
          ELSE {[live |-> TRUE, served |-> FALSE, replies |-> <<Refused>>]})

\* LSCall itself may fail and leave the token 0.
LSCalls(up, firstReplies) ==
    Calls(up, firstReplies) \cup (IF MayRefuse THEN {NoCall} ELSE {})

\* So may the LSCall of AbsLunaClient::onInitialization, for which nobody checks.
Watches == IF MayRefuse THEN BOOLEAN ELSE {TRUE}

Push(call, reply) ==
    IF call.served THEN [call EXCEPT !.replies = Append(@, reply)] ELSE call

\* The process behind the call is gone: the hub answers for it.
Dead(call) ==
    IF call.served
    THEN [live |-> TRUE, served |-> FALSE, replies |-> Append(call.replies, Refused)]
    ELSE call

Room(queue) == Len(queue) < MaxQueue

RoomInList(queue) == Len(queue) < MaxListed

\* All ways to list the members of S.
Listings(S) == {q \in [1..Cardinality(S) -> S] : IsInjective(q)}

-----------------------------------------------------------------------------
\* AbsLunaClient::getSessionId of a reply from session s.
GetSessionId(s) == IF ~EnableSession \/ s = "host" THEN "" ELSE s

\* AbsLunaClient::onInitialization asks for the status, which the hub tells at once.
FirstNews(watched, up) == IF watched THEN <<up>> ELSE <<>>

\* Session::Session, with SAM::initialize.
NewSession(s, watched) ==
    [watched |-> watched, status |-> FirstNews(watched, s \in samUp), listApps |-> NoCall]

\* Session::~Session for each of S.
WithoutHandlersOf(S) ==
    Erase(handlers, {k \in DOMAIN handlers : handlers[k].sessionId \in S})

\* Account::onInitialization: the session build asks for the status of the account
\* service, the other build has the one session "" from the start.
FirstSessions(watched) ==
    IF EnableSession THEN <<>> ELSE [s \in {""} |-> NewSession(s, watched)]

Init ==
    /\ accountUp \in BOOLEAN
    /\ users \in SUBSET SessionIds
    /\ samUp \in SUBSET SessionIds
    /\ installed \in [SessionIds -> SUBSET AppIds]
    /\ \E watched \in Watches :
          /\ accountWatched = (EnableSession /\ watched)
          /\ sessions = FirstSessions(watched)
    /\ accountStatus = FirstNews(accountWatched, accountUp)
    /\ getSessions = NoCall
    /\ handlers = <<>>

-----------------------------------------------------------------------------
KeepSessionsOnLoss ==
    /\ accountStatus # <<>>
    /\ accountStatus' = Tail(accountStatus)
    /\ IF Head(accountStatus)
       THEN /\ sessions' = <<>>
            /\ handlers' = WithoutHandlersOf(DOMAIN sessions)
            /\ getSessions' \in Calls(accountUp, {[kind |-> "list", items |-> users]})
       ELSE getSessions' = NoCall /\ UNCHANGED <<sessions, handlers>>
    /\ UNCHANGED external

\* Account::onServerStatusChanged: whatever the news is, every session goes.  Where
\* callMultiReply fails it throws, which is the end of the process (module Daemon).
AccountStatusChanged ==
    /\ accountStatus # <<>>
    /\ accountStatus' = Tail(accountStatus)
    /\ sessions' = <<>>
    /\ handlers' = WithoutHandlersOf(DOMAIN sessions)
    /\ getSessions' \in IF Head(accountStatus)
                        THEN Calls(accountUp, {[kind |-> "list", items |-> users]})
                        ELSE {NoCall}
    /\ UNCHANGED external

UpdateWithoutSweep ==
    LET reply == Head(getSessions.replies) IN
    /\ getSessions.replies # <<>>
    /\ getSessions' = [getSessions EXCEPT !.replies = Tail(@)]
    /\ \E watched \in [SessionIds -> Watches] :
          sessions' = IF reply.kind = "error" THEN sessions
                      ELSE [s \in DOMAIN sessions \cup reply.items |->
                               IF s \in DOMAIN sessions THEN sessions[s]
                                                        ELSE NewSession(s, watched[s])]
    /\ UNCHANGED <<accountStatus, handlers, external>>

\* Account::onGetSessions: mark, update, sweep.
OnGetSessions ==
    LET reply == Head(getSessions.replies) IN
    /\ getSessions.replies # <<>>
    /\ getSessions' = [getSessions EXCEPT !.replies = Tail(@)]
    /\ IF reply.kind = "error"
       THEN UNCHANGED <<sessions, handlers>>
       ELSE /\ \E watched \in [reply.items \ DOMAIN sessions -> Watches] :
                  sessions' = [s \in reply.items |->
                                  IF s \in DOMAIN sessions THEN sessions[s]
                                                           ELSE NewSession(s, watched[s])]
            /\ handlers' = WithoutHandlersOf(DOMAIN sessions \ reply.items)
    /\ UNCHANGED <<accountStatus, external>>

TokenNotReset(s) ==
    /\ s \in DOMAIN sessions /\ sessions[s].status # <<>>
    /\ LET kept == [watched  |-> sessions[s].watched,
                    status   |-> Tail(sessions[s].status),
                    listApps |-> [sessions[s].listApps EXCEPT !.served = FALSE,
                                                              !.replies = <<>>]]
           lists == {[kind |-> "list", items |-> q] : q \in Listings(installed[s])}
           calls == IF sessions[s].listApps.live THEN {sessions[s].listApps}
                                                 ELSE LSCalls(s \in samUp, lists)
       IN IF Head(sessions[s].status)
          THEN /\ \E call \in calls :
                     sessions' = [sessions EXCEPT ![s] =
                                     [kept EXCEPT !.listApps = call]]
               /\ UNCHANGED handlers
          ELSE /\ sessions' = [sessions EXCEPT ![s] = kept]
               /\ handlers' = RemoveBySessionId(handlers, s)
    /\ UNCHANGED <<accountStatus, getSessions, external>>

\* SAM::onServerStatusChanged.
SamStatusChanged(s) ==
    /\ s \in DOMAIN sessions /\ sessions[s].status # <<>>
    /\ LET Update(call) == [watched  |-> sessions[s].watched,
                            status   |-> Tail(sessions[s].status),
                            listApps |-> call]
           lists == {[kind |-> "list", items |-> q] : q \in Listings(installed[s])}
           calls == IF sessions[s].listApps.live THEN {sessions[s].listApps}
                                                 ELSE LSCalls(s \in samUp, lists)
       IN \/ /\ Head(sessions[s].status)
             /\ \E call \in calls :
                   sessions' = [sessions EXCEPT ![s] = Update(call)]
             /\ UNCHANGED handlers
          \/ /\ ~Head(sessions[s].status)
             /\ sessions' = [sessions EXCEPT ![s] = Update(NoCall)]
             /\ handlers' = RemoveBySessionId(handlers, s)
    /\ UNCHANGED <<accountStatus, getSessions, external>>

-----------------------------------------------------------------------------
\* The filters an application has: its own, or the database's, or none at all.
Declared(app) == IF Manifest[app] # {} THEN Manifest[app] ELSE Conf[app]

TheFilters(declared) == UNION declared

\* A slip.
FirstFiltersInList(apps, i) ==
    LET declaring == {j \in 1..i : Declared(apps[j]) # {}} IN
    IF declaring = {} THEN {}
    ELSE TheFilters(Declared(apps[CHOOSE j \in declaring :
                                     \A m \in declaring : j <= m]))

\* SAM::onListApps keeps `intentFilters` over the whole list: an application that
\* declares none gets the filters of the last one before it that does.
FiltersInList(apps, i) ==
    LET declaring == {j \in 1..i : Declared(apps[j]) # {}} IN
    IF declaring = {} THEN {}
    ELSE TheFilters(Declared(apps[CHOOSE j \in declaring :
                                     \A m \in declaring : m <= j]))

MakeHandler(s, app, filters) ==
    [name |-> app, sessionId |-> GetSessionId(s), filters |-> filters]

AddAllByName(s, apps) ==
    [k \in DOMAIN handlers \cup {Split[apps[i]] : i \in DOMAIN apps} |->
        IF k \in DOMAIN handlers THEN handlers[k]
        ELSE LET i == CHOOSE j \in DOMAIN apps : Split[apps[j]] = k
             IN MakeHandler(s, apps[i], FiltersInList(apps, i))]

AddAll(s, apps) ==
    LET Made(i) == MakeHandler(s, apps[i], FiltersInList(apps, i))
        new     == {i \in DOMAIN apps : Accepts(handlers, Made(i))}
        keys    == {GetKey(Made(i)) : i \in new}
    IN [k \in DOMAIN handlers \cup keys |->
           IF k \in DOMAIN handlers THEN handlers[k]
           ELSE Made(CHOOSE i \in new : GetKey(Made(i)) = k)]

OnListApps(s) ==
    LET queue == sessions[s].listApps.replies
        reply == Head(queue)
    IN
    /\ s \in DOMAIN sessions /\ queue # <<>>
    /\ sessions' = [sessions EXCEPT ![s].listApps.replies = Tail(@)]
    /\ \/ reply.kind = "list" /\ handlers' = AddAll(s, reply.items)
       \/ reply.kind = "added"
          /\ handlers' = AddHandler(handlers,
                            MakeHandler(s, reply.items[1],
                                        TheFilters(Declared(reply.items[1]))))
       \/ reply.kind = "removed"
          /\ handlers' = RemoveHandler(handlers,
                            ConvertKey(GetSessionId(s), reply.items[1]))
       \/ reply.kind \in {"updated", "error"} /\ UNCHANGED handlers
    /\ UNCHANGED <<accountStatus, getSessions, external>>

-----------------------------------------------------------------------------
\* The services.  The hub tells their status where it was asked to.
Told(watched, queue, up) == IF watched THEN Append(queue, up) ELSE queue

AccountGoes ==
    /\ EnableSession /\ accountUp /\ Room(accountStatus)
    /\ getSessions.served => Room(getSessions.replies)
    /\ accountUp' = FALSE
    /\ accountStatus' = Told(accountWatched, accountStatus, FALSE)
    /\ getSessions' = Dead(getSessions)
    /\ UNCHANGED <<accountWatched, sessions, handlers, users, samUp, installed>>

AccountComes ==
    /\ EnableSession /\ ~accountUp /\ Room(accountStatus)
    /\ accountUp' = TRUE
    /\ accountStatus' = Told(accountWatched, accountStatus, TRUE)
    /\ UNCHANGED <<accountWatched, getSessions, sessions, handlers, users, samUp, installed>>

UsersChange ==
    /\ EnableSession /\ accountUp
    /\ getSessions.served => Room(getSessions.replies)
    /\ users' \in SUBSET SessionIds \ {users}
    /\ getSessions' = Push(getSessions, [kind |-> "list", items |-> users'])
    /\ UNCHANGED <<accountWatched, accountStatus, sessions, handlers, accountUp, samUp,
                   installed>>

\* What the application manager of s does reaches the session if there is one.
ForSession(s, x) ==
    IF s \in DOMAIN sessions THEN [sessions EXCEPT ![s] = x] ELSE sessions

SamGoes(s) ==
    /\ s \in samUp
    /\ s \in DOMAIN sessions => /\ Room(sessions[s].status)
                                /\ RoomInList(sessions[s].listApps.replies)
    /\ samUp' = samUp \ {s}
    /\ sessions' = ForSession(s,
           [watched  |-> sessions[s].watched,
            status   |-> Told(sessions[s].watched, sessions[s].status, FALSE),
            listApps |-> Dead(sessions[s].listApps)])
    /\ UNCHANGED <<accountWatched, accountStatus, getSessions, handlers, accountUp, users,
                   installed>>

SamComes(s) ==
    /\ s \notin samUp
    /\ s \in DOMAIN sessions => Room(sessions[s].status)
    /\ samUp' = samUp \cup {s}
    /\ sessions' = ForSession(s,
           [watched  |-> sessions[s].watched,
            status   |-> Told(sessions[s].watched, sessions[s].status, TRUE),
            listApps |-> sessions[s].listApps])
    /\ UNCHANGED <<accountWatched, accountStatus, getSessions, handlers, accountUp, users,
                   installed>>

\* An application is installed, uninstalled or updated.
Tell(s, kind, app) ==
    /\ s \in samUp
    /\ s \in DOMAIN sessions => RoomInList(sessions[s].listApps.replies)
    /\ sessions' = ForSession(s,
           [watched  |-> sessions[s].watched,
            status   |-> sessions[s].status,
            listApps |-> Push(sessions[s].listApps, [kind |-> kind, items |-> <<app>>])])
    /\ UNCHANGED <<accountWatched, accountStatus, getSessions, handlers, accountUp, users,
                   samUp>>

Install(s, app) ==
    /\ app \notin installed[s]
    /\ installed' = [installed EXCEPT ![s] = @ \cup {app}]
    /\ Tell(s, "added", app)

Uninstall(s, app) ==
    /\ app \in installed[s]
    /\ installed' = [installed EXCEPT ![s] = @ \ {app}]
    /\ Tell(s, "removed", app)

Upgrade(s, app) ==
    /\ app \in installed[s]
    /\ Tell(s, "updated", app)
    /\ UNCHANGED installed

-----------------------------------------------------------------------------
\* The process dies and systemd starts it again: the hub ends every call, nothing is
\* persisted, and the services go on.
Restart ==
    /\ \E watched \in Watches :
          /\ accountWatched' = (EnableSession /\ watched)
          /\ sessions' = FirstSessions(watched)
    /\ accountStatus' = FirstNews(accountWatched', accountUp)
    /\ getSessions' = NoCall
    /\ handlers' = <<>>
    /\ UNCHANGED services

Service == \E s \in SessionIds, app \in AppIds :
               Install(s, app) \/ Uninstall(s, app) \/ Upgrade(s, app)

Next ==
    \/ AccountStatusChanged
    \/ OnGetSessions
    \/ \E s \in SessionIds : SamStatusChanged(s) \/ OnListApps(s)
    \/ AccountGoes \/ AccountComes \/ UsersChange
    \/ \E s \in SessionIds : SamGoes(s) \/ SamComes(s)
    \/ Service
    \/ Restart

Spec == Init /\ [][Next]_vars

\* The main loop delivers every reply that stays under way, and the process stops
\* dying some day; nothing is asked of the services.
Delivery ==
    /\ WF_vars(AccountStatusChanged) /\ WF_vars(OnGetSessions)
    /\ \A s \in SessionIds : WF_vars(SamStatusChanged(s)) /\ WF_vars(OnListApps(s))

Fairness == <>[][~Restart]_vars /\ Delivery

-----------------------------------------------------------------------------
(***************************************************************************)
(* What the component promises.                                            *)
(***************************************************************************)
Filed(s) == {handlers[k].name : k \in {m \in DOMAIN handlers :
                                 handlers[m].sessionId = GetSessionId(s)}}

\* What may be under way on a getSessions and on a listApps call, a call, a session
\* with its SAM, and a handler that is filed.
SessionReplies == {Refused} \cup [kind : {"list"}, items : SUBSET SessionIds]

AppReplies ==
    {Refused} \cup [kind : {"list"}, items : Seq(AppIds)]
    \cup [kind : {"added", "removed", "updated"}, items : {<<app>> : app \in AppIds}]

CallRec(replies) ==
    {call \in [live : BOOLEAN, served : BOOLEAN, replies : Seq(replies)] :
        ~call.live => call = NoCall}

SessionRec ==
    {x \in [watched : BOOLEAN, status : Seq(BOOLEAN), listApps : CallRec(AppReplies)] :
        ~x.watched => x.status = <<>> /\ x.listApps = NoCall}

HandlerRec == [name : AppIds, sessionId : {GetSessionId(s) : s \in SessionIds},
               filters : SUBSET UNION UNION {Declared(app) : app \in AppIds}]

\* Every variable has its type, and a handler is filed under its own key.
TypeOK ==
    /\ accountWatched \in BOOLEAN /\ accountStatus \in Seq(BOOLEAN)
    /\ getSessions \in CallRec(SessionReplies)
    /\ DOMAIN sessions \subseteq SessionIds
    /\ \A s \in DOMAIN sessions : sessions[s] \in SessionRec
    /\ \A k \in DOMAIN handlers :
          handlers[k] \in HandlerRec /\ k = GetKey(handlers[k])
    /\ accountUp \in BOOLEAN /\ users \subseteq SessionIds
    /\ samUp \subseteq SessionIds /\ installed \in [SessionIds -> SUBSET AppIds]

Live(s) == s \in DOMAIN sessions /\ sessions[s].listApps.live

\* "host" is listed as a session but files its handlers under "".
Own(s) == GetSessionId(s) = s

\* A handler belongs to a session that exists and whose application manager is
\* being listened to: nothing a session, a status or the account service leaves
\* behind can be launched.  The handlers of the session "host" are the exception:
\* they are filed under "" and nothing removes "".
NoOrphanHandlers ==
    \A k \in DOMAIN handlers : LET s == handlers[k].sessionId IN
        Live(s) \/ (EnableSession /\ s = "" /\ "host" \in SessionIds)

\* What will be filed for s when the replies under way are delivered.
Mentions(queue, app) ==
    {i \in DOMAIN queue :
        \/ queue[i].kind = "list"
        \/ queue[i].kind \in {"added", "removed"} /\ queue[i].items[1] = app}

\* Whether app is filed when the replies of queue are delivered on top of filed.
Ends(queue, filed, app) ==
    LET said == Mentions(queue, app)
        last == queue[CHOOSE i \in said : \A j \in said : j <= i]
    IN IF said = {} THEN app \in filed
       ELSE last.kind # "removed" /\ app \in Range(last.items)

WillBeFiled(s, app) == Ends(sessions[s].listApps.replies, Filed(s), app)

\* While the application manager serves the listing, the handlers of the session
\* together with the changes under way are exactly its installed applications,
\* across restarts of both services and the mark and sweep of the sessions.  (An
\* application whose id is empty is in no table: Handlers::add refuses it.)
HandlersMirrorApps ==
    \A s \in DOMAIN sessions : Own(s) /\ sessions[s].listApps.served =>
        \A app \in AppIds \ {""} : WillBeFiled(s, app) <=> app \in installed[s]

\* The same for the sessions: the last reply under way, or else m_sessions, is
\* what the account service says, so no session is missed or kept.
SessionsFollowAccount ==
    LET queue == getSessions.replies IN
    getSessions.served =>
        users = IF queue = <<>> THEN DOMAIN sessions ELSE queue[Len(queue)].items

\* Once the status calls have nothing under way, what depends on a service that
\* is down is gone: m_sessions for the account service, the listing for a SAM.
NothingOutlivesItsService ==
    /\ EnableSession /\ ~accountUp /\ accountStatus = <<>> => DOMAIN sessions = {}
    /\ \A s \in DOMAIN sessions :
          s \notin samUp /\ sessions[s].status = <<>> => ~Live(s)

\* While the process lives, a session that survives an update of the session list,
\* and a session whose own application manager is undisturbed, loses no handler but
\* an uninstalled one.
SurvivorsKeepHandlers ==
    [][Restart \/ \A k \in DOMAIN handlers \ DOMAIN handlers' :
          LET s == handlers[k].sessionId IN
          s \in DOMAIN sessions /\ s \in DOMAIN sessions' =>
              LET queue == sessions[s].listApps.replies IN
              \/ sessions[s].status # sessions'[s].status
              \/ /\ queue # <<>> /\ sessions'[s].listApps.replies = Tail(queue)
                 /\ Head(queue) = [kind |-> "removed", items |-> <<handlers[k].name>>]]_vars

\* AppCatalog, as the replies under way and the handlers show it: what each reply
\* will have made of the handlers is news; an error, which is the last, is none.
OwnSessions == {s \in SessionIds : Own(s)}

Named == AppIds \ {""}

UnderWay(s) == IF s \in DOMAIN sessions THEN sessions[s].listApps.replies ELSE <<>>

Heard == {s \in OwnSessions \cap DOMAIN sessions : sessions[s].listApps.served}

News(s) ==
    LET queue == UnderWay(s)
        n     == IF queue # <<>> /\ queue[Len(queue)].kind = "error"
                 THEN Len(queue) - 1 ELSE Len(queue)
    IN [i \in 1..n |-> {app \in Named : Ends(SubSeq(queue, 1, i), Filed(s), app)}]

Offer == [s \in OwnSessions |-> installed[s] \ {""}]

Coming == [s \in OwnSessions |-> News(s)]

Launchable == [s \in OwnSessions |-> Filed(s) \ {""}]

Catalog == INSTANCE AppCatalog WITH
    Sessions <- OwnSessions, Apps <- Named, installed <- Offer,
    heard <- Heard, news <- Coming, shown <- Launchable

\* What can be launched in a session goes through what was installed in it, in order
\* and without a gap, from the listing on, whatever else is under way; only the loss
\* of the session or its application manager empties it.
ImplementsCatalog == Catalog!Spec

\* There is an application to launch in s.
Expected(s, app) ==
    /\ EnableSession => accountUp /\ s \in users
    /\ s \in samUp /\ app \in installed[s]

\* A handler nothing stands behind any longer goes, in whatever order the replies of
\* the three calls that lead to it arrive.
StaleHandlersGo ==
    \A s \in SessionIds, app \in AppIds : Own(s) =>
        ((app \in Filed(s) /\ ~Expected(s, app))
            ~> (app \notin Filed(s) \/ Expected(s, app)))

\* An application that declares filters, of its own or in the database, is matched by
\* these alone, wherever it stands in a list and whatever is kept of those before it.
DeclaredFiltersAreOwn ==
    \A k \in DOMAIN handlers : LET app == handlers[k].name IN
        Declared(app) # {} => handlers[k].filters = TheFilters(Declared(app))

\* "Main role of intentManager is 'launch handler' based on generated intent."
\* (README.md:7): a handler is matched by the filters of its own application.
HandlersHaveTheirOwnFilters ==
    \A k \in DOMAIN handlers :
        handlers[k].filters = TheFilters(Declared(handlers[k].name))
===============================================================================
