----------------------------- MODULE IntentService -----------------------------
(*****************************************************************************)
(* The whole service: the luna API and the registry of intents (module       *)
(* IntentManager) next to the session directory (module SessionDirectory),   *)
(* in one process on one main loop.  They meet in start and query, which     *)
(* look up Account::m_sessions and Handlers::m_handlers, and in a crash,     *)
(* which takes both: the services go on, and the clients of the bus stay.    *)
(*                                                                           *)
(* IntentManager alone lets the directory be anything at any time; here it   *)
(* is what the account service and the application managers made of it.      *)
(*****************************************************************************)
EXTENDS SessionDirectory

CONSTANTS
    Callers, ClientIds, Bodies, MaxIds, MaxStarts, MaxPending, MaxRestarts,
    TokenClash   \* as in IntentManager

VARIABLES
    s_counter, intents, statusCalls, online, launches, view, hasLeft,
    epoch        \* as in IntentManager

intentVars == <<s_counter, intents, statusCalls, online, launches, view, hasLeft, epoch>>
serviceVars == <<vars, intentVars>>

\* The directory as start and query see it: the ids of the sessions, and the table.
Listed == DOMAIN sessions

Tables == UNION {[keys -> HandlerRec] : keys \in SUBSET {GetKey(h) : h \in HandlerRec}}

DirectoryStates == [sessions : SUBSET SessionIds, handlers : Tables]

IM == INSTANCE IntentManager WITH sessions <- Listed, Directories <- DirectoryStates

ASSUME IntentAssumption ==
    /\ MaxIds \in Nat /\ MaxStarts \in Nat /\ MaxRestarts \in Nat
    /\ MaxPending \in Nat \ {0}
    /\ ClientIds \subseteq Int
    /\ TokenClash \in BOOLEAN

ASSUME NamesAreStrings == SessionIds \cup AppIds \subseteq STRING

-----------------------------------------------------------------------------
ServiceInit == Init /\ IM!Init

\* A message of the intent side is dispatched, or its clients do something.
IntentStep ==
    /\ UNCHANGED vars
    /\ \/ IM!Query \/ IM!StartRejected \/ IM!AnyStart
       \/ \E id \in IM!Ids : IM!SendResult(id)
       \/ \E c \in Callers, id \in IM!Ids : IM!SubscribeResult(c, id)
       \/ \E t \in IM!Tokens, returnValue \in BOOLEAN : IM!OnLaunch(t, returnValue)
       \/ \E t \in IM!Tokens, hit \in IM!Hits : IM!OnServerStatusChanged(t, hit)
       \/ \E c \in Callers, t \in IM!Tokens : IM!CancelSubscription(c, t)
       \/ \E c \in Callers : IM!Leave(c) \/ IM!Join(c)

\* A message of the directory is dispatched, or its services do something.
DirectoryStep ==
    /\ \/ AccountStatusChanged
       \/ OnGetSessions
       \/ \E s \in SessionIds : SamStatusChanged(s) \/ OnListApps(s)
       \/ AccountGoes \/ AccountComes \/ UsersChange
       \/ \E s \in SessionIds : SamGoes(s) \/ SamComes(s)
       \/ Service
    /\ UNCHANGED intentVars

\* The process dies with both parts and is started again.
Reboot == Restart /\ IM!Forget

ServiceNext == IntentStep \/ DirectoryStep \/ Reboot

ServiceSpec == ServiceInit /\ [][ServiceNext]_serviceVars

\* MaxRestarts bounds the deaths of the process.
FairServiceSpec == ServiceSpec /\ Delivery

-----------------------------------------------------------------------------
\* The intent side of the service is what IntentManager says of it, whatever the
\* directory does, and the directory is what SessionDirectory says.
IntentSide == IM!Spec

DirectorySide == Spec

\* What start launches is an application that a session has: the handler's session
\* exists and its application manager is being listened to, and the application is
\* installed there, unless the message that takes its handler away is already under
\* way.  It is not the manager that is asked: SAM::launch is that of the request's
\* session, and LaunchInOwnSession of IntentManager shows that this may be another
\* one.  The handlers of the session "host" are filed under "" and may be left over.
LaunchesAreOfInstalledApps ==
    [][\A t \in DOMAIN launches' \ DOMAIN launches :
          LET app == launches'[t].app
              s   == launches'[t].handlerSession
          IN \/ EnableSession /\ s = "" /\ "host" \in SessionIds
             \/ /\ Live(s)
                /\ \/ app \in installed[s]
                   \/ ~WillBeFiled(s, app)
                   \/ FALSE \in Range(sessions[s].status)]_serviceVars

\* The application declares a filter that accepts the intent, or is named in it.
Serves(app, body) ==
    IF HasName(body) THEN app = body.name
    ELSE \E filter \in TheFilters(Declared(app)) : CompareIntentFilter(filter, body)

\* start would find the session and a handler.
Startable(s, body) ==
    s \in Listed /\ GetHandler(handlers, IM!SessionNotSet(body)) # {}

\* While services answer, an intent that an installed application of a running session
\* serves can be started in it after a while, whatever died and came back before:
\* start needs the account service's sessions, the application manager's list, the
\* filters filed with it and the match, all of which come in messages of their own.
IntentsBecomeStartable ==
    \A s \in SessionIds, app \in AppIds, body \in Bodies :
        (Expected(s, app) /\ Serves(app, body))
            ~> (~Expected(s, app) \/ Startable(s, body))
===============================================================================
