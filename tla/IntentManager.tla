----------------------------- MODULE IntentManager -----------------------------
(*****************************************************************************)
(* The intent side of the service: the luna API of core/IntentManager, the   *)
(* registry of started intents (base/Intents, base/Intent), the launch call  *)
(* to the application manager (SAM::launch, SAM::onLaunch) and the watch on  *)
(* the bus status of the application or service that started an intent.      *)
(*                                                                           *)
(* The service is one GLib main loop: a handler runs to its end before the   *)
(* next message is dispatched, so a handler is one action.  What interleaves *)
(* is the messages: requests, launch replies, status changes, cancellations. *)
(*                                                                           *)
(* A caller is a bus client at its position, [name, session]: `name` is what *)
(* IntentManager::getName returns, `session` what AbsLunaClient::getSessionId*)
(* returns ("" is the host).  The session directory and its handlers are     *)
(* another component; here they are any of Directories and may change        *)
(* between two messages.                                                     *)
(*                                                                           *)
(* The n-th successful launch has token n.  Tokens are not reused after a    *)
(* restart in the model (a reply to a call of a dead process is not          *)
(* delivered), so a token also names the started intent in the properties.   *)
(*****************************************************************************)
EXTENDS Integers, Sequences, FiniteSets, Functions, Matching

CONSTANTS
    Callers,      \* set of [name, session]
    ClientIds,    \* values a request may put in the intent's own "intentId"
    Bodies,       \* the intents requests carry
    Directories,  \* set of [sessions, handlers] the session directory may hold
    MaxIds,       \* bound: values s_counter takes
    MaxStarts,    \* bound: successful starts
    MaxPending,   \* bound: status messages queued on one subscription
    MaxRestarts,  \* bound: restarts of the process
    TokenClash    \* whether the serial number of a message the hub sends may
                  \* equal the token of one of the service's own live calls

ASSUME BoundsAssumption ==
    /\ MaxIds \in Nat /\ MaxStarts \in Nat /\ MaxRestarts \in Nat
    /\ MaxPending \in Nat \ {0}

ASSUME ClientIdsAssumption == ClientIds \subseteq Int

ASSUME TokenClashAssumption == TokenClash \in BOOLEAN

\* Session ids and names of handlers are strings.
ASSUME DirectoriesAssumption ==
    \A d \in Directories :
        /\ d.sessions \subseteq STRING
        /\ \A k \in DOMAIN d.handlers :
              d.handlers[k].name \in STRING /\ d.handlers[k].sessionId \in STRING

VARIABLES
    sessions, handlers,  \* Account::m_sessions (ids) and Handlers::m_handlers
    s_counter,           \* Intent::s_counter
    intents,             \* Intents::m_intents
    statusCalls,         \* live registerServerStatus calls of start, each with
                         \* the replies under way, oldest first
    online,              \* callers the hub sees on the bus
    launches,            \* history: every launch call made, with its reply
    view,                \* each caller's own view of its subscription to the
                         \* intent with a given token
    hasLeft,             \* history: callers that left the bus in this epoch
    epoch                \* history: restarts so far

directoryVars == <<sessions, handlers>>
vars == <<sessions, handlers, s_counter, intents, statusCalls, online,
          launches, view, hasLeft, epoch>>

Ids    == 1..MaxIds \cup ClientIds
Tokens == 1..MaxStarts
Views  == {"none", "open", "answered", "failed"}
Names  == {c.name : c \in Callers}

IntentRec == [intentId : Ids, token : Tokens, owner : Names,
              subscribers : SUBSET Callers]

LaunchRec == [id : Ids, chosen : BOOLEAN, caller : Callers, session : STRING,
              app : STRING, handlerSession : STRING, monitored : BOOLEAN, epoch : Nat,
              reply : {"pending", "ok", "failed", "cancelled"}]

-----------------------------------------------------------------------------
\* Plausible slips of the operations below; only the mutation runs use them.
FirstIntent(t) == {k \in DOMAIN intents : \A j \in DOMAIN intents : k <= j}

KeepTheIntent(id) == intents

IdFromRegistrySize == Cardinality(DOMAIN intents) + 1

PostIncrement == s_counter

LaunchedOf(owner) ==
    {k \in DOMAIN intents : /\ intents[k].owner = owner
                            /\ launches[intents[k].token].reply # "pending"}

SubscribeReplaces(c, id) ==
    /\ c \in online
    /\ id \in DOMAIN intents
    /\ intents' = [intents EXCEPT ![id].subscribers = {c}]
    /\ view' = [view EXCEPT ![intents[id].token][c] = "open"]
    /\ UNCHANGED <<directoryVars, s_counter, statusCalls, online, launches,
                   hasLeft, epoch>>

StaysSubscribed(T, c) == intents

\* Intents: getByToken is {} for nullptr, else the first match in id order.
GetByToken(t) ==
    {k \in DOMAIN intents :
        /\ intents[k].token = t
        /\ \A j \in DOMAIN intents : intents[j].token = t => k <= j}

RemoveById(id) == Erase(intents, {id})

OwnedBy(owner) == {k \in DOMAIN intents : intents[k].owner = owner}

RemoveByOwner(owner) == Erase(intents, OwnedBy(owner))

\* Intent::respond: LS::SubscriptionPoint::post to whoever is subscribed.
Post(t, to, what) ==
    [view EXCEPT ![t] =
        [c \in Callers |-> IF c \in to THEN what ELSE view[t][c]]]

\* Intent::Intent.
FreshId == s_counter + 1

\* The intent as fromJson leaves it.
SessionNotSet(body) == [body EXCEPT !.sessionId = ""]

\* A request may still be read after its sender left.
MaySend(c) == c \in online \cup hasLeft

-----------------------------------------------------------------------------
Init ==
    /\ \E d \in Directories : sessions = d.sessions /\ handlers = d.handlers
    /\ s_counter = 0
    /\ intents = <<>>
    /\ statusCalls = <<>>
    /\ online \in SUBSET Callers
    /\ launches = <<>>
    /\ view = [t \in Tokens |-> [c \in Callers |-> "none"]]
    /\ hasLeft = {}
    /\ epoch = 0

-----------------------------------------------------------------------------
\* IntentManager::query.  The listing is an answer and no state; constructing
\* the Intent takes an id even when the request has no intent.
Query ==
    /\ s_counter < MaxIds
    /\ s_counter' = FreshId
    /\ UNCHANGED <<directoryVars, intents, statusCalls, online, launches,
                   view, hasLeft, epoch>>

\* start finds no session, no valid intent or no handler, or the bus refuses
\* the launch call (which it may do to any request).
StartRejected ==
    /\ s_counter < MaxIds
    /\ s_counter' = FreshId
    /\ UNCHANGED <<directoryVars, intents, statusCalls, online, launches,
                   view, hasLeft, epoch>>

\* start up to Intents::add.  `sid` is the request's own "sessionId" or the
\* caller's session; the intent has no sessionId yet when its handler is looked
\* up.  `chosen` tells whether the intent's JSON brought its id.  The status
\* call is made for the caller's position; when it fails (monitored = FALSE)
\* nobody looks at the result.  The hub has no status for an empty name.
Start(c, sid, body, id, chosen, subscribe, monitored) ==
    LET t    == Len(launches) + 1
        subs == IF subscribe THEN {c} \cap online ELSE {}
    IN
    /\ s_counter < MaxIds /\ Len(launches) < MaxStarts
    /\ MaySend(c)
    /\ IF chosen THEN id \in ClientIds ELSE id = FreshId
    /\ monitored => c.name # ""
    /\ sid \in sessions
    /\ IsValid(body)
    /\ \E h \in GetHandler(handlers, SessionNotSet(body)) :
          launches' = Append(launches,
              [id |-> id, chosen |-> chosen, caller |-> c, session |-> sid,
               app |-> h.name, handlerSession |-> h.sessionId,
               monitored |-> monitored, epoch |-> epoch, reply |-> "pending"])
    /\ s_counter' = FreshId
    /\ intents' = Put(intents, id,
                      [intentId |-> id, token |-> t, owner |-> c.name,
                       subscribers |-> subs])
    /\ statusCalls' = IF monitored
                      THEN Put(statusCalls, t, <<c \in online>>)
                      ELSE statusCalls
    /\ view' = Post(t, subs, "open")
    /\ UNCHANGED <<directoryVars, online, hasLeft, epoch>>

\* IntentManager::sendResult; anybody may send any id.
SendResult(id) ==
    /\ view' = IF id \in DOMAIN intents
               THEN Post(intents[id].token, intents[id].subscribers, "answered")
               ELSE view
    /\ UNCHANGED <<directoryVars, s_counter, intents, statusCalls, online,
                   launches, hasLeft, epoch>>

\* IntentManager::subscribeResult, granted.
SubscribeResult(c, id) ==
    /\ c \in online
    /\ id \in DOMAIN intents
    /\ intents' = [intents EXCEPT ![id].subscribers = @ \cup {c}]
    /\ view' = Post(intents[id].token, {c}, "open")
    /\ UNCHANGED <<directoryVars, s_counter, statusCalls, online, launches,
                   hasLeft, epoch>>

\* subscribeResult without "intentId", for an unknown id or without subscribe.
SubscribeRejected == UNCHANGED vars

-----------------------------------------------------------------------------
\* SAM::onLaunch, the one reply to the launch call with token t.
OnLaunch(t, returnValue) ==
    /\ t \in DOMAIN launches
    /\ launches[t].reply = "pending" /\ launches[t].epoch = epoch
    /\ launches' = [launches EXCEPT ![t].reply =
                        IF returnValue THEN "ok" ELSE "failed"]
    /\ IF returnValue \/ GetByToken(t) = {}
       THEN UNCHANGED <<view, intents>>
       ELSE \E k \in GetByToken(t) :
              /\ view' = Post(t, intents[k].subscribers, "failed")
              /\ intents' = RemoveById(intents[k].intentId)
    /\ UNCHANGED <<directoryVars, s_counter, statusCalls, online, hasLeft,
                   epoch>>

\* LSCallCancel with the number `n` of a message: it ends the live call that has
\* this token, if there is one.
LiveCalls == {"status"} \X DOMAIN statusCalls
             \cup {"launch"} \X {t \in DOMAIN launches :
                    launches[t].reply = "pending" /\ launches[t].epoch = epoch}

LSCallCancel(n, calls) ==
    /\ statusCalls' = Erase(calls, {t \in DOMAIN calls : <<"status", t>> \in n})
    /\ launches' = [t \in DOMAIN launches |->
                      IF <<"launch", t>> \in n
                      THEN [launches[t] EXCEPT !.reply = "cancelled"]
                      ELSE launches[t]]

\* IntentManager::_onServerStatusChanged, the reply under way on call t.  The
\* reply names the service only.  On "connected": false the code cancels
\* getMessageToken(), the number of this reply and not of the call it answers:
\* the calls `hit` by that number are none, or one that happens to share it.
OnServerStatusChanged(t, hit) ==
    LET rest == [statusCalls EXCEPT ![t] = Tail(@)] IN
    /\ t \in DOMAIN statusCalls /\ statusCalls[t] # <<>>
    /\ IF Head(statusCalls[t])
       THEN statusCalls' = rest /\ UNCHANGED <<intents, launches>>
       ELSE /\ intents' = RemoveByOwner(launches[t].caller.name)
            /\ LSCallCancel(hit, rest)
    /\ UNCHANGED <<directoryVars, s_counter, online, view, hasLeft, epoch>>

\* What a message number can hit.
Hits == {{}} \cup IF TokenClash THEN {{call} : call \in LiveCalls} ELSE {}

-----------------------------------------------------------------------------
\* The bus.  The hub queues a status message on every call that watches c.
Watching(c) == {t \in DOMAIN statusCalls : launches[t].caller = c}

Notify(c, connected) ==
    /\ \A t \in Watching(c) : Len(statusCalls[t]) < MaxPending
    /\ statusCalls' = [t \in DOMAIN statusCalls |->
                          IF t \in Watching(c)
                          THEN Append(statusCalls[t], connected)
                          ELSE statusCalls[t]]

\* A client drops its subscription to the intent with token t.
WithoutSubscriber(T, c) ==
    [k \in DOMAIN intents |->
        IF intents[k].token \in T
        THEN [intents[k] EXCEPT !.subscribers = @ \ {c}]
        ELSE intents[k]]

CancelSubscription(c, t) ==
    /\ view[t][c] # "none"
    /\ view' = Post(t, {c}, "none")
    /\ intents' = WithoutSubscriber({t}, c)
    /\ UNCHANGED <<directoryVars, s_counter, statusCalls, online, launches,
                   hasLeft, epoch>>

Leave(c) ==
    /\ c \in online
    /\ online' = online \ {c}
    /\ hasLeft' = hasLeft \cup {c}
    /\ Notify(c, FALSE)
    /\ view' = [t \in Tokens |-> [view[t] EXCEPT ![c] = "none"]]
    /\ intents' = WithoutSubscriber(Tokens, c)
    /\ UNCHANGED <<directoryVars, s_counter, launches, epoch>>

Join(c) ==
    /\ c \notin online
    /\ online' = online \cup {c}
    /\ Notify(c, TRUE)
    /\ UNCHANGED <<directoryVars, s_counter, intents, launches, view, hasLeft,
                   epoch>>

DirectoryChange ==
    /\ \E d \in Directories : sessions' = d.sessions /\ handlers' = d.handlers
    /\ UNCHANGED <<s_counter, intents, statusCalls, online, launches, view,
                   hasLeft, epoch>>

\* The process dies and systemd starts it again (Restart=on-failure): nothing
\* is persisted, the hub ends every call, the ids start from 1 again.
Forget ==
    /\ epoch < MaxRestarts
    /\ epoch' = epoch + 1
    /\ s_counter' = 0
    /\ intents' = <<>>
    /\ statusCalls' = <<>>
    /\ view' = [t \in Tokens |-> [c \in Callers |-> "none"]]
    /\ hasLeft' = {}
    /\ UNCHANGED <<online, launches>>

Restart ==
    /\ Forget
    /\ \E d \in Directories : sessions' = d.sessions /\ handlers' = d.handlers

-----------------------------------------------------------------------------
AnyStart ==
    \E c \in Callers, sid \in sessions, body \in Bodies,
       chosen, subscribe, monitored \in BOOLEAN :
        \E id \in ClientIds \cup {FreshId} :
            Start(c, sid, body, id, chosen, subscribe, monitored)

Next ==
    \/ Query
    \/ StartRejected
    \/ AnyStart
    \/ \E id \in Ids : SendResult(id)
    \/ \E c \in Callers, id \in Ids : SubscribeResult(c, id)
    \/ SubscribeRejected
    \/ \E t \in Tokens, returnValue \in BOOLEAN : OnLaunch(t, returnValue)
    \/ \E t \in Tokens, hit \in Hits : OnServerStatusChanged(t, hit)
    \/ \E c \in Callers, t \in Tokens : CancelSubscription(c, t)
    \/ \E c \in Callers : Leave(c) \/ Join(c)
    \/ DirectoryChange
    \/ Restart

Spec == Init /\ [][Next]_vars

\* The main loop dispatches every message that stays queued; clients, the hub
\* and the application manager owe nothing.
FairSpec == Spec /\ \A t \in Tokens :
      WF_vars(\E hit \in Hits : OnServerStatusChanged(t, hit))
-----------------------------------------------------------------------------
(***************************************************************************)
(* What the component promises.  t stands for the t-th started intent.     *)
(***************************************************************************)
Current(t) == t \in DOMAIN launches /\ launches[t].epoch = epoch

Registered(t) == \E k \in DOMAIN intents : intents[k].token = t

\* A later start of this process took the id of t.
Displaced(t) ==
    \E u \in DOMAIN launches :
        u > t /\ launches[u].epoch = epoch /\ launches[u].id = launches[t].id

\* A client with the name of t's owner left the bus, wherever it was.
NamesakeLeft(t) == \E c \in hasLeft : c.name = launches[t].caller.name

\* Every variable has its type, and the registry files an intent under its id.
TypeOK ==
    /\ \E d \in Directories : sessions = d.sessions /\ handlers = d.handlers
    /\ s_counter \in 0..MaxIds
    /\ DOMAIN intents \subseteq Ids
    /\ \A k \in DOMAIN intents : intents[k] \in IntentRec /\ intents[k].intentId = k
    /\ launches \in Seq(LaunchRec) /\ Len(launches) <= MaxStarts
    /\ DOMAIN statusCalls \subseteq DOMAIN launches
    /\ \A t \in DOMAIN statusCalls : statusCalls[t] \in Seq(BOOLEAN)
    /\ online \subseteq Callers /\ hasLeft \subseteq Callers
    /\ view \in [Tokens -> [Callers -> Views]]
    /\ epoch \in 0..MaxRestarts

\* The id start answered with leads sendResult and subscribeResult to the intent
\* of that start and to no other, unless a request chose an id itself
\* (Intent::fromJson takes "intentId" from the request).
ResultCorrelation ==
    \A t \in DOMAIN launches :
        Current(t) /\ ~launches[t].chosen /\ launches[t].id \in DOMAIN intents =>
            LET u == intents[launches[t].id].token
            IN u = t \/ launches[u].chosen

\* A started intent stays in the registry until its launch fails, a request takes
\* its id, or a client with its owner's name leaves: onLaunch finds the intent of
\* the launch it answers, and removeByOwner takes the intents of one name only.
IntentsEndForACause ==
    \A t \in DOMAIN launches : Current(t) =>
        \/ Registered(t)
        \/ launches[t].reply = "failed"
        \/ Displaced(t)
        \/ NamesakeLeft(t)

\* Who waits for a result, and was not told that the launch failed, is still
\* subscribed to the registered intent, so that a later sendResult reaches it;
\* the two losses nobody is told of are a taken id and a departed namesake.
NoSilentLoss ==
    \A t \in Tokens, c \in Callers : view[t][c] \in {"open", "answered"} =>
        \/ \E k \in DOMAIN intents :
               intents[k].token = t /\ c \in intents[k].subscribers
        \/ Displaced(t)
        \/ NamesakeLeft(t)

\* No result follows the news that the launch failed: onLaunch drops the intent
\* it posts the failure to, and no later start or subscription revives it.
VerdictIsFinal ==
    [][\A t \in Tokens, c \in Callers :
          view[t][c] = "failed" => view'[t][c] \in {"failed", "none"}]_vars

\* The service never misses that the owner of a registered intent is gone: the
\* last thing its status call has to deliver is the departure, however often the
\* owner left and came back.
NoMissedDeparture ==
    \A t \in Tokens :
        Registered(t) /\ launches[t].monitored /\ launches[t].caller \notin online =>
            /\ t \in DOMAIN statusCalls
            /\ statusCalls[t] # <<>>
            /\ statusCalls[t][Len(statusCalls[t])] = FALSE

\* An intent whose monitored owner is gone is collected, or its owner comes back.
AbandonedIntentsCollected ==
    \A t \in Tokens :
        (Registered(t) /\ launches[t].monitored /\ launches[t].caller \notin online)
            ~> (~Registered(t) \/ launches[t].caller \in online)

\* The luna API is the ledger of IntentLedger: a result reaches exactly those who
\* wait for it, whatever came in between; an intent that is over is never revived;
\* a departure ends the intents of the name that left and no others; a start ends
\* another intent only where requests choose ids.
Owners    == [t \in DOMAIN launches |-> launches[t].caller.name]
Running   == {intents[k].token : k \in DOMAIN intents}
NamesLeft == {c.name : c \in hasLeft}

Ledger == INSTANCE IntentLedger WITH
    MayDisplace <- ClientIds # {},
    owners <- Owners, running <- Running, told <- view, left <- NamesLeft

ImplementsLedger == Ledger!Spec

\* "server status should be monitored based on requester position not sessionId"
\* (IntentManager.cpp:154): an intent that ends because a client left the bus
\* ends because its own requester left, not another session's with its name.
IntentsEndForOwnCause ==
    \A t \in DOMAIN launches : Current(t) =>
        \/ Registered(t)
        \/ launches[t].reply = "failed"
        \/ Displaced(t)
        \/ launches[t].caller \in hasLeft

\* "SAM is session-side service" (SAM.h:33): the application manager of a session
\* is asked to launch applications of that session.
LaunchInOwnSession ==
    \A t \in DOMAIN launches : launches[t].handlerSession = launches[t].session
===============================================================================
