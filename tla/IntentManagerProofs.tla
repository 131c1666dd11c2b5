-------------------------- MODULE IntentManagerProofs --------------------------
(*****************************************************************************)
(* Theorems about IntentManager, for every value of its constants.           *)
(*****************************************************************************)
EXTENDS IntentManager, MatchingProofs

-----------------------------------------------------------------------------
\* A function on the indices of a sequence is a sequence.
LEMMA SameIndices ==
    ASSUME NEW S, NEW q \in Seq(S), NEW f,
           f = [i \in DOMAIN q |-> f[i]], \A i \in DOMAIN q : f[i] \in S
    PROVE  f \in Seq(S) /\ Len(f) = Len(q)
  OBVIOUS

-----------------------------------------------------------------------------
\* The process starts with its types.
LEMMA TypeInit == Init => TypeOK
  <1> SUFFICES ASSUME Init PROVE TypeOK
    OBVIOUS
  <1> USE BoundsAssumption DEF Init
  <1>1. launches \in Seq(LaunchRec) /\ Len(launches) = 0 /\ DOMAIN launches = {}
    OBVIOUS
  <1>2. DOMAIN intents = {} /\ DOMAIN statusCalls = {}
    OBVIOUS
  <1>3. view \in [Tokens -> [Callers -> Views]]
    BY DEF Views
  <1> QED
    BY <1>1, <1>2, <1>3 DEF TypeOK

\* Posting to subscribers gives every caller a view again.
LEMMA TypePost ==
    ASSUME TypeOK, NEW t \in Tokens, NEW to, NEW what \in Views
    PROVE  Post(t, to, what) \in [Tokens -> [Callers -> Views]]
  BY DEF TypeOK, Post
\* The next token is a new one.
LEMMA NewLaunch ==
    ASSUME TypeOK, NEW r \in LaunchRec, Len(launches) < MaxStarts
    PROVE  LET q == Append(launches, r)
               t == Len(launches) + 1
           IN /\ q \in Seq(LaunchRec) /\ Len(q) = t /\ Len(q) <= MaxStarts
              /\ DOMAIN q = DOMAIN launches \cup {t}
              /\ q[t] = r
              /\ \A u \in DOMAIN launches : q[u] = launches[u]
              /\ t \in Tokens /\ t \notin DOMAIN launches
  BY BoundsAssumption DEF TypeOK, Tokens

NewToken == Len(launches) + 1

\* What start does, told by the launch r and the intent i it makes.
StartEffect(r, i) ==
    /\ s_counter < MaxIds /\ Len(launches) < MaxStarts
    /\ ~r.chosen => r.id = s_counter + 1
    /\ r.chosen => r.id \in ClientIds
    /\ r.epoch = epoch /\ r.reply = "pending"
    /\ r.caller \in online \cup hasLeft
    /\ i.intentId = r.id /\ i.token = NewToken /\ i.owner = r.caller.name
    /\ i.subscribers \subseteq {r.caller} \cap online
    /\ launches' = Append(launches, r)
    /\ s_counter' = s_counter + 1
    /\ intents' = Put(intents, r.id, i)
    /\ statusCalls' = IF r.monitored
                      THEN Put(statusCalls, NewToken, <<r.caller \in online>>)
                      ELSE statusCalls
    /\ view' = Post(NewToken, i.subscribers, "open")
    /\ UNCHANGED <<sessions, handlers, online, hasLeft, epoch>>

\* Every start makes a launch and an intent of their types.
LEMMA StartMakes ==
    ASSUME TypeOK, AnyStart
    PROVE  \E r \in LaunchRec, i \in IntentRec : StartEffect(r, i)
  <1>1. PICK c \in Callers, sid \in sessions, body \in Bodies,
             chosen \in BOOLEAN, subscribe \in BOOLEAN, monitored \in BOOLEAN :
        \E id \in ClientIds \cup {FreshId} :
            Start(c, sid, body, id, chosen, subscribe, monitored)
    BY Zenon DEF AnyStart
  <1>2. PICK id \in ClientIds \cup {FreshId} :
            Start(c, sid, body, id, chosen, subscribe, monitored)
    BY <1>1, Zenon
  <1> DEFINE subs == IF subscribe THEN {c} \cap online ELSE {}
  <1>3. /\ s_counter < MaxIds /\ Len(launches) < MaxStarts
        /\ c \in online \cup hasLeft
        /\ IF chosen THEN id \in ClientIds ELSE id = s_counter + 1
        /\ \E h \in GetHandler(handlers, SessionNotSet(body)) :
              launches' = Append(launches,
                  [id |-> id, chosen |-> chosen, caller |-> c, session |-> sid,
                   app |-> h.name, handlerSession |-> h.sessionId,
                   monitored |-> monitored, epoch |-> epoch, reply |-> "pending"])
        /\ s_counter' = s_counter + 1
        /\ intents' = Put(intents, id,
                          [intentId |-> id, token |-> NewToken, owner |-> c.name,
                           subscribers |-> subs])
        /\ statusCalls' = IF monitored
                          THEN Put(statusCalls, NewToken, <<c \in online>>)
                          ELSE statusCalls
        /\ view' = Post(NewToken, subs, "open")
        /\ UNCHANGED <<sessions, handlers, online, hasLeft, epoch>>
    BY <1>2, Zenon DEF Start, FreshId, MaySend, directoryVars, NewToken
  <1>4. PICK h \in GetHandler(handlers, SessionNotSet(body)) :
          launches' = Append(launches,
              [id |-> id, chosen |-> chosen, caller |-> c, session |-> sid,
               app |-> h.name, handlerSession |-> h.sessionId,
               monitored |-> monitored, epoch |-> epoch, reply |-> "pending"])
    BY <1>3, Zenon
  <1> DEFINE r == [id |-> id, chosen |-> chosen, caller |-> c, session |-> sid,
                   app |-> h.name, handlerSession |-> h.sessionId,
                   monitored |-> monitored, epoch |-> epoch, reply |-> "pending"]
             i == [intentId |-> id, token |-> NewToken, owner |-> c.name,
                   subscribers |-> subs]
  <1>5. id \in Ids
    <2>1. s_counter \in 0..MaxIds /\ s_counter < MaxIds /\ MaxIds \in Nat
      BY <1>3, BoundsAssumption DEF TypeOK
    <2> QED
      BY <2>1 DEF Ids, FreshId
  <1>6. sid \in STRING /\ h.name \in STRING /\ h.sessionId \in STRING
    BY DirectoriesAssumption DEF TypeOK, GetHandler, MatchingKeys
  <1>7. epoch \in Nat
    BY BoundsAssumption DEF TypeOK
  <1>8. r \in LaunchRec
    BY <1>5, <1>6, <1>7 DEF LaunchRec
  <1>9. NewToken \in Tokens
    BY <1>3, BoundsAssumption DEF TypeOK, NewToken, Tokens
  <1>10. i \in IntentRec
    BY <1>5, <1>9 DEF IntentRec, Names
  <1>11. /\ r.id = id /\ r.chosen = chosen /\ r.caller = c /\ r.monitored = monitored
         /\ r.epoch = epoch /\ r.reply = "pending"
         /\ i.intentId = id /\ i.token = NewToken /\ i.owner = c.name
         /\ i.subscribers = subs
    OBVIOUS
  <1>12. subs \subseteq {c} \cap online
    OBVIOUS
  <1>13. launches' = Append(launches, r) /\ intents' = Put(intents, id, i)
    BY <1>3, <1>4
  <1> HIDE DEF r, i, subs
  <1>14. StartEffect(r, i)
    BY <1>3, <1>11, <1>12, <1>13 DEF StartEffect
  <1> QED
    BY <1>8, <1>10, <1>14

\* The new launch comes after the others; the new intent takes its id.
LEMMA StartMaps ==
    ASSUME TypeOK, NEW r \in LaunchRec, NEW i \in IntentRec, StartEffect(r, i)
    PROVE  /\ launches' \in Seq(LaunchRec) /\ Len(launches') <= MaxStarts
           /\ DOMAIN launches' = DOMAIN launches \cup {NewToken}
           /\ NewToken \in Tokens /\ NewToken \notin DOMAIN launches
           /\ \A u \in DOMAIN launches : launches'[u] = launches[u]
           /\ launches'[NewToken] = r
           /\ DOMAIN intents' = DOMAIN intents \cup {r.id}
           /\ intents'[r.id] = i
           /\ \A x \in DOMAIN intents : x # r.id => intents'[x] = intents[x]
           /\ ~r.monitored => statusCalls' = statusCalls
           /\ r.monitored =>
                 /\ DOMAIN statusCalls' = DOMAIN statusCalls \cup {NewToken}
                 /\ statusCalls'[NewToken] = <<r.caller \in online>>
                 /\ \A x \in DOMAIN statusCalls :
                       x # NewToken => statusCalls'[x] = statusCalls[x]
  <1>1. Len(launches) < MaxStarts /\ launches' = Append(launches, r)
    BY DEF StartEffect
  <1>2. LET t == Len(launches) + 1
        IN /\ launches' \in Seq(LaunchRec) /\ Len(launches') <= MaxStarts
           /\ DOMAIN launches' = DOMAIN launches \cup {t}
           /\ t \in Tokens /\ t \notin DOMAIN launches
           /\ \A u \in DOMAIN launches : launches'[u] = launches[u]
           /\ launches'[t] = r
    BY <1>1, NewLaunch
  <1>3. intents' = Put(intents, r.id, i)
    BY DEF StartEffect
  <1>4. /\ DOMAIN intents' = DOMAIN intents \cup {r.id}
        /\ intents'[r.id] = i
        /\ \A x \in DOMAIN intents : x # r.id => intents'[x] = intents[x]
    <2>1. /\ DOMAIN Put(intents, r.id, i) = DOMAIN intents \cup {r.id}
          /\ Put(intents, r.id, i)[r.id] = i
          /\ \A x \in DOMAIN intents : x # r.id => Put(intents, r.id, i)[x] = intents[x]
      BY DEF Put
    <2> QED
      BY <1>3, <2>1
  <1>5. ASSUME r.monitored
        PROVE  /\ DOMAIN statusCalls' = DOMAIN statusCalls \cup {NewToken}
               /\ statusCalls'[NewToken] = <<r.caller \in online>>
               /\ \A x \in DOMAIN statusCalls :
                     x # NewToken => statusCalls'[x] = statusCalls[x]
    <2> DEFINE first == <<r.caller \in online>>
    <2>1. statusCalls' = Put(statusCalls, NewToken, first)
      BY <1>5 DEF StartEffect
    <2> HIDE DEF first
    <2>2. /\ DOMAIN Put(statusCalls, NewToken, first) = DOMAIN statusCalls \cup {NewToken}
          /\ Put(statusCalls, NewToken, first)[NewToken] = first
          /\ \A x \in DOMAIN statusCalls :
                x # NewToken => Put(statusCalls, NewToken, first)[x] = statusCalls[x]
      BY DEF Put
    <2> QED
      BY <2>1, <2>2 DEF first
  <1>6. ~r.monitored => statusCalls' = statusCalls
    BY DEF StartEffect
  <1> QED
    BY <1>2, <1>4, <1>5, <1>6 DEF NewToken

\* start keeps the types.
LEMMA TypeStart ==
    ASSUME TypeOK, AnyStart
    PROVE  TypeOK'
  <1>1. PICK r \in LaunchRec, i \in IntentRec : StartEffect(r, i)
    BY StartMakes
  <1>2. /\ launches' \in Seq(LaunchRec) /\ Len(launches') <= MaxStarts
        /\ DOMAIN launches' = DOMAIN launches \cup {NewToken}
        /\ NewToken \in Tokens
        /\ DOMAIN intents' = DOMAIN intents \cup {r.id}
        /\ intents'[r.id] = i
        /\ \A x \in DOMAIN intents : x # r.id => intents'[x] = intents[x]
    BY <1>1, StartMaps
  <1>3. /\ DOMAIN intents' \subseteq Ids
        /\ \A k \in DOMAIN intents' : intents'[k] \in IntentRec /\ intents'[k].intentId = k
    <2>1. r.id \in Ids /\ i.intentId = r.id
      BY <1>1 DEF LaunchRec, StartEffect
    <2> QED
      BY <1>2, <2>1 DEF TypeOK
  <1>4. /\ DOMAIN statusCalls' \subseteq DOMAIN launches'
        /\ \A u \in DOMAIN statusCalls' : statusCalls'[u] \in Seq(BOOLEAN)
    <2>1. CASE r.monitored
      <3> DEFINE first == <<r.caller \in online>>
      <3>1. first \in Seq(BOOLEAN)
        OBVIOUS
      <3>2. /\ DOMAIN statusCalls' = DOMAIN statusCalls \cup {NewToken}
            /\ statusCalls'[NewToken] = first
            /\ \A x \in DOMAIN statusCalls :
                  x # NewToken => statusCalls'[x] = statusCalls[x]
        BY <1>1, <2>1, StartMaps
      <3> HIDE DEF first
      <3> QED
        BY <1>2, <3>1, <3>2 DEF TypeOK
    <2>2. CASE ~r.monitored
      <3>1. statusCalls' = statusCalls
        BY <1>1, <2>2, StartMaps
      <3> QED
        BY <1>2, <3>1 DEF TypeOK
    <2> QED
      BY <2>1, <2>2
  <1>5. view' \in [Tokens -> [Callers -> Views]]
    <2>1. view' = Post(NewToken, i.subscribers, "open")
      BY <1>1 DEF StartEffect
    <2> QED
      BY <1>2, <2>1, TypePost DEF Views
  <1>6. s_counter' \in 0..MaxIds
    BY <1>1, BoundsAssumption DEF TypeOK, StartEffect
  <1>7. UNCHANGED <<sessions, handlers, online, hasLeft, epoch>>
    BY <1>1 DEF StartEffect
  <1> QED
    BY <1>2, <1>3, <1>4, <1>5, <1>6, <1>7 DEF TypeOK

\* What the replies to launch calls do to `launches`.
LEMMA TypeLaunches ==
    ASSUME TypeOK, launches' = [t \in DOMAIN launches |-> launches'[t]],
           \A t \in DOMAIN launches : launches'[t] \in LaunchRec
    PROVE  /\ launches' \in Seq(LaunchRec) /\ Len(launches') <= MaxStarts
           /\ DOMAIN launches' = DOMAIN launches
  <1>1. launches \in Seq(LaunchRec) /\ Len(launches) <= MaxStarts
    BY DEF TypeOK
  <1> QED
    BY <1>1, SameIndices

\* Removing intents keeps the registry's types.
LEMMA TypeRemove ==
    ASSUME TypeOK, NEW K, intents' = Erase(intents, K)
    PROVE  /\ DOMAIN intents' \subseteq Ids
           /\ \A k \in DOMAIN intents' :
                 intents'[k] \in IntentRec /\ intents'[k].intentId = k
  <1>1. /\ DOMAIN intents' = DOMAIN intents \ K
        /\ \A x \in DOMAIN intents \ K : intents'[x] = intents[x]
    BY EraseIsMap
  <1> QED
    BY <1>1 DEF TypeOK

\* onLaunch keeps the types.
LEMMA TypeOnLaunch ==
    ASSUME TypeOK, NEW t \in Tokens, NEW returnValue \in BOOLEAN,
           OnLaunch(t, returnValue)
    PROVE  TypeOK'
  <1>1. /\ launches' \in Seq(LaunchRec) /\ Len(launches') <= MaxStarts
        /\ DOMAIN launches' = DOMAIN launches
    <2>1. \A u \in DOMAIN launches : launches[u] \in LaunchRec
      BY DEF TypeOK
    <2>2. t \in DOMAIN launches
      BY DEF OnLaunch
    <2>3. launches' = [launches EXCEPT ![t].reply = IF returnValue THEN "ok" ELSE "failed"]
      BY DEF OnLaunch
    <2>4. \A u \in DOMAIN launches : launches'[u] \in LaunchRec
      BY <2>1, <2>2, <2>3 DEF LaunchRec
    <2>5. launches' = [u \in DOMAIN launches |-> launches'[u]]
      BY <2>3
    <2> QED
      BY <2>4, <2>5, TypeLaunches
  <1>2. CASE returnValue \/ GetByToken(t) = {}
    BY <1>1, <1>2 DEF OnLaunch, TypeOK, directoryVars
  <1>3. CASE ~(returnValue \/ GetByToken(t) = {})
    <2>1. PICK k \in GetByToken(t) :
              /\ view' = Post(t, intents[k].subscribers, "failed")
              /\ intents' = RemoveById(intents[k].intentId)
      BY <1>3 DEF OnLaunch
    <2>2. view' \in [Tokens -> [Callers -> Views]]
      BY <2>1, TypePost DEF Views
    <2>3. /\ DOMAIN intents' \subseteq Ids
          /\ \A k2 \in DOMAIN intents' :
                intents'[k2] \in IntentRec /\ intents'[k2].intentId = k2
      BY <2>1, TypeRemove DEF RemoveById
    <2> QED
      BY <1>1, <2>2, <2>3 DEF OnLaunch, TypeOK, directoryVars
  <1> QED
    BY <1>2, <1>3

\* _onServerStatusChanged keeps the types, whatever its cancellation hits.
LEMMA TypeStatus ==
    ASSUME TypeOK, NEW t \in Tokens, NEW hit, OnServerStatusChanged(t, hit)
    PROVE  TypeOK'
  <1> DEFINE rest == [statusCalls EXCEPT ![t] = Tail(@)]
  <1>1. /\ DOMAIN rest = DOMAIN statusCalls
        /\ \A u \in DOMAIN rest : rest[u] \in Seq(BOOLEAN)
    <2>1. /\ t \in DOMAIN statusCalls /\ statusCalls[t] # <<>>
          /\ \A u \in DOMAIN statusCalls : statusCalls[u] \in Seq(BOOLEAN)
      BY DEF OnServerStatusChanged, TypeOK
    <2>2. Tail(statusCalls[t]) \in Seq(BOOLEAN)
      BY <2>1
    <2> QED
      BY <2>1, <2>2
  <1>2. CASE Head(statusCalls[t])
    <2>1. statusCalls' = rest /\ UNCHANGED <<intents, launches>>
      BY <1>2 DEF OnServerStatusChanged
    <2> QED
      BY <1>1, <2>1 DEF OnServerStatusChanged, TypeOK, directoryVars
  <1>3. CASE ~Head(statusCalls[t])
    <2>1. /\ intents' = RemoveByOwner(launches[t].caller.name)
          /\ LSCallCancel(hit, rest)
      BY <1>3 DEF OnServerStatusChanged
    <2>2. /\ launches' \in Seq(LaunchRec) /\ Len(launches') <= MaxStarts
          /\ DOMAIN launches' = DOMAIN launches
      <3>1. \A u \in DOMAIN launches : launches[u] \in LaunchRec
        BY DEF TypeOK
      <3>2. \A u \in DOMAIN launches : launches'[u] \in LaunchRec
        BY <2>1, <3>1 DEF LSCallCancel, LaunchRec
      <3>3. launches' = [u \in DOMAIN launches |-> launches'[u]]
        BY <2>1 DEF LSCallCancel
      <3> QED
        BY <3>2, <3>3, TypeLaunches
    <2>3. /\ DOMAIN statusCalls' \subseteq DOMAIN statusCalls
          /\ \A u \in DOMAIN statusCalls' : statusCalls'[u] \in Seq(BOOLEAN)
      <3> DEFINE gone == {u \in DOMAIN rest : <<"status", u>> \in hit}
      <3>1. statusCalls' = Erase(rest, gone)
        BY <2>1 DEF LSCallCancel
      <3>2. /\ DOMAIN Erase(rest, gone) = DOMAIN rest \ gone
            /\ \A u \in DOMAIN rest \ gone : Erase(rest, gone)[u] = rest[u]
        BY EraseIsMap
      <3> HIDE DEF rest, gone
      <3> QED
        BY <1>1, <3>1, <3>2
    <2>4. /\ DOMAIN intents' \subseteq Ids
          /\ \A k \in DOMAIN intents' :
                intents'[k] \in IntentRec /\ intents'[k].intentId = k
      BY <2>1, TypeRemove DEF RemoveByOwner
    <2> QED
      BY <2>2, <2>3, <2>4 DEF OnServerStatusChanged, TypeOK, directoryVars
  <1> QED
    BY <1>2, <1>3

\* Granting or dropping subscriptions keeps the registry's types.
LEMMA TypeSubscribers ==
    ASSUME TypeOK, DOMAIN intents' = DOMAIN intents,
           \A k \in DOMAIN intents :
              \E S \in SUBSET Callers :
                 intents'[k] = [intents[k] EXCEPT !.subscribers = S]
    PROVE  /\ DOMAIN intents' \subseteq Ids
           /\ \A k \in DOMAIN intents' :
                 intents'[k] \in IntentRec /\ intents'[k].intentId = k
  <1>1. ASSUME NEW k \in DOMAIN intents
        PROVE  intents'[k] \in IntentRec /\ intents'[k].intentId = k
    <2>1. PICK S \in SUBSET Callers :
             intents'[k] = [intents[k] EXCEPT !.subscribers = S]
      OBVIOUS
    <2>2. intents[k] \in IntentRec /\ intents[k].intentId = k
      BY DEF TypeOK
    <2> QED
      BY <2>1, <2>2 DEF IntentRec
  <1> QED
    BY <1>1 DEF TypeOK

\* sendResult keeps the types.
LEMMA TypeSendResult ==
    ASSUME TypeOK, NEW id \in Ids, SendResult(id)
    PROVE  TypeOK'
  <1>1. ASSUME id \in DOMAIN intents
        PROVE  view' \in [Tokens -> [Callers -> Views]]
    <2>1. view' = Post(intents[id].token, intents[id].subscribers, "answered")
      BY <1>1 DEF SendResult
    <2>2. intents[id].token \in Tokens
      BY <1>1 DEF TypeOK, IntentRec
    <2> QED
      BY <2>1, <2>2, TypePost DEF Views
  <1>2. id \notin DOMAIN intents => view' = view
    BY DEF SendResult
  <1> QED
    BY <1>1, <1>2 DEF SendResult, TypeOK, directoryVars

\* subscribeResult keeps the types.
LEMMA TypeSubscribe ==
    ASSUME TypeOK, NEW c \in Callers, NEW id \in Ids, SubscribeResult(c, id)
    PROVE  TypeOK'
  <1>1. id \in DOMAIN intents /\ intents[id].token \in Tokens
    BY DEF SubscribeResult, TypeOK, IntentRec
  <1>2. /\ DOMAIN intents' = DOMAIN intents
        /\ \A k \in DOMAIN intents : \E S \in SUBSET Callers :
              intents'[k] = [intents[k] EXCEPT !.subscribers = S]
    <2>1. \A k \in DOMAIN intents :
             /\ intents[k].subscribers \in SUBSET Callers
             /\ intents[k] = [intents[k] EXCEPT !.subscribers = intents[k].subscribers]
      BY DEF TypeOK, IntentRec
    <2>2. intents' = [intents EXCEPT ![id] =
             [intents[id] EXCEPT !.subscribers = intents[id].subscribers \cup {c}]]
      BY DEF SubscribeResult
    <2>3. intents[id].subscribers \cup {c} \in SUBSET Callers
      BY <1>1, <2>1
    <2> QED
      BY <1>1, <2>1, <2>2, <2>3
  <1>3. view' = Post(intents[id].token, {c}, "open")
    BY DEF SubscribeResult
  <1>4. view' \in [Tokens -> [Callers -> Views]]
    BY <1>1, <1>3, TypePost DEF Views
  <1>5. /\ DOMAIN intents' \subseteq Ids
        /\ \A k \in DOMAIN intents' :
              intents'[k] \in IntentRec /\ intents'[k].intentId = k
    BY <1>2, TypeSubscribers
  <1> QED
    BY <1>4, <1>5 DEF SubscribeResult, TypeOK, directoryVars

\* WithoutSubscriber takes c from the intents of the tokens T.
LEMMA Without ==
    ASSUME TypeOK, NEW T, NEW c, intents' = WithoutSubscriber(T, c)
    PROVE     /\ DOMAIN intents' = DOMAIN intents
              /\ \A k \in DOMAIN intents : \E S \in SUBSET Callers :
                    intents'[k] = [intents[k] EXCEPT !.subscribers = S]
              /\ \A k \in DOMAIN intents :
                    /\ intents'[k].token = intents[k].token
                    /\ intents'[k].owner = intents[k].owner
                    /\ intents'[k].subscribers =
                          IF intents[k].token \in T THEN intents[k].subscribers \ {c}
                                                    ELSE intents[k].subscribers
  <1>1. intents' = [k \in DOMAIN intents |->
                  IF intents[k].token \in T
                  THEN [intents[k] EXCEPT !.subscribers = intents[k].subscribers \ {c}]
                  ELSE intents[k]]
    BY DEF WithoutSubscriber
  <1>2. \A k \in DOMAIN intents :
           /\ intents[k] \in IntentRec
           /\ intents[k].subscribers \in SUBSET Callers
           /\ intents[k] = [intents[k] EXCEPT !.subscribers = intents[k].subscribers]
    BY DEF TypeOK, IntentRec
  <1>3. DOMAIN intents' = DOMAIN intents
    BY <1>1
  <1>4. \A k \in DOMAIN intents : \E S \in SUBSET Callers :
           intents'[k] = [intents[k] EXCEPT !.subscribers = S]
    BY <1>1, <1>2
  <1>5. \A k \in DOMAIN intents :
           /\ intents'[k].token = intents[k].token
           /\ intents'[k].owner = intents[k].owner
           /\ intents'[k].subscribers =
                 IF intents[k].token \in T THEN intents[k].subscribers \ {c}
                                           ELSE intents[k].subscribers
    BY <1>1, <1>2 DEF IntentRec
  <1> QED
    BY <1>3, <1>4, <1>5

\* So it keeps the registry's types.
LEMMA TypeWithout ==
    ASSUME TypeOK, NEW T, NEW c, intents' = WithoutSubscriber(T, c)
    PROVE  /\ DOMAIN intents' \subseteq Ids
           /\ \A k \in DOMAIN intents' :
                 intents'[k] \in IntentRec /\ intents'[k].intentId = k
  <1>1. /\ DOMAIN intents' = DOMAIN intents
        /\ \A k \in DOMAIN intents : \E S \in SUBSET Callers :
              intents'[k] = [intents[k] EXCEPT !.subscribers = S]
    BY Without
  <1> QED
    BY <1>1, TypeSubscribers

\* A dropped subscription keeps the types.
LEMMA TypeCancelSubscription ==
    ASSUME TypeOK, NEW c \in Callers, NEW t \in Tokens, CancelSubscription(c, t)
    PROVE  TypeOK'
  <1>1. /\ DOMAIN intents' \subseteq Ids
        /\ \A k \in DOMAIN intents' :
              intents'[k] \in IntentRec /\ intents'[k].intentId = k
    <2>1. intents' = WithoutSubscriber({t}, c)
      BY DEF CancelSubscription
    <2> QED
      BY <2>1, TypeWithout
  <1>2. view' = Post(t, {c}, "none")
    BY DEF CancelSubscription
  <1>3. view' \in [Tokens -> [Callers -> Views]]
    BY <1>2, TypePost DEF Views
  <1> QED
    BY <1>1, <1>3 DEF CancelSubscription, TypeOK, directoryVars

\* The hub appends to the queues of the calls that watch.
LEMMA TypeNotify ==
    ASSUME TypeOK, NEW c, NEW connected \in BOOLEAN, Notify(c, connected)
    PROVE  /\ DOMAIN statusCalls' = DOMAIN statusCalls
           /\ \A t \in DOMAIN statusCalls' : statusCalls'[t] \in Seq(BOOLEAN)
  <1>1. statusCalls' = [t \in DOMAIN statusCalls |->
                          IF t \in Watching(c)
                          THEN Append(statusCalls[t], connected)
                          ELSE statusCalls[t]]
    BY DEF Notify
  <1>2. \A t \in DOMAIN statusCalls :
           statusCalls[t] \in Seq(BOOLEAN)
    BY DEF TypeOK
  <1>3. \A t \in DOMAIN statusCalls : Append(statusCalls[t], connected) \in Seq(BOOLEAN)
    BY <1>2
  <1> QED
    BY <1>1, <1>2, <1>3

\* A departure keeps the types.
LEMMA TypeLeave ==
    ASSUME TypeOK, NEW c \in Callers, Leave(c)
    PROVE  TypeOK'
  <1>1. /\ DOMAIN intents' \subseteq Ids
        /\ \A k \in DOMAIN intents' :
              intents'[k] \in IntentRec /\ intents'[k].intentId = k
    <2>1. intents' = WithoutSubscriber(Tokens, c)
      BY DEF Leave
    <2> QED
      BY <2>1, TypeWithout
  <1>2. /\ DOMAIN statusCalls' = DOMAIN statusCalls
        /\ \A t \in DOMAIN statusCalls' : statusCalls'[t] \in Seq(BOOLEAN)
    <2>1. Notify(c, FALSE)
      BY DEF Leave
    <2> QED
      BY <2>1, TypeNotify
  <1>3. view' \in [Tokens -> [Callers -> Views]]
    <2>1. view' = [t \in Tokens |-> [view[t] EXCEPT ![c] = "none"]]
      BY DEF Leave
    <2>2. \A t \in Tokens : view[t] \in [Callers -> Views]
      BY DEF TypeOK
    <2> QED
      BY <2>1, <2>2 DEF Views
  <1> QED
    BY <1>1, <1>2, <1>3 DEF Leave, TypeOK, directoryVars

\* A return keeps the types.
LEMMA TypeJoin ==
    ASSUME TypeOK, NEW c \in Callers, Join(c)
    PROVE  TypeOK'
  <1>1. /\ DOMAIN statusCalls' = DOMAIN statusCalls
        /\ \A t \in DOMAIN statusCalls' : statusCalls'[t] \in Seq(BOOLEAN)
    <2>1. Notify(c, TRUE)
      BY DEF Join
    <2> QED
      BY <2>1, TypeNotify
  <1> QED
    BY <1>1 DEF Join, TypeOK, directoryVars

\* A restart leaves empty tables.
LEMMA TypeRestart ==
    ASSUME TypeOK, Restart
    PROVE  TypeOK'
  <1>1. DOMAIN intents' = {} /\ DOMAIN statusCalls' = {}
    BY DEF Restart, Forget
  <1>2. view' \in [Tokens -> [Callers -> Views]]
    BY DEF Restart, Forget, Views
  <1>3. s_counter' \in 0..MaxIds /\ epoch' \in 0..MaxRestarts
    BY BoundsAssumption DEF Restart, Forget, TypeOK
  <1> QED
    BY <1>1, <1>2, <1>3 DEF Restart, Forget, TypeOK

\* query and a rejected start only count an id.
LEMMA TypeQuery ==
    ASSUME TypeOK, Query \/ StartRejected
    PROVE  TypeOK'
  <1>1. s_counter' \in 0..MaxIds
    BY BoundsAssumption DEF Query, StartRejected, FreshId, TypeOK
  <1> QED
    BY <1>1 DEF Query, StartRejected, TypeOK, directoryVars

\* Every step keeps the types.
LEMMA TypeNext == TypeOK /\ [Next]_vars => TypeOK'
  <1> SUFFICES ASSUME TypeOK, [Next]_vars PROVE TypeOK'
    OBVIOUS
  <1>1. CASE Query \/ StartRejected
    BY <1>1, TypeQuery
  <1>2. CASE AnyStart
    BY <1>2, TypeStart
  <1>3. CASE \E id \in Ids : SendResult(id)
    BY <1>3, TypeSendResult
  <1>4. CASE \E c \in Callers, id \in Ids : SubscribeResult(c, id)
    BY <1>4, TypeSubscribe
  <1>5. CASE \E t \in Tokens, returnValue \in BOOLEAN : OnLaunch(t, returnValue)
    BY <1>5, TypeOnLaunch
  <1>6. CASE \E t \in Tokens, hit \in Hits : OnServerStatusChanged(t, hit)
    BY <1>6, TypeStatus
  <1>7. CASE \E c \in Callers, t \in Tokens : CancelSubscription(c, t)
    BY <1>7, TypeCancelSubscription
  <1>8. CASE \E c \in Callers : Leave(c) \/ Join(c)
    BY <1>8, TypeLeave, TypeJoin
  <1>9. CASE DirectoryChange
    BY <1>9 DEF DirectoryChange, TypeOK
  <1>10. CASE Restart
    BY <1>10, TypeRestart
  <1>11. CASE UNCHANGED vars
    BY <1>11 DEF vars, TypeOK
  <1> QED
    BY <1>1, <1>2, <1>3, <1>4, <1>5, <1>6, <1>7, <1>8, <1>9, <1>10, <1>11
       DEF Next, SubscribeRejected

\* Every state of the service has its types: the registry files each intent under
\* its own id, and every live status call belongs to a launch that was made.
THEOREM TypeCorrect == Spec => []TypeOK
  <1> QED
    BY TypeInit, TypeNext, PTL DEF Spec

-----------------------------------------------------------------------------
(***************************************************************************)
(* The safety properties, from an inductive invariant over the registry,   *)
(* the launches, the status calls and the callers' views.                  *)
(***************************************************************************)

\* An intent is filed under the id its launch had in this process, and belongs to
\* the client that launched it.
Filed ==
    \A k \in DOMAIN intents :
        /\ intents[k].token \in DOMAIN launches
        /\ launches[intents[k].token].epoch = epoch
        /\ launches[intents[k].token].id = k
        /\ launches[intents[k].token].caller.name = intents[k].owner

\* No launch is of a process to come.
PastEpochs == \A t \in DOMAIN launches : launches[t].epoch <= epoch

\* The ids the service chose were counted, and no two are equal.
CountedIds ==
    \A t \in DOMAIN launches :
        Current(t) /\ ~launches[t].chosen => launches[t].id \in 1..s_counter

DistinctIds ==
    \A t, u \in DOMAIN launches :
        /\ Current(t) /\ ~launches[t].chosen
        /\ Current(u) /\ ~launches[u].chosen
        /\ launches[t].id = launches[u].id
        => t = u

\* A departure under way is the departure of a client that did leave.
DeparturesHappened ==
    \A t \in DOMAIN statusCalls : \A i \in 1..Len(statusCalls[t]) :
        statusCalls[t][i] = FALSE => launches[t].caller \in hasLeft

\* The newest status under way is the client's present one.
NewestIsCurrent ==
    \A t \in DOMAIN statusCalls :
        statusCalls[t] # <<>> =>
            statusCalls[t][Len(statusCalls[t])] = (launches[t].caller \in online)

\* A registered intent's status call lives, and an absent owner has news under way.
StillWatched ==
    \A k \in DOMAIN intents :
        launches[intents[k].token].monitored =>
            /\ intents[k].token \in DOMAIN statusCalls
            /\ launches[intents[k].token].caller \notin online =>
                   statusCalls[intents[k].token] # <<>>

\* Who was told of a failure was told of an intent that is gone; nobody was told
\* anything of an intent not started yet.
FailureIsTheEnd ==
    \A t \in Tokens, c \in Callers :
        /\ view[t][c] = "failed" => ~Registered(t)
        /\ t \notin DOMAIN launches => view[t][c] = "none"

-----------------------------------------------------------------------------
\* What every step but a start leaves of the launches and of the registry: only
\* replies change, and intents only go or change their subscribers.
SameLaunches ==
    /\ DOMAIN launches' = DOMAIN launches
    /\ \A t \in DOMAIN launches :
          /\ launches'[t].id = launches[t].id
          /\ launches'[t].chosen = launches[t].chosen
          /\ launches'[t].caller = launches[t].caller
          /\ launches'[t].monitored = launches[t].monitored
          /\ launches'[t].epoch = launches[t].epoch

Shrinks ==
    /\ DOMAIN intents' \subseteq DOMAIN intents
    /\ \A k \in DOMAIN intents' :
          /\ intents'[k].token = intents[k].token
          /\ intents'[k].owner = intents[k].owner

\* Erasing intents shrinks the registry.
LEMMA ErasedShrinks ==
    ASSUME NEW K, intents' = Erase(intents, K)
    PROVE  Shrinks
  <1>1. /\ DOMAIN intents' = DOMAIN intents \ K
        /\ \A x \in DOMAIN intents \ K : intents'[x] = intents[x]
    BY EraseIsMap
  <1> QED
    BY <1>1 DEF Shrinks

\* onLaunch keeps to the frame.
LEMMA FrameOnLaunch ==
    ASSUME TypeOK, NEW t \in Tokens, NEW returnValue \in BOOLEAN,
           OnLaunch(t, returnValue)
    PROVE  SameLaunches /\ Shrinks
  <1>1. SameLaunches
    <2>1. /\ t \in DOMAIN launches
          /\ launches' = [launches EXCEPT ![t].reply = IF returnValue THEN "ok" ELSE "failed"]
      BY DEF OnLaunch
    <2>2. \A u \in DOMAIN launches : launches[u] \in LaunchRec
      BY DEF TypeOK
    <2> QED
      BY <2>1, <2>2 DEF SameLaunches, LaunchRec
  <1>2. Shrinks
    <2>1. CASE returnValue \/ GetByToken(t) = {}
      BY <2>1 DEF OnLaunch, Shrinks
    <2>2. CASE ~(returnValue \/ GetByToken(t) = {})
      <3>1. PICK k \in GetByToken(t) : intents' = RemoveById(intents[k].intentId)
        BY <2>2 DEF OnLaunch
      <3> QED
        BY <3>1, ErasedShrinks DEF RemoveById
    <2> QED
      BY <2>1, <2>2
  <1> QED
    BY <1>1, <1>2

\* _onServerStatusChanged keeps to the frame.
LEMMA FrameStatus ==
    ASSUME TypeOK, NEW t \in Tokens, NEW hit, OnServerStatusChanged(t, hit)
    PROVE  SameLaunches /\ Shrinks
  <1>1. CASE Head(statusCalls[t])
    BY <1>1 DEF OnServerStatusChanged, SameLaunches, Shrinks
  <1>2. CASE ~Head(statusCalls[t])
    <2>1. intents' = Erase(intents, OwnedBy(launches[t].caller.name))
      BY <1>2 DEF OnServerStatusChanged, RemoveByOwner
    <2>2. launches' = [u \in DOMAIN launches |->
                         IF <<"launch", u>> \in hit
                         THEN [launches[u] EXCEPT !.reply = "cancelled"]
                         ELSE launches[u]]
      BY <1>2 DEF OnServerStatusChanged, LSCallCancel
    <2>3. \A u \in DOMAIN launches : launches[u] \in LaunchRec
      BY DEF TypeOK
    <2>4. SameLaunches
      BY <2>2, <2>3 DEF SameLaunches, LaunchRec
    <2>5. Shrinks
      BY <2>1, ErasedShrinks
    <2> QED
      BY <2>4, <2>5
  <1> QED
    BY <1>1, <1>2

\* subscribeResult keeps to the frame.
LEMMA FrameSubscribe ==
    ASSUME TypeOK, NEW c \in Callers, NEW id \in Ids, SubscribeResult(c, id)
    PROVE  SameLaunches /\ Shrinks
  <1>1. /\ id \in DOMAIN intents
        /\ intents' = [intents EXCEPT ![id] =
             [intents[id] EXCEPT !.subscribers = intents[id].subscribers \cup {c}]]
        /\ launches' = launches
    BY DEF SubscribeResult
  <1>2. \A k \in DOMAIN intents : intents[k] \in IntentRec
    BY DEF TypeOK
  <1>3. Shrinks
    BY <1>1, <1>2 DEF Shrinks, IntentRec
  <1> QED
    BY <1>1, <1>3 DEF SameLaunches

\* Dropping a subscriber keeps to the frame.
LEMMA FrameWithout ==
    ASSUME TypeOK, NEW T, NEW c, intents' = WithoutSubscriber(T, c)
    PROVE  Shrinks
  <1>1. /\ DOMAIN intents' = DOMAIN intents
        /\ \A k \in DOMAIN intents :
              /\ intents'[k].token = intents[k].token
              /\ intents'[k].owner = intents[k].owner
    BY Without
  <1> QED
    BY <1>1 DEF Shrinks

\* Every step starts an intent or keeps to this frame.
LEMMA Frame ==
    ASSUME TypeOK, [Next]_vars
    PROVE  AnyStart \/ (SameLaunches /\ Shrinks)
  <1>1. CASE Query \/ StartRejected
    BY <1>1 DEF Query, StartRejected, SameLaunches, Shrinks
  <1>3. CASE \E id \in Ids : SendResult(id)
    BY <1>3 DEF SendResult, SameLaunches, Shrinks
  <1>4. CASE \E c \in Callers, id \in Ids : SubscribeResult(c, id)
    BY <1>4, FrameSubscribe
  <1>5. CASE \E t \in Tokens, returnValue \in BOOLEAN : OnLaunch(t, returnValue)
    BY <1>5, FrameOnLaunch
  <1>6. CASE \E t \in Tokens, hit \in Hits : OnServerStatusChanged(t, hit)
    BY <1>6, FrameStatus
  <1>7. ASSUME NEW c \in Callers, NEW t \in Tokens, CancelSubscription(c, t)
        PROVE  SameLaunches /\ Shrinks
    <2>1. intents' = WithoutSubscriber({t}, c) /\ launches' = launches
      BY <1>7 DEF CancelSubscription
    <2> QED
      BY <2>1, FrameWithout DEF SameLaunches
  <1>8. ASSUME NEW c \in Callers, Leave(c)
        PROVE  SameLaunches /\ Shrinks
    <2>1. intents' = WithoutSubscriber(Tokens, c) /\ launches' = launches
      BY <1>8 DEF Leave
    <2> QED
      BY <2>1, FrameWithout DEF SameLaunches
  <1>9. ASSUME NEW c \in Callers, Join(c)
        PROVE  SameLaunches /\ Shrinks
    BY <1>9 DEF Join, SameLaunches, Shrinks
  <1>10. CASE DirectoryChange
    BY <1>10 DEF DirectoryChange, SameLaunches, Shrinks
  <1>11. CASE Restart
    BY <1>11 DEF Restart, Forget, SameLaunches, Shrinks
  <1>12. CASE UNCHANGED vars
    BY <1>12 DEF vars, SameLaunches, Shrinks
  <1> QED
    BY <1>1, <1>3, <1>4, <1>5, <1>6, <1>7, <1>8, <1>9, <1>10, <1>11, <1>12
       DEF Next, SubscribeRejected

\* Within a process the count only grows, and the clients that left stay left.
Onward ==
    /\ epoch' = epoch
    /\ s_counter <= s_counter'
    /\ hasLeft \subseteq hasLeft'

\* Every step but a restart goes onward.
LEMMA RunsOnward ==
    ASSUME TypeOK, [Next]_vars
    PROVE  Restart \/ Onward
  <1>1. s_counter \in Int
    BY BoundsAssumption DEF TypeOK
  <1>2. CASE AnyStart
    <2>1. PICK r \in LaunchRec, i \in IntentRec : StartEffect(r, i)
      BY <1>2, StartMakes
    <2> QED
      BY <1>1, <2>1 DEF StartEffect, Onward
  <1>3. CASE Query \/ StartRejected
    BY <1>1, <1>3 DEF Query, StartRejected, FreshId, Onward
  <1>4. CASE \E id \in Ids : SendResult(id)
    BY <1>1, <1>4 DEF SendResult, Onward
  <1>5. CASE \E c \in Callers, id \in Ids : SubscribeResult(c, id)
    BY <1>1, <1>5 DEF SubscribeResult, Onward
  <1>6. CASE \E t \in Tokens, returnValue \in BOOLEAN : OnLaunch(t, returnValue)
    BY <1>1, <1>6 DEF OnLaunch, Onward
  <1>7. CASE \E t \in Tokens, hit \in Hits : OnServerStatusChanged(t, hit)
    <2>1. UNCHANGED <<s_counter, hasLeft, epoch>>
      BY <1>7 DEF OnServerStatusChanged
    <2> QED
      BY <1>1, <2>1 DEF Onward
  <1>8. CASE \E c \in Callers, t \in Tokens : CancelSubscription(c, t)
    BY <1>1, <1>8 DEF CancelSubscription, Onward
  <1>9. CASE \E c \in Callers : Leave(c) \/ Join(c)
    <2>1. UNCHANGED <<s_counter, epoch>> /\ hasLeft \subseteq hasLeft'
      BY <1>9 DEF Leave, Join
    <2> QED
      BY <1>1, <2>1 DEF Onward
  <1>10. CASE DirectoryChange \/ UNCHANGED vars
    BY <1>1, <1>10 DEF DirectoryChange, vars, Onward
  <1> QED
    BY <1>2, <1>3, <1>4, <1>5, <1>6, <1>7, <1>8, <1>9, <1>10
       DEF Next, SubscribeRejected

-----------------------------------------------------------------------------
\* The registry against the launches.
RegistryInv == Filed /\ PastEpochs /\ CountedIds /\ DistinctIds

\* A start files its intent under its id, displacing at most the one of that id.
LEMMA RegistryStart ==
    ASSUME TypeOK, RegistryInv, AnyStart
    PROVE  RegistryInv'
  <1>1. PICK r \in LaunchRec, i \in IntentRec : StartEffect(r, i)
    BY StartMakes
  <1> DEFINE n == NewToken
  <1>2. /\ DOMAIN launches' = DOMAIN launches \cup {n}
        /\ n \notin DOMAIN launches
        /\ \A u \in DOMAIN launches : launches'[u] = launches[u]
        /\ launches'[n] = r
        /\ DOMAIN intents' = DOMAIN intents \cup {r.id}
        /\ intents'[r.id] = i
        /\ \A x \in DOMAIN intents : x # r.id => intents'[x] = intents[x]
    BY <1>1, StartMaps
  <1>3. /\ i.token = n /\ i.owner = r.caller.name
        /\ r.epoch = epoch /\ epoch' = epoch
        /\ ~r.chosen => r.id = s_counter + 1
        /\ s_counter' = s_counter + 1
    BY <1>1 DEF StartEffect
  <1>4. s_counter \in Nat /\ epoch \in Nat
    BY BoundsAssumption DEF TypeOK
  <1> HIDE DEF n
  <1>5. Filed'
    BY <1>2, <1>3 DEF RegistryInv, Filed
  <1>6. PastEpochs'
    BY <1>2, <1>3, <1>4 DEF RegistryInv, PastEpochs
  <1>7. CountedIds'
    BY <1>2, <1>3, <1>4 DEF RegistryInv, CountedIds, Current
  <1>8. DistinctIds'
    <2>1. \A u \in DOMAIN launches :
             launches[u].epoch = epoch /\ ~launches[u].chosen =>
                 launches[u].id \in 1..s_counter
      BY DEF RegistryInv, CountedIds, Current
    <2>2. \A u \in DOMAIN launches :
             launches[u].epoch = epoch /\ ~launches[u].chosen /\ ~r.chosen =>
                 launches[u].id # r.id
      BY <1>3, <1>4, <2>1
    <2> QED
      BY <1>2, <1>3, <2>2 DEF RegistryInv, DistinctIds, Current
  <1> QED
    BY <1>5, <1>6, <1>7, <1>8 DEF RegistryInv

\* Every step keeps the registry and the launches in agreement.
LEMMA RegistryNext ==
    ASSUME TypeOK, RegistryInv, [Next]_vars
    PROVE  RegistryInv'
  <1>1. CASE AnyStart
    BY <1>1, RegistryStart
  <1>2. CASE ~AnyStart /\ Restart
    <2>1. DOMAIN intents' = {} /\ epoch' = epoch + 1 /\ launches' = launches
      BY <1>2 DEF Restart, Forget
    <2>2. \A t \in DOMAIN launches : launches[t].epoch \in Nat /\ launches[t].epoch <= epoch
      <3>1. \A t \in DOMAIN launches : launches[t] \in LaunchRec
        BY DEF TypeOK
      <3>2. \A t \in DOMAIN launches : launches[t].epoch <= epoch
        BY DEF RegistryInv, PastEpochs
      <3> QED
        BY <3>1, <3>2 DEF LaunchRec
    <2>3. epoch \in Nat
      BY BoundsAssumption DEF TypeOK
    <2>4. \A t \in DOMAIN launches' :
             launches'[t].epoch <= epoch' /\ launches'[t].epoch # epoch'
      BY <2>1, <2>2, <2>3
    <2> QED
      BY <2>1, <2>4 DEF RegistryInv, Filed, PastEpochs, CountedIds, DistinctIds, Current
  <1>3. CASE ~AnyStart /\ ~Restart
    <2>1. SameLaunches /\ Shrinks /\ Onward
      BY <1>3, Frame, RunsOnward
    <2>2. s_counter \in Nat /\ s_counter' \in Nat
      <3>1. TypeOK'
        BY TypeNext
      <3> QED
        BY <3>1, BoundsAssumption DEF TypeOK
    <2>3. Filed'
      BY <2>1 DEF RegistryInv, Filed, SameLaunches, Shrinks, Onward
    <2>4. PastEpochs'
      BY <2>1 DEF RegistryInv, PastEpochs, SameLaunches, Onward
    <2>5. CountedIds'
      BY <2>1, <2>2 DEF RegistryInv, CountedIds, Current, SameLaunches, Onward
    <2>6. DistinctIds'
      BY <2>1 DEF RegistryInv, DistinctIds, Current, SameLaunches, Onward
    <2> QED
      BY <2>3, <2>4, <2>5, <2>6 DEF RegistryInv
  <1> QED
    BY <1>1, <1>2, <1>3

\* An empty registry agrees with no launches.
LEMMA RegistryInit == Init => RegistryInv
  <1> SUFFICES ASSUME Init PROVE RegistryInv
    OBVIOUS
  <1>1. DOMAIN intents = {} /\ DOMAIN launches = {}
    BY DEF Init
  <1> QED
    BY <1>1 DEF RegistryInv, Filed, PastEpochs, CountedIds, DistinctIds

\* The registry and the launches agree in every reachable state.
THEOREM RegistryCorrect == Spec => []RegistryInv
  <1>1. TypeOK /\ RegistryInv /\ [Next]_vars => RegistryInv'
    BY RegistryNext
  <1> QED
    BY <1>1, RegistryInit, TypeCorrect, PTL DEF Spec

\* An id the service chose leads to the intent of the start it was given out for.
THEOREM ResultsReachTheirIntent == Spec => []ResultCorrelation
  <1>1. TypeOK /\ RegistryInv => ResultCorrelation
    <2> SUFFICES ASSUME TypeOK, RegistryInv,
                        NEW t \in DOMAIN launches,
                        Current(t), ~launches[t].chosen,
                        launches[t].id \in DOMAIN intents,
                        ~launches[intents[launches[t].id].token].chosen
                 PROVE  intents[launches[t].id].token = t
      BY DEF ResultCorrelation
    <2> DEFINE u == intents[launches[t].id].token
    <2>1. u \in DOMAIN launches /\ Current(u) /\ launches[u].id = launches[t].id
      BY DEF RegistryInv, Filed, Current
    <2> QED
      BY <2>1 DEF RegistryInv, DistinctIds
  <1> QED
    BY <1>1, TypeCorrect, RegistryCorrect, PTL

-----------------------------------------------------------------------------
\* The status calls.  A dispatched reply leaves the queue of its call; no other
\* queue changes, and calls that a cancellation hits end.
LEMMA QueueTaken ==
    ASSUME TypeOK, NEW t \in Tokens, NEW hit, OnServerStatusChanged(t, hit)
    PROVE  /\ DOMAIN statusCalls' \subseteq DOMAIN statusCalls
           /\ t \in DOMAIN statusCalls /\ statusCalls[t] # <<>>
           /\ \A u \in DOMAIN statusCalls' :
                 statusCalls'[u] = IF u = t THEN Tail(statusCalls[t]) ELSE statusCalls[u]
           /\ hit = {} => DOMAIN statusCalls' = DOMAIN statusCalls
  <1> DEFINE rest == [statusCalls EXCEPT ![t] = Tail(@)]
  <1>1. t \in DOMAIN statusCalls /\ statusCalls[t] # <<>>
    BY DEF OnServerStatusChanged
  <1>2. /\ DOMAIN rest = DOMAIN statusCalls
        /\ \A u \in DOMAIN rest :
              rest[u] = IF u = t THEN Tail(statusCalls[t]) ELSE statusCalls[u]
    OBVIOUS
  <1>3. CASE Head(statusCalls[t])
    <2>1. statusCalls' = rest
      BY <1>3 DEF OnServerStatusChanged
    <2> HIDE DEF rest
    <2> QED
      BY <1>1, <1>2, <2>1
  <1>4. CASE ~Head(statusCalls[t])
    <2> DEFINE gone == {u \in DOMAIN rest : <<"status", u>> \in hit}
    <2>1. statusCalls' = Erase(rest, gone)
      BY <1>4 DEF OnServerStatusChanged, LSCallCancel
    <2>2. /\ DOMAIN Erase(rest, gone) = DOMAIN rest \ gone
          /\ \A u \in DOMAIN rest \ gone : Erase(rest, gone)[u] = rest[u]
      BY EraseIsMap
    <2>3. hit = {} => gone = {}
      OBVIOUS
    <2> HIDE DEF rest, gone
    <2> QED
      BY <1>1, <1>2, <2>1, <2>2, <2>3
  <1> QED
    BY <1>3, <1>4

\* The hub appends its news to the calls that watch c and to no other.
LEMMA QueueNotified ==
    ASSUME TypeOK, NEW c, NEW connected \in BOOLEAN, Notify(c, connected)
    PROVE  /\ DOMAIN statusCalls' = DOMAIN statusCalls
           /\ \A u \in DOMAIN statusCalls :
                 /\ launches[u].caller = c =>
                       statusCalls'[u] = Append(statusCalls[u], connected)
                 /\ launches[u].caller # c => statusCalls'[u] = statusCalls[u]
  BY DEF Notify, Watching

StatusInv == DeparturesHappened /\ NewestIsCurrent

\* The status call of a start begins with the caller's present status.
LEMMA StatusStart ==
    ASSUME TypeOK, StatusInv, AnyStart
    PROVE  StatusInv'
  <1>1. PICK r \in LaunchRec, i \in IntentRec : StartEffect(r, i)
    BY StartMakes
  <1> DEFINE n == NewToken
             first == <<r.caller \in online>>
  <1>2. /\ n \notin DOMAIN launches
        /\ \A u \in DOMAIN launches : launches'[u] = launches[u]
        /\ launches'[n] = r
        /\ ~r.monitored => statusCalls' = statusCalls
        /\ r.monitored =>
              /\ DOMAIN statusCalls' = DOMAIN statusCalls \cup {n}
              /\ statusCalls'[n] = first
              /\ \A x \in DOMAIN statusCalls :
                    x # n => statusCalls'[x] = statusCalls[x]
    BY <1>1, StartMaps
  <1>3. DOMAIN statusCalls \subseteq DOMAIN launches
    BY DEF TypeOK
  <1>4. /\ online' = online /\ hasLeft' = hasLeft
        /\ r.caller \in online \cup hasLeft
    BY <1>1 DEF StartEffect
  <1>5. /\ first # <<>> /\ first[Len(first)] = (r.caller \in online)
        /\ \A j \in 1..Len(first) : first[j] = FALSE => r.caller \notin online
    <2>2. Len(first) = 1 /\ first # <<>>
      OBVIOUS
    <2>3. first[1] = (r.caller \in online)
      OBVIOUS
    <2>4. first[1] = FALSE => r.caller \notin online
      OBVIOUS
    <2> HIDE DEF first
    <2>5. \A j \in 1..Len(first) : j = 1
      BY <2>2
    <2> QED
      BY <2>2, <2>3, <2>4, <2>5
  <1> HIDE DEF n, first
  <1>6. ASSUME NEW u \in DOMAIN statusCalls'
        PROVE  /\ \A j \in 1..Len(statusCalls'[u]) :
                     statusCalls'[u][j] = FALSE => launches'[u].caller \in hasLeft'
               /\ statusCalls'[u] # <<>> =>
                     statusCalls'[u][Len(statusCalls'[u])] = (launches'[u].caller \in online')
    <2>1. CASE u \in DOMAIN statusCalls
      <3>1. statusCalls'[u] = statusCalls[u] /\ launches'[u] = launches[u]
        BY <1>2, <1>3, <2>1
      <3> QED
        BY <1>4, <2>1, <3>1 DEF StatusInv, DeparturesHappened, NewestIsCurrent
    <2>2. CASE u \notin DOMAIN statusCalls
      <3>1. u = n /\ statusCalls'[u] = first /\ launches'[u] = r
        BY <1>2, <2>2
      <3> QED
        BY <1>4, <1>5, <3>1
    <2> QED
      BY <2>1, <2>2
  <1> QED
    BY <1>6 DEF StatusInv, DeparturesHappened, NewestIsCurrent

\* Delivering the oldest reply keeps the newest where it was.
LEMMA StatusTaken ==
    ASSUME TypeOK, StatusInv, NEW t \in Tokens, NEW hit, OnServerStatusChanged(t, hit)
    PROVE  StatusInv'
  <1>1. /\ DOMAIN statusCalls' \subseteq DOMAIN statusCalls
        /\ statusCalls[t] # <<>>
        /\ \A u \in DOMAIN statusCalls' :
              statusCalls'[u] = IF u = t THEN Tail(statusCalls[t]) ELSE statusCalls[u]
    BY QueueTaken
  <1>2. \A u \in DOMAIN statusCalls : u \in DOMAIN launches /\ statusCalls[u] \in Seq(BOOLEAN)
    BY DEF TypeOK
  <1>3. SameLaunches
    BY FrameStatus
  <1>4. online' = online /\ hasLeft' = hasLeft
    BY DEF OnServerStatusChanged
  <1>5. ASSUME NEW u \in DOMAIN statusCalls'
        PROVE  /\ \A j \in 1..Len(statusCalls'[u]) :
                     statusCalls'[u][j] = FALSE => launches'[u].caller \in hasLeft'
               /\ statusCalls'[u] # <<>> =>
                     statusCalls'[u][Len(statusCalls'[u])] = (launches'[u].caller \in online')
    <2>1. launches'[u].caller = launches[u].caller
      BY <1>1, <1>2, <1>3 DEF SameLaunches
    <2>2. /\ \A j \in 1..Len(statusCalls[u]) :
                statusCalls[u][j] = FALSE => launches[u].caller \in hasLeft
          /\ statusCalls[u] # <<>> =>
                statusCalls[u][Len(statusCalls[u])] = (launches[u].caller \in online)
      BY <1>1 DEF StatusInv, DeparturesHappened, NewestIsCurrent
    <2>3. CASE u = t
      <3> DEFINE q == statusCalls[t]
      <3>1. q \in Seq(BOOLEAN) /\ q # <<>> /\ statusCalls'[u] = Tail(q)
        BY <1>1, <1>2, <2>3
      <3>2. /\ \A j \in 1..Len(Tail(q)) : Tail(q)[j] = q[j + 1] /\ j + 1 \in 1..Len(q)
            /\ Tail(q) # <<>> => Tail(q)[Len(Tail(q))] = q[Len(q)]
        BY <3>1, TailOfQueue
      <3>3. /\ \A j \in 1..Len(q) : q[j] = FALSE => launches[u].caller \in hasLeft
            /\ q[Len(q)] = (launches[u].caller \in online)
        BY <2>2, <2>3, <3>1
      <3> HIDE DEF q
      <3> QED
        BY <1>4, <2>1, <3>1, <3>2, <3>3
    <2>4. CASE u # t
      BY <1>1, <1>4, <2>1, <2>2, <2>4
    <2> QED
      BY <2>3, <2>4
  <1> QED
    BY <1>5 DEF StatusInv, DeparturesHappened, NewestIsCurrent

\* News of c becomes the newest of every call that watches c.
LEMMA StatusNotified ==
    ASSUME TypeOK, StatusInv, NEW c, NEW connected \in BOOLEAN, Notify(c, connected),
           launches' = launches, hasLeft \subseteq hasLeft',
           \A d : d # c => (d \in online') = (d \in online),
           (c \in online') = connected, ~connected => c \in hasLeft'
    PROVE  StatusInv'
  <1>1. DOMAIN statusCalls' = DOMAIN statusCalls
    BY QueueNotified
  <1>2. ASSUME NEW u \in DOMAIN statusCalls'
        PROVE  /\ \A j \in 1..Len(statusCalls'[u]) :
                     statusCalls'[u][j] = FALSE => launches'[u].caller \in hasLeft'
               /\ statusCalls'[u] # <<>> =>
                     statusCalls'[u][Len(statusCalls'[u])] = (launches'[u].caller \in online')
    <2> DEFINE q == statusCalls[u]
    <2>1. q \in Seq(BOOLEAN)
      BY <1>1 DEF TypeOK
    <2>2. /\ \A j \in 1..Len(q) : q[j] = FALSE => launches[u].caller \in hasLeft
          /\ q # <<>> => q[Len(q)] = (launches[u].caller \in online)
      BY <1>1 DEF StatusInv, DeparturesHappened, NewestIsCurrent
    <2>3. CASE launches[u].caller = c
      <3>1. statusCalls'[u] = Append(q, connected)
        BY <1>1, <2>3, QueueNotified
      <3>2. LET a == Append(q, connected)
            IN /\ a # <<>> /\ a[Len(a)] = connected
               /\ \A i \in 1..Len(a) : a[i] = connected \/ (i \in 1..Len(q) /\ a[i] = q[i])
        BY <2>1, AppendToQueue
      <3> HIDE DEF q
      <3> QED
        BY <2>2, <2>3, <3>1, <3>2
    <2>4. CASE launches[u].caller # c
      <3>1. statusCalls'[u] = q
        BY <1>1, <2>4, QueueNotified
      <3> HIDE DEF q
      <3> QED
        BY <2>2, <2>4, <3>1
    <2> QED
      BY <2>3, <2>4
  <1> QED
    BY <1>2 DEF StatusInv, DeparturesHappened, NewestIsCurrent

\* Only a start, a delivered status, the hub and a restart touch status calls.
LEMMA StatusSteps ==
    ASSUME TypeOK, [Next]_vars
    PROVE  \/ AnyStart
           \/ \E t \in Tokens, hit \in Hits : OnServerStatusChanged(t, hit)
           \/ \E c \in Callers : Leave(c) \/ Join(c)
           \/ Restart
           \/ /\ UNCHANGED <<statusCalls, online, hasLeft>>
              /\ SameLaunches /\ Shrinks
  <1>1. SUFFICES ASSUME ~AnyStart,
                        ~\E t \in Tokens, hit \in Hits : OnServerStatusChanged(t, hit),
                        ~\E c \in Callers : Leave(c) \/ Join(c),
                        ~Restart
                 PROVE  UNCHANGED <<statusCalls, online, hasLeft>>
    BY Frame
  <1>2. CASE Query \/ StartRejected
    BY <1>2 DEF Query, StartRejected
  <1>3. CASE \E id \in Ids : SendResult(id)
    BY <1>3 DEF SendResult
  <1>4. CASE \E c \in Callers, id \in Ids : SubscribeResult(c, id)
    BY <1>4 DEF SubscribeResult
  <1>5. CASE \E t \in Tokens, returnValue \in BOOLEAN : OnLaunch(t, returnValue)
    BY <1>5 DEF OnLaunch
  <1>6. CASE \E c \in Callers, t \in Tokens : CancelSubscription(c, t)
    BY <1>6 DEF CancelSubscription
  <1>7. CASE DirectoryChange \/ UNCHANGED vars
    BY <1>7 DEF DirectoryChange, vars
  <1> QED
    BY <1>1, <1>2, <1>3, <1>4, <1>5, <1>6, <1>7 DEF Next, SubscribeRejected

\* Every step keeps the status queues truthful.
LEMMA StatusNext ==
    ASSUME TypeOK, StatusInv, [Next]_vars
    PROVE  StatusInv'
  <1>1. CASE AnyStart
    BY <1>1, StatusStart
  <1>2. CASE \E t \in Tokens, hit \in Hits : OnServerStatusChanged(t, hit)
    BY <1>2, StatusTaken
  <1>3. ASSUME NEW c \in Callers, Leave(c)
        PROVE  StatusInv'
    <2>1. /\ Notify(c, FALSE) /\ launches' = launches
          /\ online' = online \ {c} /\ hasLeft' = hasLeft \cup {c}
      BY <1>3 DEF Leave
    <2>2. /\ hasLeft \subseteq hasLeft' /\ c \in hasLeft'
          /\ \A d : d # c => (d \in online') = (d \in online)
          /\ (c \in online') = FALSE
      BY <2>1
    <2> QED
      BY <2>1, <2>2, StatusNotified
  <1>4. ASSUME NEW c \in Callers, Join(c)
        PROVE  StatusInv'
    <2>1. /\ Notify(c, TRUE) /\ launches' = launches
          /\ online' = online \cup {c} /\ hasLeft' = hasLeft
      BY <1>4 DEF Join
    <2>2. /\ hasLeft \subseteq hasLeft'
          /\ \A d : d # c => (d \in online') = (d \in online)
          /\ (c \in online') = TRUE
      BY <2>1
    <2> QED
      BY <2>1, <2>2, StatusNotified
  <1>5. CASE Restart
    <2>1. DOMAIN statusCalls' = {}
      BY <1>5 DEF Restart, Forget
    <2> QED
      BY <2>1 DEF StatusInv, DeparturesHappened, NewestIsCurrent
  <1>6. CASE /\ UNCHANGED <<statusCalls, online, hasLeft>>
             /\ SameLaunches /\ Shrinks
    <2>1. \A t \in DOMAIN statusCalls : t \in DOMAIN launches
      BY DEF TypeOK
    <2> QED
      BY <1>6, <2>1 DEF StatusInv, DeparturesHappened, NewestIsCurrent, SameLaunches
  <1> QED
    BY <1>1, <1>2, <1>3, <1>4, <1>5, <1>6, StatusSteps

\* There are no status calls at the beginning.
LEMMA StatusInit == Init => StatusInv
  <1> SUFFICES ASSUME Init PROVE StatusInv
    OBVIOUS
  <1>1. DOMAIN statusCalls = {}
    BY DEF Init
  <1> QED
    BY <1>1 DEF StatusInv, DeparturesHappened, NewestIsCurrent

\* The status queues are truthful in every reachable state.
THEOREM StatusCorrect == Spec => []StatusInv
  <1>1. TypeOK /\ StatusInv /\ [Next]_vars => StatusInv'
    BY StatusNext
  <1> QED
    BY <1>1, StatusInit, TypeCorrect, PTL DEF Spec

-----------------------------------------------------------------------------
\* removeByOwner takes every intent of the owner whose departure is delivered.
LEMMA DepartureCollects ==
    ASSUME TypeOK, RegistryInv, NEW t \in Tokens, NEW hit,
           OnServerStatusChanged(t, hit), ~Head(statusCalls[t])
    PROVE  /\ t \in DOMAIN launches
           /\ DOMAIN intents' = {k \in DOMAIN intents :
                                    intents[k].owner # launches[t].caller.name}
           /\ \A k \in DOMAIN intents' : intents'[k] = intents[k]
           /\ \A k \in DOMAIN intents' : intents[k].token # t
  <1>1. t \in DOMAIN launches
    BY DEF OnServerStatusChanged, TypeOK
  <1> DEFINE K == OwnedBy(launches[t].caller.name)
  <1>2. intents' = Erase(intents, K)
    BY DEF OnServerStatusChanged, RemoveByOwner
  <1>3. /\ DOMAIN Erase(intents, K) = DOMAIN intents \ K
        /\ \A x \in DOMAIN intents \ K : Erase(intents, K)[x] = intents[x]
    BY EraseIsMap
  <1>4. DOMAIN intents \ K = {k \in DOMAIN intents :
                                 intents[k].owner # launches[t].caller.name}
    BY DEF OwnedBy
  <1> HIDE DEF K
  <1>5. \A k \in DOMAIN intents :
           intents[k].token = t => intents[k].owner = launches[t].caller.name
    BY DEF RegistryInv, Filed
  <1> QED
    BY <1>1, <1>2, <1>3, <1>4, <1>5

\* A started intent's status call has a first reply under way.
LEMMA WatchedStart ==
    ASSUME TypeOK, RegistryInv, StillWatched, AnyStart
    PROVE  StillWatched'
  <1>1. PICK r \in LaunchRec, i \in IntentRec : StartEffect(r, i)
    BY StartMakes
  <1> DEFINE n == NewToken
             first == <<r.caller \in online>>
  <1>2. /\ n \notin DOMAIN launches
        /\ \A u \in DOMAIN launches : launches'[u] = launches[u]
        /\ launches'[n] = r
        /\ DOMAIN intents' = DOMAIN intents \cup {r.id}
        /\ intents'[r.id] = i
        /\ \A x \in DOMAIN intents : x # r.id => intents'[x] = intents[x]
        /\ ~r.monitored => statusCalls' = statusCalls
        /\ r.monitored =>
              /\ DOMAIN statusCalls' = DOMAIN statusCalls \cup {n}
              /\ statusCalls'[n] = first
              /\ \A x \in DOMAIN statusCalls :
                    x # n => statusCalls'[x] = statusCalls[x]
    BY <1>1, StartMaps
  <1>3. i.token = n /\ online' = online
    BY <1>1 DEF StartEffect
  <1>4. first # <<>>
    OBVIOUS
  <1> HIDE DEF n, first
  <1>5. ASSUME NEW k \in DOMAIN intents', launches'[intents'[k].token].monitored
        PROVE  /\ intents'[k].token \in DOMAIN statusCalls'
               /\ launches'[intents'[k].token].caller \notin online' =>
                      statusCalls'[intents'[k].token] # <<>>
    <2>1. CASE k = r.id
      <3>1. intents'[k].token = n /\ r.monitored
        BY <1>2, <1>3, <1>5, <2>1
      <3> QED
        BY <1>2, <1>4, <3>1
    <2>2. CASE k # r.id
      <3>1. k \in DOMAIN intents /\ intents'[k] = intents[k]
        BY <1>2, <2>2
      <3>2. intents[k].token \in DOMAIN launches
        BY <3>1 DEF RegistryInv, Filed
      <3>3. /\ launches'[intents[k].token] = launches[intents[k].token]
            /\ intents[k].token # n
        BY <1>2, <3>2
      <3>4. /\ intents[k].token \in DOMAIN statusCalls
            /\ launches[intents[k].token].caller \notin online =>
                   statusCalls[intents[k].token] # <<>>
        BY <1>5, <3>1, <3>3 DEF StillWatched
      <3>5. /\ intents[k].token \in DOMAIN statusCalls'
            /\ statusCalls'[intents[k].token] = statusCalls[intents[k].token]
        BY <1>2, <3>3, <3>4
      <3> QED
        BY <1>3, <3>1, <3>3, <3>4, <3>5
    <2> QED
      BY <2>1, <2>2
  <1> QED
    BY <1>5 DEF StillWatched

\* Without a clash of numbers the cancellation on a departure hits nothing.
LEMMA WatchedTaken ==
    ASSUME TypeOK, RegistryInv, StatusInv, StillWatched,
           NEW t \in Tokens, OnServerStatusChanged(t, {})
    PROVE  StillWatched'
  <1>1. /\ DOMAIN statusCalls' = DOMAIN statusCalls
        /\ statusCalls[t] # <<>> /\ t \in DOMAIN statusCalls
        /\ \A u \in DOMAIN statusCalls' :
              statusCalls'[u] = IF u = t THEN Tail(statusCalls[t]) ELSE statusCalls[u]
    BY QueueTaken
  <1>2. SameLaunches /\ Shrinks
    BY FrameStatus
  <1>3. online' = online
    BY DEF OnServerStatusChanged
  <1>4. ASSUME NEW k \in DOMAIN intents', launches'[intents'[k].token].monitored
        PROVE  /\ intents'[k].token \in DOMAIN statusCalls'
               /\ launches'[intents'[k].token].caller \notin online' =>
                      statusCalls'[intents'[k].token] # <<>>
    <2> DEFINE u == intents[k].token
    <2>1. k \in DOMAIN intents /\ intents'[k].token = u
      BY <1>2 DEF Shrinks
    <2>2. u \in DOMAIN launches
      BY <2>1 DEF RegistryInv, Filed
    <2>3. /\ launches'[u].caller = launches[u].caller
          /\ launches'[u].monitored = launches[u].monitored
      BY <1>2, <2>2 DEF SameLaunches
    <2>4. /\ u \in DOMAIN statusCalls
          /\ launches[u].caller \notin online => statusCalls[u] # <<>>
      BY <1>4, <2>1, <2>3 DEF StillWatched
    <2>5. ASSUME u = t, launches[u].caller \notin online
          PROVE  Tail(statusCalls[t]) # <<>>
      <3> DEFINE q == statusCalls[t]
      <3>1. q \in Seq(BOOLEAN) /\ q # <<>>
        BY <1>1 DEF TypeOK
      <3>2. Head(q)
        <4>1. SUFFICES ASSUME ~Head(statusCalls[t]) PROVE FALSE
          OBVIOUS
        <4>2. \A j \in DOMAIN intents' : intents[j].token # t
          <5>1. \A j \in DOMAIN intents' : /\ intents'[j] = intents[j]
                                           /\ intents[j].token # t
            BY <4>1, DepartureCollects
          <5> QED
            BY <5>1
        <4> QED
          BY <2>5, <4>2
      <3>3. q[Len(q)] = (launches[t].caller \in online)
        BY <1>1, <3>1 DEF StatusInv, NewestIsCurrent
      <3>4. Tail(q) = <<>> => Head(q) = q[Len(q)]
        BY <3>1, TailOfQueue
      <3> HIDE DEF q
      <3>5. q[Len(q)] = FALSE
        <4>1. (launches[t].caller \in online) = FALSE
          BY <2>5
        <4> QED
          BY <3>3, <4>1, Zenon
      <3>6. Head(q) # FALSE
        BY <3>2
      <3> QED
        BY <3>4, <3>5, <3>6 DEF q
    <2> QED
      BY <1>1, <1>3, <2>1, <2>3, <2>4, <2>5
  <1> QED
    BY <1>4 DEF StillWatched

\* News from the hub only adds to the queues.
LEMMA WatchedNotified ==
    ASSUME TypeOK, RegistryInv, StillWatched, NEW c, NEW connected \in BOOLEAN,
           Notify(c, connected), launches' = launches, Shrinks,
           \A d : d # c => (d \in online') = (d \in online)
    PROVE  StillWatched'
  <1>1. /\ DOMAIN statusCalls' = DOMAIN statusCalls
        /\ \A u \in DOMAIN statusCalls :
              /\ launches[u].caller = c =>
                    statusCalls'[u] = Append(statusCalls[u], connected)
              /\ launches[u].caller # c => statusCalls'[u] = statusCalls[u]
    BY QueueNotified
  <1>2. \A u \in DOMAIN statusCalls : Append(statusCalls[u], connected) # <<>>
    <2>1. ASSUME NEW u \in DOMAIN statusCalls
          PROVE  Append(statusCalls[u], connected) # <<>>
      <3>1. statusCalls[u] \in Seq(BOOLEAN)
        BY DEF TypeOK
      <3> QED
        BY <3>1, AppendToQueue
    <2> QED
      BY <2>1
  <1>3. \A k \in DOMAIN intents' :
           k \in DOMAIN intents /\ intents'[k].token = intents[k].token
    BY DEF Shrinks
  <1> QED
    BY <1>1, <1>2, <1>3 DEF StillWatched

\* Every step keeps the intents watched, if no numbers clash.
LEMMA WatchedNext ==
    ASSUME ~TokenClash, TypeOK, RegistryInv, StatusInv, StillWatched, [Next]_vars
    PROVE  StillWatched'
  <1>1. CASE AnyStart
    BY <1>1, WatchedStart
  <1>2. CASE \E t \in Tokens, hit \in Hits : OnServerStatusChanged(t, hit)
    <2>1. Hits = {{}}
      BY DEF Hits
    <2> QED
      BY <1>2, <2>1, WatchedTaken
  <1>3. ASSUME NEW c \in Callers, Leave(c)
        PROVE  StillWatched'
    <2>1. /\ Notify(c, FALSE) /\ launches' = launches /\ online' = online \ {c}
          /\ intents' = WithoutSubscriber(Tokens, c)
      BY <1>3 DEF Leave
    <2>2. \A d : d # c => (d \in online') = (d \in online)
      BY <2>1
    <2>3. Shrinks
      BY <2>1, FrameWithout
    <2> QED
      BY <2>1, <2>2, <2>3, WatchedNotified
  <1>4. ASSUME NEW c \in Callers, Join(c)
        PROVE  StillWatched'
    <2>1. /\ Notify(c, TRUE) /\ launches' = launches /\ online' = online \cup {c}
          /\ intents' = intents
      BY <1>4 DEF Join
    <2>2. \A d : d # c => (d \in online') = (d \in online)
      BY <2>1
    <2>3. Shrinks
      BY <2>1 DEF Shrinks
    <2> QED
      BY <2>1, <2>2, <2>3, WatchedNotified
  <1>5. CASE Restart
    <2>1. DOMAIN intents' = {}
      BY <1>5 DEF Restart, Forget
    <2> QED
      BY <2>1 DEF StillWatched
  <1>6. CASE /\ UNCHANGED <<statusCalls, online, hasLeft>>
             /\ SameLaunches /\ Shrinks
    <2>1. \A k \in DOMAIN intents : intents[k].token \in DOMAIN launches
      BY DEF RegistryInv, Filed
    <2> QED
      BY <1>6, <2>1 DEF StillWatched, SameLaunches, Shrinks
  <1> QED
    BY <1>1, <1>2, <1>3, <1>4, <1>5, <1>6, StatusSteps

\* The service has, or will be handed, the news that a monitored owner is gone,
\* provided no message number equals the token of a call of its own.
THEOREM DeparturesReachTheService ==
    ASSUME ~TokenClash PROVE Spec => []NoMissedDeparture
  <1>1. Init => StillWatched
    <2> SUFFICES ASSUME Init PROVE StillWatched
      OBVIOUS
    <2>1. DOMAIN intents = {}
      BY DEF Init
    <2> QED
      BY <2>1 DEF StillWatched
  <1>2. TypeOK /\ RegistryInv /\ StatusInv /\ StillWatched /\ [Next]_vars => StillWatched'
    BY WatchedNext
  <1>3. TypeOK /\ RegistryInv /\ StatusInv /\ StillWatched => NoMissedDeparture
    <2> SUFFICES ASSUME TypeOK, RegistryInv, StatusInv, StillWatched,
                        NEW t \in Tokens,
                        Registered(t), launches[t].monitored,
                        launches[t].caller \notin online
                 PROVE  /\ t \in DOMAIN statusCalls
                        /\ statusCalls[t] # <<>>
                        /\ statusCalls[t][Len(statusCalls[t])] = FALSE
      BY DEF NoMissedDeparture
    <2>1. t \in DOMAIN statusCalls /\ statusCalls[t] # <<>>
      BY DEF Registered, StillWatched
    <2>2. statusCalls[t][Len(statusCalls[t])] = (launches[t].caller \in online)
      BY <2>1 DEF StatusInv, NewestIsCurrent
    <2>3. (launches[t].caller \in online) = FALSE
      OBVIOUS
    <2>4. statusCalls[t][Len(statusCalls[t])] = FALSE
      BY <2>2, <2>3, Zenon
    <2> QED
      BY <2>1, <2>4
  <1> QED
    BY <1>1, <1>2, <1>3, TypeCorrect, RegistryCorrect, StatusCorrect, PTL DEF Spec

-----------------------------------------------------------------------------
\* Why started intents end.
LEMMA EndsStart ==
    ASSUME TypeOK, RegistryInv, IntentsEndForACause, AnyStart
    PROVE  IntentsEndForACause'
  <1>1. PICK r \in LaunchRec, i \in IntentRec : StartEffect(r, i)
    BY StartMakes
  <1> DEFINE n == NewToken
  <1>2. /\ DOMAIN launches' = DOMAIN launches \cup {n}
        /\ n \notin DOMAIN launches
        /\ \A u \in DOMAIN launches : launches'[u] = launches[u]
        /\ launches'[n] = r
        /\ DOMAIN intents' = DOMAIN intents \cup {r.id}
        /\ intents'[r.id] = i
        /\ \A x \in DOMAIN intents : x # r.id => intents'[x] = intents[x]
    BY <1>1, StartMaps
  <1>3. i.token = n /\ r.epoch = epoch /\ epoch' = epoch /\ hasLeft' = hasLeft
    BY <1>1 DEF StartEffect
  <1>4. \A u \in DOMAIN launches : n > u
    BY DEF TypeOK, NewToken
  <1> HIDE DEF n
  <1>5. ASSUME NEW t \in DOMAIN launches', Current(t)'
        PROVE  \/ Registered(t)'
               \/ launches'[t].reply = "failed"
               \/ Displaced(t)'
               \/ NamesakeLeft(t)'
    <2>1. CASE t = n
      BY <1>2, <1>3, <2>1 DEF Registered
    <2>2. CASE t # n
      <3>1. t \in DOMAIN launches /\ launches'[t] = launches[t] /\ Current(t)
        BY <1>2, <1>3, <1>5, <2>2 DEF Current
      <3>2. CASE Registered(t)
        <4>1. PICK k \in DOMAIN intents : intents[k].token = t
          BY <3>2 DEF Registered
        <4>2. CASE k = r.id
          <5>1. launches'[n].id = launches'[t].id
            BY <1>2, <3>1, <4>1, <4>2 DEF RegistryInv, Filed
          <5> QED
            BY <1>2, <1>3, <1>4, <3>1, <5>1 DEF Displaced
        <4>3. CASE k # r.id
          BY <1>2, <4>1, <4>3 DEF Registered
        <4> QED
          BY <4>2, <4>3
      <3>3. CASE launches[t].reply = "failed"
        BY <3>1, <3>3
      <3>4. CASE Displaced(t)
        <4>1. PICK u \in DOMAIN launches : /\ u > t /\ launches[u].epoch = epoch
                                           /\ launches[u].id = launches[t].id
          BY <3>4 DEF Displaced
        <4>2. u \in DOMAIN launches' /\ launches'[u] = launches[u]
          BY <1>2
        <4> QED
          BY <1>3, <3>1, <4>1, <4>2 DEF Displaced
      <3>5. CASE NamesakeLeft(t)
        BY <1>3, <3>1, <3>5 DEF NamesakeLeft
      <3> QED
        BY <3>1, <3>2, <3>3, <3>4, <3>5 DEF IntentsEndForACause
    <2> QED
      BY <2>1, <2>2
  <1> QED
    BY <1>5 DEF IntentsEndForACause

\* A step that keeps the launches' outcomes needs a cause only for what it ends.
LEMMA EndsKept ==
    ASSUME IntentsEndForACause, SameLaunches, Onward,
           \A t \in DOMAIN launches :
              launches[t].reply = "failed" => launches'[t].reply = "failed",
           \A t \in DOMAIN launches : Registered(t) =>
              \/ Registered(t)'
              \/ launches'[t].reply = "failed"
              \/ \E c \in hasLeft : c.name = launches[t].caller.name
    PROVE  IntentsEndForACause'
  <1>1. ASSUME NEW t \in DOMAIN launches', Current(t)'
        PROVE  \/ Registered(t)'
               \/ launches'[t].reply = "failed"
               \/ Displaced(t)'
               \/ NamesakeLeft(t)'
    <2>1. t \in DOMAIN launches /\ Current(t)
      BY <1>1 DEF SameLaunches, Onward, Current
    <2>2. CASE Registered(t)
      BY <2>1, <2>2 DEF SameLaunches, Onward, NamesakeLeft
    <2>3. CASE launches[t].reply = "failed"
      BY <2>1, <2>3
    <2>4. CASE Displaced(t)
      <3>1. PICK u \in DOMAIN launches : /\ u > t /\ launches[u].epoch = epoch
                                         /\ launches[u].id = launches[t].id
        BY <2>4 DEF Displaced
      <3>2. /\ u \in DOMAIN launches' /\ launches'[u].epoch = epoch'
            /\ launches'[u].id = launches'[t].id
        BY <2>1, <3>1 DEF SameLaunches, Onward
      <3> QED
        BY <3>1, <3>2 DEF Displaced
    <2>5. CASE NamesakeLeft(t)
      BY <2>1, <2>5 DEF SameLaunches, Onward, NamesakeLeft
    <2> QED
      BY <2>1, <2>2, <2>3, <2>4, <2>5 DEF IntentsEndForACause
  <1> QED
    BY <1>1 DEF IntentsEndForACause

\* onLaunch ends the intent of the failed launch and no other.
LEMMA FailureEnds ==
    ASSUME TypeOK, NEW t \in Tokens, NEW returnValue \in BOOLEAN,
           OnLaunch(t, returnValue)
    PROVE  /\ t \in DOMAIN launches
           /\ launches[t].reply = "pending"
           /\ launches'[t].reply = IF returnValue THEN "ok" ELSE "failed"
           /\ \A u \in DOMAIN launches : u # t => launches'[u] = launches[u]
           /\ returnValue => intents' = intents
           /\ \A k \in DOMAIN intents :
                 intents[k].token # t => k \in DOMAIN intents' /\ intents'[k] = intents[k]
  <1>1. /\ t \in DOMAIN launches /\ launches[t].reply = "pending"
        /\ launches' = [launches EXCEPT ![t].reply = IF returnValue THEN "ok" ELSE "failed"]
    BY DEF OnLaunch
  <1>2. launches[t] \in LaunchRec
    BY <1>1 DEF TypeOK
  <1>3. /\ launches'[t].reply = IF returnValue THEN "ok" ELSE "failed"
        /\ \A u \in DOMAIN launches : u # t => launches'[u] = launches[u]
    BY <1>1, <1>2 DEF LaunchRec
  <1>4. returnValue \/ GetByToken(t) = {} => intents' = intents
    BY DEF OnLaunch
  <1>5. ASSUME ~(returnValue \/ GetByToken(t) = {}), NEW k \in DOMAIN intents,
               intents[k].token # t
        PROVE  k \in DOMAIN intents' /\ intents'[k] = intents[k]
    <2>1. PICK j \in GetByToken(t) : intents' = RemoveById(intents[j].intentId)
      BY <1>5 DEF OnLaunch
    <2>2. j \in DOMAIN intents /\ intents[j].token = t
      BY <2>1 DEF GetByToken
    <2>3. intents[j].intentId = j
      BY <2>2 DEF TypeOK
    <2> DEFINE K == {j}
    <2>4. intents' = Erase(intents, K)
      BY <2>1, <2>3 DEF RemoveById
    <2>5. /\ DOMAIN Erase(intents, K) = DOMAIN intents \ K
          /\ \A x \in DOMAIN intents \ K : Erase(intents, K)[x] = intents[x]
      BY EraseIsMap
    <2>6. k \in DOMAIN intents \ K
      BY <1>5, <2>2
    <2> HIDE DEF K
    <2> QED
      BY <2>4, <2>5, <2>6
  <1> QED
    BY <1>1, <1>3, <1>4, <1>5

\* No step ends an intent without a cause.
LEMMA EndsNext ==
    ASSUME TypeOK, RegistryInv, StatusInv, IntentsEndForACause, [Next]_vars
    PROVE  IntentsEndForACause'
  <1>1. CASE AnyStart
    BY <1>1, EndsStart
  <1>2. ASSUME NEW t \in Tokens, NEW returnValue \in BOOLEAN, OnLaunch(t, returnValue)
        PROVE  IntentsEndForACause'
    <2>1. SameLaunches
      BY <1>2, FrameOnLaunch
    <2>2. Onward
      <3>1. s_counter \in Int /\ UNCHANGED <<s_counter, hasLeft, epoch>>
        BY <1>2, BoundsAssumption DEF TypeOK, OnLaunch
      <3> QED
        BY <3>1 DEF Onward
    <2>3. /\ launches[t].reply = "pending"
          /\ launches'[t].reply = IF returnValue THEN "ok" ELSE "failed"
          /\ \A u \in DOMAIN launches : u # t => launches'[u] = launches[u]
          /\ returnValue => intents' = intents
          /\ \A k \in DOMAIN intents :
                intents[k].token # t => k \in DOMAIN intents' /\ intents'[k] = intents[k]
      BY <1>2, FailureEnds
    <2>4. \A u \in DOMAIN launches :
             launches[u].reply = "failed" => launches'[u].reply = "failed"
      BY <2>3
    <2>5. \A u \in DOMAIN launches :
             Registered(u) => Registered(u)' \/ launches'[u].reply = "failed"
      BY <2>3 DEF Registered
    <2> QED
      BY <2>1, <2>2, <2>4, <2>5, EndsKept
  <1>3. ASSUME NEW t \in Tokens, NEW hit \in Hits, OnServerStatusChanged(t, hit)
        PROVE  IntentsEndForACause'
    <2>1. SameLaunches
      BY <1>3, FrameStatus
    <2>2. Onward
      <3>1. UNCHANGED <<s_counter, hasLeft, epoch>>
        BY <1>3 DEF OnServerStatusChanged
      <3>2. s_counter \in Int
        BY BoundsAssumption DEF TypeOK
      <3> QED
        BY <3>1, <3>2 DEF Onward
    <2>3. \A u \in DOMAIN launches :
             launches[u].reply = "failed" => launches'[u].reply = "failed"
      <3>1. CASE Head(statusCalls[t])
        BY <1>3, <3>1 DEF OnServerStatusChanged
      <3>2. CASE ~Head(statusCalls[t])
        <4>1. launches' = [u \in DOMAIN launches |->
                             IF <<"launch", u>> \in hit
                             THEN [launches[u] EXCEPT !.reply = "cancelled"]
                             ELSE launches[u]]
          BY <1>3, <3>2 DEF OnServerStatusChanged, LSCallCancel
        <4>2. \A u : <<"launch", u>> \in hit => launches[u].reply = "pending"
          BY DEF Hits, LiveCalls
        <4> QED
          BY <4>1, <4>2
      <3> QED
        BY <3>1, <3>2
    <2>4. \A u \in DOMAIN launches : Registered(u) =>
             Registered(u)' \/ \E c \in hasLeft : c.name = launches[u].caller.name
      <3>1. CASE Head(statusCalls[t])
        BY <1>3, <3>1 DEF OnServerStatusChanged, Registered
      <3>2. CASE ~Head(statusCalls[t])
        <4>1. /\ DOMAIN intents' = {k \in DOMAIN intents :
                                      intents[k].owner # launches[t].caller.name}
              /\ \A k \in DOMAIN intents' : intents'[k] = intents[k]
          BY <1>3, <3>2, DepartureCollects
        <4>2. launches[t].caller \in hasLeft
          <5> DEFINE q == statusCalls[t]
          <5>1. t \in DOMAIN statusCalls /\ q \in Seq(BOOLEAN) /\ q # <<>>
            BY <1>3 DEF OnServerStatusChanged, TypeOK
          <5>2. Head(q) = q[1] /\ 1 \in 1..Len(q) /\ q[1] \in BOOLEAN
            BY <5>1
          <5>3. q[1] = FALSE
            BY <3>2, <5>2
          <5> QED
            BY <5>1, <5>2, <5>3 DEF StatusInv, DeparturesHappened
        <4>3. \A k \in DOMAIN intents :
                 launches[intents[k].token].caller.name = intents[k].owner
          BY DEF RegistryInv, Filed
        <4> QED
          BY <4>1, <4>2, <4>3 DEF Registered
      <3> QED
        BY <3>1, <3>2
    <2> QED
      BY <2>1, <2>2, <2>3, <2>4, EndsKept
  <1>4. CASE Restart
    <2>1. epoch' = epoch + 1 /\ launches' = launches
      BY <1>4 DEF Restart, Forget
    <2>2. \A t \in DOMAIN launches : launches[t] \in LaunchRec
      BY DEF TypeOK
    <2>3. \A t \in DOMAIN launches : launches[t].epoch <= epoch
      BY DEF RegistryInv, PastEpochs
    <2>4. epoch \in Nat
      BY BoundsAssumption DEF TypeOK
    <2>5. \A t \in DOMAIN launches : launches[t].epoch # epoch + 1
      BY <2>2, <2>3, <2>4 DEF LaunchRec
    <2> QED
      BY <2>1, <2>5 DEF IntentsEndForACause, Current
  <1>5. ASSUME ~AnyStart, ~Restart, launches' = launches,
               DOMAIN intents' = DOMAIN intents
        PROVE  IntentsEndForACause'
    <2>1. SameLaunches /\ Shrinks /\ Onward
      BY <1>5, Frame, RunsOnward
    <2>2. \A u \in DOMAIN launches : Registered(u) => Registered(u)'
      BY <1>5, <2>1 DEF Shrinks, Registered
    <2> QED
      BY <1>5, <2>1, <2>2, EndsKept
  <1>6. CASE \/ Query \/ StartRejected \/ DirectoryChange \/ UNCHANGED vars
             \/ \E id \in Ids : SendResult(id)
    BY <1>1, <1>4, <1>5, <1>6
       DEF Query, StartRejected, DirectoryChange, vars, SendResult
  <1>7. CASE \E c \in Callers, id \in Ids : SubscribeResult(c, id)
    BY <1>1, <1>4, <1>5, <1>7 DEF SubscribeResult
  <1>8. ASSUME NEW c \in Callers, NEW t \in Tokens, CancelSubscription(c, t)
        PROVE  IntentsEndForACause'
    <2>1. intents' = WithoutSubscriber({t}, c) /\ launches' = launches
      BY <1>8 DEF CancelSubscription
    <2>2. DOMAIN intents' = DOMAIN intents
      BY <2>1 DEF WithoutSubscriber
    <2> QED
      BY <1>1, <1>4, <1>5, <2>1, <2>2
  <1>9. ASSUME NEW c \in Callers, Leave(c) \/ Join(c)
        PROVE  IntentsEndForACause'
    <2>1. intents' = WithoutSubscriber(Tokens, c) \/ intents' = intents
      BY <1>9 DEF Leave, Join
    <2>2. DOMAIN intents' = DOMAIN intents /\ launches' = launches
      BY <1>9, <2>1 DEF WithoutSubscriber, Leave, Join
    <2> QED
      BY <1>1, <1>4, <1>5, <2>2
  <1> QED
    BY <1>1, <1>2, <1>3, <1>4, <1>6, <1>7, <1>8, <1>9 DEF Next, SubscribeRejected

\* A started intent does not vanish from the registry for nothing.
THEOREM IntentsEndOnlyForACause == Spec => []IntentsEndForACause
  <1>1. Init => IntentsEndForACause
    BY DEF Init, IntentsEndForACause
  <1>2. /\ TypeOK /\ RegistryInv /\ StatusInv /\ IntentsEndForACause /\ [Next]_vars
        => IntentsEndForACause'
    BY EndsNext
  <1> QED
    BY <1>1, <1>2, TypeCorrect, RegistryCorrect, StatusCorrect, PTL DEF Spec

\* Where no two clients share a name, which holds as long as an application runs
\* in one session only, no departure but the requester's own ends an intent.
THEOREM DistinctNamesSuffice ==
    ASSUME \A c, d \in Callers : c.name = d.name => c = d
    PROVE  Spec => []IntentsEndForOwnCause
  <1>1. TypeOK /\ IntentsEndForACause => IntentsEndForOwnCause
    <2> SUFFICES ASSUME TypeOK, IntentsEndForACause,
                        NEW t \in DOMAIN launches, Current(t), NamesakeLeft(t)
                 PROVE  launches[t].caller \in hasLeft
      BY DEF IntentsEndForACause, IntentsEndForOwnCause
    <2>0. launches \in Seq(LaunchRec) /\ hasLeft \subseteq Callers
      BY DEF TypeOK
    <2>1. launches[t] \in LaunchRec /\ hasLeft \subseteq Callers
      BY <2>0
    <2>2. PICK c \in hasLeft : c.name = launches[t].caller.name
      BY DEF NamesakeLeft
    <2>3. c = launches[t].caller
      BY <2>1, <2>2 DEF LaunchRec
    <2> QED
      BY <2>2, <2>3
  <1> QED
    BY <1>1, TypeCorrect, IntentsEndOnlyForACause, PTL

-----------------------------------------------------------------------------
\* What subscribers are told.
LEMMA Posted ==
    ASSUME TypeOK, NEW t \in Tokens, NEW to, NEW what
    PROVE  \A u \in Tokens, c \in Callers :
              Post(t, to, what)[u][c] =
                  IF u = t /\ c \in to THEN what ELSE view[u][c]
  <1>1. view \in [Tokens -> [Callers -> Views]]
    BY DEF TypeOK
  <1>2. Post(t, to, what) =
           [view EXCEPT ![t] = [c \in Callers |-> IF c \in to THEN what ELSE view[t][c]]]
    BY DEF Post
  <1> QED
    BY <1>1, <1>2

VerdictKept ==
    \A t \in Tokens, c \in Callers :
        view[t][c] = "failed" => view'[t][c] \in {"failed", "none"}

\* A step that revives no intent and only adds a failure to one that is gone.
LEMMA VerdictGeneric ==
    ASSUME FailureIsTheEnd, DOMAIN launches \subseteq DOMAIN launches',
           \A t \in Tokens :
              Registered(t)' => Registered(t) \/ t \notin DOMAIN launches,
           \A t \in Tokens, c \in Callers :
              \/ view'[t][c] = view[t][c]
              \/ view'[t][c] = "none"
              \/ t \in DOMAIN launches' /\ ~Registered(t)' /\ view'[t][c] = "failed"
              \/ /\ t \in DOMAIN launches' /\ view'[t][c] \in {"open", "answered"}
                 /\ Registered(t) \/ t \notin DOMAIN launches
    PROVE  FailureIsTheEnd' /\ VerdictKept
  BY DEF FailureIsTheEnd, VerdictKept

\* A shrinking registry registers nothing new.
LEMMA ShrinksRegisters ==
    ASSUME Shrinks
    PROVE  \A t : Registered(t)' => Registered(t)
  BY DEF Shrinks, Registered

\* Posting to the subscribers of a registered intent.
LEMMA VerdictPosted ==
    ASSUME TypeOK, RegistryInv, FailureIsTheEnd, SameLaunches, Shrinks,
           NEW id \in DOMAIN intents, NEW to, NEW what \in {"open", "answered"},
           view' = Post(intents[id].token, to, what)
    PROVE  FailureIsTheEnd' /\ VerdictKept
  <1> DEFINE t == intents[id].token
  <1>1. t \in Tokens /\ t \in DOMAIN launches /\ Registered(t)
    BY DEF TypeOK, IntentRec, RegistryInv, Filed, Registered
  <1>2. \A u \in Tokens, c \in Callers :
           view'[u][c] = IF u = t /\ c \in to THEN what ELSE view[u][c]
    BY <1>1, Posted
  <1> HIDE DEF t
  <1> QED
    BY <1>1, <1>2, ShrinksRegisters, VerdictGeneric DEF SameLaunches

\* No step revives a failed intent or takes back a failure.
LEMMA VerdictNext ==
    ASSUME TypeOK, RegistryInv, FailureIsTheEnd, [Next]_vars
    PROVE  FailureIsTheEnd' /\ VerdictKept
  <1>1. CASE AnyStart
    <2>1. PICK r \in LaunchRec, i \in IntentRec : StartEffect(r, i)
      BY <1>1, StartMakes
    <2> DEFINE n == NewToken
    <2>2. /\ DOMAIN launches' = DOMAIN launches \cup {n}
          /\ n \notin DOMAIN launches /\ n \in Tokens
          /\ DOMAIN intents' = DOMAIN intents \cup {r.id}
          /\ intents'[r.id] = i
          /\ \A x \in DOMAIN intents : x # r.id => intents'[x] = intents[x]
      BY <2>1, StartMaps
    <2>3. i.token = n /\ view' = Post(n, i.subscribers, "open")
      BY <2>1 DEF StartEffect
    <2>4. \A u \in Tokens, c \in Callers :
             view'[u][c] = IF u = n /\ c \in i.subscribers THEN "open" ELSE view[u][c]
      BY <2>2, <2>3, Posted
    <2> HIDE DEF n
    <2>5. \A t \in Tokens : Registered(t)' => Registered(t) \/ t \notin DOMAIN launches
      BY <2>2, <2>3 DEF Registered
    <2> QED
      BY <2>2, <2>4, <2>5, VerdictGeneric
  <1>2. ASSUME NEW id \in Ids, SendResult(id)
        PROVE  FailureIsTheEnd' /\ VerdictKept
    <2>1. SameLaunches /\ Shrinks
      BY <1>2 DEF SendResult, SameLaunches, Shrinks
    <2>2. CASE id \in DOMAIN intents
      <3>1. view' = Post(intents[id].token, intents[id].subscribers, "answered")
        BY <1>2, <2>2 DEF SendResult
      <3> QED
        BY <2>1, <2>2, <3>1, VerdictPosted
    <2>3. CASE id \notin DOMAIN intents
      <3>1. view' = view
        BY <1>2, <2>3 DEF SendResult
      <3> QED
        BY <2>1, <3>1, ShrinksRegisters, VerdictGeneric DEF SameLaunches
    <2> QED
      BY <2>2, <2>3
  <1>3. ASSUME NEW c \in Callers, NEW id \in Ids, SubscribeResult(c, id)
        PROVE  FailureIsTheEnd' /\ VerdictKept
    <2>1. SameLaunches /\ Shrinks
      BY <1>3, FrameSubscribe
    <2>2. id \in DOMAIN intents /\ view' = Post(intents[id].token, {c}, "open")
      BY <1>3 DEF SubscribeResult
    <2> QED
      BY <2>1, <2>2, VerdictPosted
  <1>4. ASSUME NEW t \in Tokens, NEW returnValue \in BOOLEAN, OnLaunch(t, returnValue)
        PROVE  FailureIsTheEnd' /\ VerdictKept
    <2>1. SameLaunches /\ Shrinks
      BY <1>4, FrameOnLaunch
    <2>2. CASE returnValue \/ GetByToken(t) = {}
      <3>1. view' = view
        BY <1>4, <2>2 DEF OnLaunch
      <3> QED
        BY <2>1, <3>1, ShrinksRegisters, VerdictGeneric DEF SameLaunches
    <2>3. CASE ~(returnValue \/ GetByToken(t) = {})
      <3>1. PICK j \in GetByToken(t) :
                /\ view' = Post(t, intents[j].subscribers, "failed")
                /\ intents' = RemoveById(intents[j].intentId)
        BY <1>4, <2>3 DEF OnLaunch
      <3>2. j \in DOMAIN intents /\ intents[j].token = t
        BY <3>1 DEF GetByToken
      <3>3. /\ t \in DOMAIN launches
            /\ \A k \in DOMAIN intents : intents[k].token = t => k = j
        BY <3>2 DEF RegistryInv, Filed
      <3>4. intents[j].intentId = j
        BY <3>2 DEF TypeOK
      <3> DEFINE K == {j}
      <3>5. intents' = Erase(intents, K)
        BY <3>1, <3>4 DEF RemoveById
      <3>6. /\ DOMAIN Erase(intents, K) = DOMAIN intents \ K
            /\ \A x \in DOMAIN intents \ K : Erase(intents, K)[x] = intents[x]
        BY EraseIsMap
      <3>7. j \in K
        OBVIOUS
      <3> HIDE DEF K
      <3>8. ~Registered(t)'
        BY <3>3, <3>5, <3>6, <3>7 DEF Registered
      <3>9. \A u \in Tokens, c \in Callers :
               view'[u][c] = IF u = t /\ c \in intents[j].subscribers
                             THEN "failed" ELSE view[u][c]
        BY <3>1, Posted
      <3> QED
        BY <2>1, <3>3, <3>8, <3>9, ShrinksRegisters, VerdictGeneric DEF SameLaunches
    <2> QED
      BY <2>2, <2>3
  <1>5. ASSUME NEW c \in Callers, NEW t \in Tokens, CancelSubscription(c, t)
        PROVE  FailureIsTheEnd' /\ VerdictKept
    <2>1. /\ intents' = WithoutSubscriber({t}, c) /\ launches' = launches
          /\ view' = Post(t, {c}, "none")
      BY <1>5 DEF CancelSubscription
    <2>2. Shrinks
      BY <2>1, FrameWithout
    <2>3. \A u \in Tokens, d \in Callers :
             view'[u][d] = IF u = t /\ d \in {c} THEN "none" ELSE view[u][d]
      BY <2>1, Posted
    <2> QED
      BY <2>1, <2>2, <2>3, ShrinksRegisters, VerdictGeneric
  <1>6. ASSUME NEW c \in Callers, Leave(c)
        PROVE  FailureIsTheEnd' /\ VerdictKept
    <2>1. /\ intents' = WithoutSubscriber(Tokens, c) /\ launches' = launches
          /\ view' = [t \in Tokens |-> [view[t] EXCEPT ![c] = "none"]]
      BY <1>6 DEF Leave
    <2>2. Shrinks
      BY <2>1, FrameWithout
    <2>3. \A u \in Tokens : view[u] \in [Callers -> Views]
      BY DEF TypeOK
    <2>4. \A u \in Tokens, d \in Callers :
             view'[u][d] = view[u][d] \/ view'[u][d] = "none"
      BY <2>1, <2>3
    <2> QED
      BY <2>1, <2>2, <2>4, ShrinksRegisters, VerdictGeneric
  <1>7. CASE Restart
    <2>1. /\ DOMAIN intents' = {} /\ launches' = launches
          /\ \A u \in Tokens, d \in Callers : view'[u][d] = "none"
      BY <1>7 DEF Restart, Forget
    <2> QED
      BY <2>1, VerdictGeneric DEF Registered
  <1>8. ASSUME ~AnyStart, view' = view
        PROVE  FailureIsTheEnd' /\ VerdictKept
    <2>1. SameLaunches /\ Shrinks
      BY <1>8, Frame
    <2> QED
      BY <1>8, <2>1, ShrinksRegisters, VerdictGeneric DEF SameLaunches
  <1>9. CASE Query \/ StartRejected \/ DirectoryChange \/ UNCHANGED vars
    BY <1>1, <1>8, <1>9 DEF Query, StartRejected, DirectoryChange, vars
  <1>10. CASE \E t \in Tokens, hit \in Hits : OnServerStatusChanged(t, hit)
    BY <1>1, <1>8, <1>10 DEF OnServerStatusChanged
  <1>11. CASE \E c \in Callers : Join(c)
    BY <1>1, <1>8, <1>11 DEF Join
  <1> QED
    BY <1>1, <1>2, <1>3, <1>4, <1>5, <1>6, <1>7, <1>9, <1>10, <1>11
       DEF Next, SubscribeRejected

\* No result follows the news that a launch failed.
THEOREM TheVerdictIsFinal == Spec => VerdictIsFinal
  <1>1. Init => FailureIsTheEnd
    <2> SUFFICES ASSUME Init PROVE FailureIsTheEnd
      OBVIOUS
    <2>1. \A t \in Tokens, c \in Callers : view[t][c] = "none"
      BY DEF Init
    <2> QED
      BY <2>1 DEF FailureIsTheEnd
  <1>2. TypeOK /\ RegistryInv /\ FailureIsTheEnd /\ [Next]_vars => FailureIsTheEnd'
    BY VerdictNext
  <1>3. TypeOK /\ RegistryInv /\ FailureIsTheEnd /\ [Next]_vars =>
           [\A t \in Tokens, c \in Callers :
               view[t][c] = "failed" => view'[t][c] \in {"failed", "none"}]_vars
    BY VerdictNext DEF VerdictKept
  <1> QED
    BY <1>1, <1>2, <1>3, TypeCorrect, RegistryCorrect, PTL DEF Spec, VerdictIsFinal
===============================================================================
