--------------------------- MODULE IntentLedgerProofs ---------------------------
(*****************************************************************************)
(* IntentManager implements IntentLedger, for every value of its constants:  *)
(* each step is a step of the ledger or leaves the ledger alone.  On the way *)
(* service and clients are shown to agree on who waits, and, at the end,     *)
(* that nobody who waits is forgotten without one of the known causes.       *)
(*****************************************************************************)
EXTENDS IntentManagerProofs

\* Subscribed is who waits: the service and its clients agree on it.
SubscribersWait ==
    \A k \in DOMAIN intents, c \in Callers :
        c \in intents[k].subscribers <=> view[intents[k].token][c] \in {"open", "answered"}

\* An id a request chose is one that requests choose.
ChosenIds == \A t \in DOMAIN launches : launches[t].chosen => launches[t].id \in ClientIds

LedgerInv == SubscribersWait /\ ChosenIds

\* The invariants the simulation rests on.
Known == TypeOK /\ RegistryInv /\ StatusInv /\ FailureIsTheEnd /\ LedgerInv

-----------------------------------------------------------------------------
\* The running intents are the registered ones.
LEMMA RunningMeans == \A t : t \in Running <=> \E k \in DOMAIN intents : intents[k].token = t
  BY DEF Running

\* The next state's running intents, likewise.
LEMMA RunningNextMeans ==
    \A t : t \in Running' <=> \E k \in DOMAIN intents' : intents'[k].token = t
  BY DEF Running

\* A running intent is a launch, and is registered once.
LEMMA TokensUnique ==
    ASSUME TypeOK, RegistryInv
    PROVE  /\ \A k \in DOMAIN intents : intents[k].token \in Tokens \cap DOMAIN launches
           /\ \A j, k \in DOMAIN intents : intents[j].token = intents[k].token => j = k
  BY DEF TypeOK, IntentRec, RegistryInv, Filed

\* Steps within the frame leave the names of the owners alone.
LEMMA OwnersKept == ASSUME SameLaunches PROVE Owners' = Owners
  BY DEF SameLaunches, Owners

\* Steps within the frame choose no ids.
LEMMA ChosenKept == ASSUME SameLaunches, ChosenIds PROVE ChosenIds'
  BY DEF SameLaunches, ChosenIds

\* A registry with the same tokens has the same intents running.
LEMMA RunningKept ==
    ASSUME DOMAIN intents' = DOMAIN intents,
           \A k \in DOMAIN intents : intents'[k].token = intents[k].token
    PROVE  Running' = Running
  <1>1. \A t : t \in Running' <=> t \in Running
    BY RunningMeans, RunningNextMeans
  <1> QED
    BY <1>1

\* Who waits in the ledger is who is subscribed.
LEMMA WaitingSubscribed ==
    ASSUME TypeOK, LedgerInv, NEW k \in DOMAIN intents
    PROVE  Ledger!Waiting(intents[k].token) = intents[k].subscribers
  <1>1. intents[k].subscribers \subseteq Callers
    BY DEF TypeOK, IntentRec
  <1>2. \A c \in Callers : c \in intents[k].subscribers
                              <=> view[intents[k].token][c] \in {"open", "answered"}
    BY DEF LedgerInv, SubscribersWait
  <1> QED
    BY <1>1, <1>2 DEF Ledger!Waiting

\* Posting is telling.
LEMMA PostTells ==
    ASSUME NEW t, NEW to, NEW what, view' = Post(t, to, what)
    PROVE  Ledger!Tell(t, to, what)
  BY DEF Post, Ledger!Tell

\* A step that shrinks the registry, and lets each caller stay subscribed as long as
\* it waits, keeps the agreement.
LEMMA WaitsKept ==
    ASSUME SubscribersWait, Shrinks,
           \A k \in DOMAIN intents', c \in Callers :
              \/ /\ c \in intents'[k].subscribers <=> c \in intents[k].subscribers
                 /\ \/ view'[intents[k].token][c] = view[intents[k].token][c]
                    \/ /\ view[intents[k].token][c] \in {"open", "answered"}
                       /\ view'[intents[k].token][c] \in {"open", "answered"}
              \/ /\ c \in intents'[k].subscribers
                 /\ view'[intents[k].token][c] \in {"open", "answered"}
              \/ /\ c \notin intents'[k].subscribers
                 /\ view'[intents[k].token][c] \notin {"open", "answered"}
    PROVE  SubscribersWait'
  BY DEF SubscribersWait, Shrinks

-----------------------------------------------------------------------------
\* A start is a start; whom it displaces is the one intent with its id, and there is
\* none unless requests choose ids.
LEMMA LedgerStart ==
    ASSUME Known, AnyStart
    PROVE  LedgerInv' /\ Ledger!Next
  <1> USE DEF Known
  <1>1. PICK r \in LaunchRec, i \in IntentRec : StartEffect(r, i)
    BY StartMakes
  <1> DEFINE n == NewToken
             lost == {intents[k].token : k \in DOMAIN intents \cap {r.id}}
  <1>2. /\ DOMAIN launches' = DOMAIN launches \cup {n}
        /\ n \in Tokens /\ n \notin DOMAIN launches
        /\ \A u \in DOMAIN launches : launches'[u] = launches[u]
        /\ launches'[n] = r
        /\ DOMAIN intents' = DOMAIN intents \cup {r.id}
        /\ intents'[r.id] = i
        /\ \A x \in DOMAIN intents : x # r.id => intents'[x] = intents[x]
    BY <1>1, StartMaps
  <1>3. /\ i.token = n /\ i.subscribers \subseteq {r.caller}
        /\ view' = Post(n, i.subscribers, "open")
        /\ hasLeft' = hasLeft
        /\ r.chosen => r.id \in ClientIds
        /\ ~r.chosen => r.id = s_counter + 1
        /\ launches' = Append(launches, r)
    BY <1>1 DEF StartEffect
  <1>4. \A u \in Tokens, c \in Callers :
           view'[u][c] = IF u = n /\ c \in i.subscribers THEN "open" ELSE view[u][c]
    BY <1>2, <1>3, Posted
  <1>5. /\ \A k \in DOMAIN intents : intents[k].token \in Tokens \cap DOMAIN launches
        /\ \A j, k \in DOMAIN intents : intents[j].token = intents[k].token => j = k
    BY TokensUnique
  <1>6. \A c \in Callers : view[n][c] = "none"
    BY <1>2 DEF FailureIsTheEnd
  <1>owners. n = Len(Owners) + 1 /\ Owners' = Append(Owners, r.caller.name)
    <2>1. launches \in Seq(LaunchRec)
      BY DEF TypeOK
    <2>2. DOMAIN Owners = 1..Len(launches) /\ Owners \in Seq({launches[u].caller.name : u \in DOMAIN launches})
      BY <2>1 DEF Owners
    <2>3. Len(Owners) = Len(launches)
      BY <2>1, <2>2
    <2>4. Owners' = [u \in 1..Len(launches) + 1 |->
                        IF u = Len(launches) + 1 THEN r.caller.name ELSE Owners[u]]
      BY <1>3, <2>1 DEF Owners
    <2> QED
      BY <2>2, <2>3, <2>4 DEF NewToken
  <1> HIDE DEF n
  <1>7. SubscribersWait'
    <2> SUFFICES ASSUME NEW k \in DOMAIN intents', NEW c \in Callers
                 PROVE  c \in intents'[k].subscribers
                           <=> view'[intents'[k].token][c] \in {"open", "answered"}
      BY DEF SubscribersWait
    <2>1. CASE k = r.id
      BY <1>2, <1>3, <1>4, <1>6, <2>1
    <2>2. CASE k # r.id
      BY <1>2, <1>4, <1>5, <2>2 DEF LedgerInv, SubscribersWait
    <2> QED
      BY <2>1, <2>2
  <1>8. ChosenIds'
    BY <1>2, <1>3 DEF LedgerInv, ChosenIds
  <1>9. Running' = (Running \ lost) \cup {n}
    <2>1. \A t : t \in lost <=> r.id \in DOMAIN intents /\ t = intents[r.id].token
      OBVIOUS
    <2> HIDE DEF lost
    <2>2. \A t : t \in Running' <=> t = n \/ (t \in Running /\ t \notin lost)
      BY <1>2, <1>3, <1>5, <2>1, RunningMeans, RunningNextMeans
    <2> QED
      BY <2>2
  <1>10. /\ lost \in SUBSET Running
         /\ \A u, v \in lost : u = v
    BY RunningMeans
  <1>11. lost # {} => ClientIds # {}
    <2> SUFFICES ASSUME r.id \in DOMAIN intents, ClientIds = {} PROVE FALSE
      OBVIOUS
    <2> DEFINE u == intents[r.id].token
    <2>1. u \in DOMAIN launches /\ Current(u) /\ launches[u].id = r.id
      BY DEF RegistryInv, Filed, Current
    <2> HIDE DEF u
    <2>2. ~launches[u].chosen /\ r.id = s_counter + 1
      BY <1>3, <2>1 DEF LedgerInv, ChosenIds, LaunchRec
    <2>3. launches[u].id \in 1..s_counter
      BY <2>1, <2>2 DEF RegistryInv, CountedIds
    <2>4. s_counter \in Nat
      BY BoundsAssumption DEF TypeOK
    <2> QED
      BY <2>1, <2>2, <2>3, <2>4
  <1>12. i.subscribers \in SUBSET Callers /\ r.caller \in Callers
    BY DEF IntentRec, LaunchRec
  <1>13. Ledger!Tell(n, i.subscribers, "open") /\ NamesLeft' = NamesLeft
    BY <1>3, PostTells DEF NamesLeft
  <1> HIDE DEF lost
  <1>14. Ledger!Start(r.caller, i.subscribers, lost)
    BY <1>2, <1>3, <1>owners, <1>9, <1>10, <1>11, <1>13 DEF Ledger!Start
  <1> QED
    BY <1>7, <1>8, <1>10, <1>12, <1>14 DEF LedgerInv, Ledger!Next

\* sendResult answers the running intent, or changes nothing.
LEMMA LedgerAnswer ==
    ASSUME Known, NEW id \in Ids, SendResult(id)
    PROVE  LedgerInv' /\ (Ledger!Next \/ UNCHANGED Ledger!vars)
  <1> USE DEF Known
  <1>1. /\ intents' = intents /\ launches' = launches /\ hasLeft' = hasLeft
        /\ SameLaunches /\ Shrinks
    BY DEF SendResult, SameLaunches, Shrinks
  <1>2. Owners' = Owners /\ Running' = Running /\ NamesLeft' = NamesLeft /\ ChosenIds'
    BY <1>1, OwnersKept, ChosenKept DEF Running, NamesLeft, LedgerInv
  <1>3. CASE id \in DOMAIN intents
    <2> DEFINE t == intents[id].token
    <2>1. t \in Tokens /\ t \in Running
      BY <1>3, TokensUnique, RunningMeans
    <2>2. view' = Post(t, Ledger!Waiting(t), "answered")
      BY <1>3, WaitingSubscribed DEF SendResult
    <2>3. \A u \in Tokens, c \in Callers :
             view'[u][c] = IF u = t /\ c \in Ledger!Waiting(t) THEN "answered" ELSE view[u][c]
      BY <2>1, <2>2, Posted
    <2>4. \A c \in Callers : c \in Ledger!Waiting(t) <=> view[t][c] \in {"open", "answered"}
      BY DEF Ledger!Waiting
    <2>5. Ledger!Tell(t, Ledger!Waiting(t), "answered")
      BY <2>2, PostTells
    <2> HIDE DEF t
    <2>6. SubscribersWait'
      BY <1>1, <2>3, <2>4, WaitsKept, TokensUnique DEF LedgerInv
    <2>7. Ledger!Answer(t)
      BY <1>2, <2>1, <2>5 DEF Ledger!Answer
    <2> QED
      BY <1>2, <2>1, <2>6, <2>7 DEF LedgerInv, Ledger!Next
  <1>4. CASE id \notin DOMAIN intents
    <2>1. view' = view
      BY <1>4 DEF SendResult
    <2> QED
      BY <1>1, <1>2, <2>1 DEF LedgerInv, SubscribersWait, Ledger!vars
  <1> QED
    BY <1>3, <1>4

\* subscribeResult lets its caller wait for a running intent.
LEMMA LedgerSubscribe ==
    ASSUME Known, NEW c \in Callers, NEW id \in Ids, SubscribeResult(c, id)
    PROVE  LedgerInv' /\ Ledger!Next
  <1> USE DEF Known
  <1> DEFINE t == intents[id].token
  <1>1. /\ id \in DOMAIN intents /\ launches' = launches /\ hasLeft' = hasLeft
        /\ view' = Post(t, {c}, "open")
        /\ intents' = [intents EXCEPT ![id] =
             [intents[id] EXCEPT !.subscribers = intents[id].subscribers \cup {c}]]
    BY DEF SubscribeResult
  <1>2. SameLaunches /\ Shrinks
    BY FrameSubscribe
  <1>3. /\ DOMAIN intents' = DOMAIN intents
        /\ \A k \in DOMAIN intents :
              /\ intents'[k].token = intents[k].token
              /\ intents'[k].subscribers =
                    IF k = id THEN intents[k].subscribers \cup {c} ELSE intents[k].subscribers
    <2>1. \A k \in DOMAIN intents : intents[k] \in IntentRec
      BY DEF TypeOK
    <2> QED
      BY <1>1, <2>1 DEF IntentRec
  <1>4. t \in Tokens /\ t \in Running
    BY <1>1, TokensUnique, RunningMeans
  <1>5. \A u \in Tokens, d \in Callers :
           view'[u][d] = IF u = t /\ d \in {c} THEN "open" ELSE view[u][d]
    BY <1>1, <1>4, Posted
  <1>6. \A k \in DOMAIN intents : intents[k].token \in Tokens /\ (intents[k].token = t <=> k = id)
    BY <1>1, TokensUnique
  <1>7. Ledger!Tell(t, {c}, "open")
    BY <1>1, PostTells
  <1>8. /\ Owners' = Owners /\ Running' = Running /\ NamesLeft' = NamesLeft /\ ChosenIds'
    BY <1>1, <1>2, <1>3, OwnersKept, ChosenKept, RunningKept DEF NamesLeft, LedgerInv
  <1> HIDE DEF t
  <1>9. SubscribersWait'
    <2>1. ASSUME NEW k \in DOMAIN intents', NEW d \in Callers, k = id, d = c
          PROVE  /\ d \in intents'[k].subscribers
                 /\ view'[intents[k].token][d] \in {"open", "answered"}
      <3>1. k \in DOMAIN intents /\ d \in intents'[k].subscribers /\ d \in {c}
        BY <1>3, <2>1
      <3>2. intents[k].token = t /\ t \in Tokens
        BY <1>6, <2>1, <3>1
      <3>3. view'[t][d] = "open"
        BY <1>5, <3>1, <3>2
      <3> QED
        BY <3>1, <3>2, <3>3
    <2>2. ASSUME NEW k \in DOMAIN intents', NEW d \in Callers, ~(k = id /\ d = c)
          PROVE  /\ d \in intents'[k].subscribers <=> d \in intents[k].subscribers
                 /\ view'[intents[k].token][d] = view[intents[k].token][d]
      BY <1>3, <1>5, <1>6, <2>2
    <2> QED
      BY <1>2, <2>1, <2>2, WaitsKept DEF LedgerInv
  <1>10. Ledger!Subscribe(c, t)
    BY <1>4, <1>7, <1>8 DEF Ledger!Subscribe
  <1> QED
    BY <1>4, <1>8, <1>9, <1>10 DEF LedgerInv, Ledger!Next

\* A launch that fails ends its intent; other replies change nothing.
LEMMA LedgerOnLaunch ==
    ASSUME Known, NEW t \in Tokens, NEW returnValue \in BOOLEAN, OnLaunch(t, returnValue)
    PROVE  LedgerInv' /\ (Ledger!Next \/ UNCHANGED Ledger!vars)
  <1> USE DEF Known
  <1>1. SameLaunches /\ Shrinks /\ hasLeft' = hasLeft
    BY FrameOnLaunch DEF OnLaunch
  <1>2. Owners' = Owners /\ NamesLeft' = NamesLeft /\ ChosenIds'
    BY <1>1, OwnersKept, ChosenKept DEF NamesLeft, LedgerInv
  <1>3. CASE returnValue \/ GetByToken(t) = {}
    <2>1. view' = view /\ intents' = intents
      BY <1>3 DEF OnLaunch
    <2> QED
      BY <1>2, <2>1 DEF LedgerInv, SubscribersWait, Running, Ledger!vars
  <1>4. CASE ~(returnValue \/ GetByToken(t) = {})
    <2>1. PICK j \in GetByToken(t) :
              /\ view' = Post(t, intents[j].subscribers, "failed")
              /\ intents' = RemoveById(intents[j].intentId)
      BY <1>4 DEF OnLaunch
    <2>2. j \in DOMAIN intents /\ intents[j].token = t
      BY <2>1 DEF GetByToken
    <2>3. intents[j].intentId = j
      BY <2>2 DEF TypeOK
    <2> DEFINE K == {j}
    <2>4. intents' = Erase(intents, K)
      BY <2>1, <2>3 DEF RemoveById
    <2>5. /\ DOMAIN Erase(intents, K) = DOMAIN intents \ K
          /\ \A x \in DOMAIN intents \ K : Erase(intents, K)[x] = intents[x]
      BY EraseIsMap
    <2>6. \A x : x \in K <=> x = j
      OBVIOUS
    <2> HIDE DEF K
    <2>7. \A k \in DOMAIN intents : intents[k].token \in Tokens /\ (intents[k].token = t <=> k = j)
      BY <2>2, TokensUnique
    <2>8. \A u \in Tokens, c \in Callers :
             view'[u][c] = IF u = t /\ c \in intents[j].subscribers
                           THEN "failed" ELSE view[u][c]
      BY <2>1, Posted
    <2>9. SubscribersWait'
      BY <1>1, <2>4, <2>5, <2>6, <2>7, <2>8, WaitsKept DEF LedgerInv
    <2>10. Running' = Running \ {t}
      <3>1. \A u : u \in Running' <=> u \in Running /\ u # t
        BY <2>4, <2>5, <2>6, <2>7, RunningMeans, RunningNextMeans
      <3> QED
        BY <3>1
    <2>11. Ledger!Tell(t, Ledger!Waiting(t), "failed")
      BY <2>1, <2>2, WaitingSubscribed, PostTells
    <2>12. t \in Running
      BY <2>2, RunningMeans
    <2>13. Ledger!Fail(t)
      BY <1>2, <2>10, <2>11, <2>12 DEF Ledger!Fail
    <2> QED
      BY <1>2, <2>9, <2>13 DEF LedgerInv, Ledger!Next
  <1> QED
    BY <1>3, <1>4

\* A departure that reaches the service ends the intents of a name that left.
LEMMA LedgerStatus ==
    ASSUME Known, NEW t \in Tokens, NEW hit \in Hits, OnServerStatusChanged(t, hit)
    PROVE  LedgerInv' /\ (Ledger!Next \/ UNCHANGED Ledger!vars)
  <1> USE DEF Known
  <1>1. SameLaunches /\ Shrinks /\ hasLeft' = hasLeft /\ view' = view
    BY FrameStatus DEF OnServerStatusChanged
  <1>2. Owners' = Owners /\ NamesLeft' = NamesLeft /\ ChosenIds'
    BY <1>1, OwnersKept, ChosenKept DEF NamesLeft, LedgerInv
  <1>3. t \in DOMAIN statusCalls /\ statusCalls[t] # <<>>
    BY DEF OnServerStatusChanged
  <1>4. CASE Head(statusCalls[t])
    <2>1. intents' = intents
      BY <1>4 DEF OnServerStatusChanged
    <2> QED
      BY <1>1, <1>2, <2>1 DEF LedgerInv, SubscribersWait, Running, Ledger!vars
  <1>5. CASE ~Head(statusCalls[t])
    <2> DEFINE name == launches[t].caller.name
               K == OwnedBy(name)
    <2>1. intents' = Erase(intents, K)
      BY <1>5 DEF OnServerStatusChanged, RemoveByOwner
    <2>2. /\ DOMAIN Erase(intents, K) = DOMAIN intents \ K
          /\ \A x \in DOMAIN intents \ K : Erase(intents, K)[x] = intents[x]
      BY EraseIsMap
    <2>3. \A k \in DOMAIN intents : k \in K <=> intents[k].owner = name
      BY DEF OwnedBy
    <2>4. \A k \in DOMAIN intents :
             /\ intents[k].token \in DOMAIN launches
             /\ intents[k].owner = launches[intents[k].token].caller.name
             /\ intents[k].token \in Tokens
      BY TokensUnique DEF RegistryInv, Filed
    <2>5. launches[t].caller \in hasLeft /\ launches[t].caller \in Callers
      <3>1. statusCalls[t] \in Seq(BOOLEAN) /\ t \in DOMAIN launches
        BY <1>3 DEF TypeOK
      <3>2. /\ 1 \in 1..Len(statusCalls[t])
            /\ statusCalls[t][1] \in BOOLEAN /\ statusCalls[t][1] = Head(statusCalls[t])
        BY <1>3, <3>1
      <3>4. statusCalls[t][1] = FALSE
        BY <1>5, <3>2
      <3>3. launches[t] \in LaunchRec
        BY <3>1 DEF TypeOK
      <3> QED
        BY <1>3, <3>2, <3>3, <3>4 DEF StatusInv, DeparturesHappened, LaunchRec
    <2>6. name \in NamesLeft
      BY <2>5 DEF NamesLeft
    <2> HIDE DEF name, K
    <2>7. SubscribersWait'
      BY <1>1, <2>1, <2>2, WaitsKept DEF LedgerInv
    <2>8. Running' = {u \in Running : Owners[u] # name}
      <3>1. \A k \in DOMAIN intents : Owners[intents[k].token] = intents[k].owner
        BY <2>4 DEF Owners
      <3>2. \A u : u \in Running' <=> u \in Running /\ Owners[u] # name
        <4>1. \A u : u \in Running' =>
                 \E k \in DOMAIN intents : intents[k].token = u /\ k \notin K
          BY <2>1, <2>2, RunningNextMeans
        <4>2. \A k \in DOMAIN intents : k \notin K => intents[k].token \in Running'
          BY <2>1, <2>2, RunningNextMeans
        <4> QED
          BY <2>3, <3>1, <4>1, <4>2, RunningMeans
      <3> QED
        BY <3>2
    <2>9. Ledger!Collect(name)
      BY <1>1, <1>2, <2>6, <2>8 DEF Ledger!Collect
    <2>10. \E c \in Callers : Ledger!Collect(c.name)
      BY <2>5, <2>9 DEF name
    <2> QED
      BY <1>2, <2>7, <2>10 DEF LedgerInv, Ledger!Next
  <1> QED
    BY <1>4, <1>5

\* A dropped subscription is one in the ledger.
LEMMA LedgerUnsubscribe ==
    ASSUME Known, NEW c \in Callers, NEW t \in Tokens, CancelSubscription(c, t)
    PROVE  LedgerInv' /\ Ledger!Next
  <1> USE DEF Known
  <1>1. /\ view[t][c] # "none" /\ view' = Post(t, {c}, "none")
        /\ intents' = WithoutSubscriber({t}, c)
        /\ launches' = launches /\ hasLeft' = hasLeft
    BY DEF CancelSubscription
  <1>2. /\ DOMAIN intents' = DOMAIN intents
        /\ \A k \in DOMAIN intents :
              /\ intents'[k].token = intents[k].token
              /\ intents'[k].owner = intents[k].owner
              /\ intents'[k].subscribers =
                    IF intents[k].token \in {t} THEN intents[k].subscribers \ {c}
                                                ELSE intents[k].subscribers
    BY <1>1, Without
  <1>3. SameLaunches /\ Shrinks
    BY <1>1, <1>2 DEF SameLaunches, Shrinks
  <1>4. /\ Owners' = Owners /\ Running' = Running /\ NamesLeft' = NamesLeft /\ ChosenIds'
    BY <1>1, <1>2, <1>3, OwnersKept, ChosenKept, RunningKept DEF NamesLeft, LedgerInv
  <1>5. \A u \in Tokens, d \in Callers :
           view'[u][d] = IF u = t /\ d \in {c} THEN "none" ELSE view[u][d]
    BY <1>1, Posted
  <1>6. SubscribersWait'
    <2>1. ASSUME NEW k \in DOMAIN intents', NEW d \in Callers,
                 intents[k].token = t, d = c
          PROVE  /\ d \notin intents'[k].subscribers
                 /\ view'[intents[k].token][d] \notin {"open", "answered"}
      BY <1>2, <1>5, <2>1
    <2>2. ASSUME NEW k \in DOMAIN intents', NEW d \in Callers,
                 ~(intents[k].token = t /\ d = c)
          PROVE  /\ d \in intents'[k].subscribers <=> d \in intents[k].subscribers
                 /\ view'[intents[k].token][d] = view[intents[k].token][d]
      BY <1>2, <1>5, <2>2, TokensUnique
    <2> QED
      BY <1>3, <2>1, <2>2, WaitsKept DEF LedgerInv
  <1>7. Ledger!Tell(t, {c}, "none")
    BY <1>1, PostTells
  <1>8. Ledger!Unsubscribe(c, t)
    BY <1>1, <1>4, <1>7 DEF Ledger!Unsubscribe
  <1> QED
    BY <1>4, <1>6, <1>8 DEF LedgerInv, Ledger!Next

\* A client that leaves the bus hears no more and waits no more.
LEMMA LedgerLeave ==
    ASSUME Known, NEW c \in Callers, Leave(c)
    PROVE  LedgerInv' /\ Ledger!Next
  <1> USE DEF Known
  <1>1. /\ view' = [t \in Tokens |-> [view[t] EXCEPT ![c] = "none"]]
        /\ intents' = WithoutSubscriber(Tokens, c)
        /\ launches' = launches /\ hasLeft' = hasLeft \cup {c}
    BY DEF Leave
  <1>2. /\ DOMAIN intents' = DOMAIN intents
        /\ \A k \in DOMAIN intents :
              /\ intents'[k].token = intents[k].token
              /\ intents'[k].owner = intents[k].owner
              /\ intents'[k].subscribers =
                    IF intents[k].token \in Tokens THEN intents[k].subscribers \ {c}
                                                   ELSE intents[k].subscribers
    BY <1>1, Without
  <1>3. SameLaunches /\ Shrinks
    BY <1>1, <1>2 DEF SameLaunches, Shrinks
  <1>4. /\ Owners' = Owners /\ Running' = Running /\ ChosenIds'
    BY <1>1, <1>2, <1>3, OwnersKept, ChosenKept, RunningKept DEF LedgerInv
  <1>5. NamesLeft' = NamesLeft \cup {c.name}
    BY <1>1 DEF NamesLeft
  <1>6. \A u \in Tokens, d \in Callers :
           view'[u][d] = IF d = c THEN "none" ELSE view[u][d]
    <2>1. \A u \in Tokens : view[u] \in [Callers -> Views]
      BY DEF TypeOK
    <2> QED
      BY <1>1, <2>1
  <1>7. SubscribersWait'
    <2>1. ASSUME NEW k \in DOMAIN intents', NEW d \in Callers, d = c
          PROVE  /\ d \notin intents'[k].subscribers
                 /\ view'[intents[k].token][d] \notin {"open", "answered"}
      BY <1>2, <1>6, <2>1, TokensUnique
    <2>2. ASSUME NEW k \in DOMAIN intents', NEW d \in Callers, d # c
          PROVE  /\ d \in intents'[k].subscribers <=> d \in intents[k].subscribers
                 /\ view'[intents[k].token][d] = view[intents[k].token][d]
      BY <1>2, <1>6, <2>2, TokensUnique
    <2> QED
      BY <1>3, <2>1, <2>2, WaitsKept DEF LedgerInv
  <1>8. Ledger!Leave(c)
    BY <1>1, <1>4, <1>5 DEF Ledger!Leave
  <1> QED
    BY <1>4, <1>7, <1>8 DEF LedgerInv, Ledger!Next

\* A restart ends everything that runs and keeps what was told to nobody.
LEMMA LedgerRestart ==
    ASSUME Known, Restart
    PROVE  LedgerInv' /\ Ledger!Next
  <1> USE DEF Known
  <1>1. /\ DOMAIN intents' = {} /\ launches' = launches /\ hasLeft' = {}
        /\ view' = [t \in Tokens |-> [c \in Callers |-> "none"]]
    BY DEF Restart, Forget
  <1>2. SubscribersWait' /\ ChosenIds'
    BY <1>1 DEF LedgerInv, SubscribersWait, ChosenIds
  <1>3. Running' = {} /\ NamesLeft' = {} /\ Owners' = Owners
    BY <1>1 DEF Running, NamesLeft, Owners
  <1>4. Ledger!Restart
    BY <1>1, <1>3 DEF Ledger!Restart, Ledger!Silence
  <1> QED
    BY <1>2, <1>4 DEF LedgerInv, Ledger!Next

\* What touches neither intents, launches, views nor departures is invisible.
LEMMA LedgerQuiet ==
    ASSUME LedgerInv, UNCHANGED <<intents, launches, view, hasLeft>>
    PROVE  LedgerInv' /\ UNCHANGED Ledger!vars
  BY DEF LedgerInv, SubscribersWait, ChosenIds, Owners, Running, NamesLeft, Ledger!vars

\* Every step is a step of the ledger or none.
LEMMA LedgerNext ==
    ASSUME Known, [Next]_vars
    PROVE  LedgerInv' /\ [Ledger!Next]_Ledger!vars
  <1>1. CASE AnyStart
    BY <1>1, LedgerStart
  <1>2. CASE \E id \in Ids : SendResult(id)
    BY <1>2, LedgerAnswer
  <1>3. CASE \E c \in Callers, id \in Ids : SubscribeResult(c, id)
    BY <1>3, LedgerSubscribe
  <1>4. CASE \E t \in Tokens, returnValue \in BOOLEAN : OnLaunch(t, returnValue)
    BY <1>4, LedgerOnLaunch
  <1>5. CASE \E t \in Tokens, hit \in Hits : OnServerStatusChanged(t, hit)
    BY <1>5, LedgerStatus
  <1>6. CASE \E c \in Callers, t \in Tokens : CancelSubscription(c, t)
    BY <1>6, LedgerUnsubscribe
  <1>7. CASE \E c \in Callers : Leave(c)
    BY <1>7, LedgerLeave
  <1>8. CASE Restart
    BY <1>8, LedgerRestart
  <1>9. CASE \/ Query \/ StartRejected \/ DirectoryChange \/ UNCHANGED vars
             \/ \E c \in Callers : Join(c)
    <2>1. UNCHANGED <<intents, launches, view, hasLeft>>
      BY <1>9 DEF Query, StartRejected, DirectoryChange, Join, vars
    <2> QED
      BY <2>1, LedgerQuiet DEF Known
  <1> QED
    BY <1>1, <1>2, <1>3, <1>4, <1>5, <1>6, <1>7, <1>8, <1>9 DEF Next, SubscribeRejected

\* The service starts with an empty ledger.
LEMMA LedgerInit == Init => Ledger!Init /\ LedgerInv /\ FailureIsTheEnd
  <1> SUFFICES ASSUME Init PROVE Ledger!Init /\ LedgerInv /\ FailureIsTheEnd
    OBVIOUS
  <1>1. /\ launches = <<>> /\ DOMAIN intents = {} /\ hasLeft = {} /\ DOMAIN launches = {}
        /\ view = [t \in Tokens |-> [c \in Callers |-> "none"]]
    BY DEF Init
  <1>2. Owners = <<>> /\ Running = {} /\ NamesLeft = {}
    BY <1>1 DEF Owners, Running, NamesLeft
  <1> QED
    BY <1>1, <1>2 DEF Ledger!Init, Ledger!Silence, LedgerInv, SubscribersWait,
                      ChosenIds, FailureIsTheEnd

\* Callers and service agree on who waits for which result, in every reachable state.
THEOREM SubscribersAgree == Spec => [](FailureIsTheEnd /\ LedgerInv)
  <1>1. TypeOK /\ RegistryInv /\ FailureIsTheEnd /\ [Next]_vars => FailureIsTheEnd'
    BY VerdictNext
  <1>2. TypeOK /\ RegistryInv /\ StatusInv /\ FailureIsTheEnd /\ LedgerInv /\ [Next]_vars
        => LedgerInv'
    BY LedgerNext DEF Known
  <1> QED
    BY <1>1, <1>2, LedgerInit, TypeCorrect, RegistryCorrect, StatusCorrect, PTL DEF Spec

\* The luna API is the ledger: what clients observe of the registry, the launch calls
\* and the status calls is what IntentLedger allows.
THEOREM LedgerImplemented == Spec => ImplementsLedger
  <1>1. TypeOK /\ RegistryInv /\ StatusInv /\ FailureIsTheEnd /\ LedgerInv /\ [Next]_vars
        => [Ledger!Next]_Ledger!vars
    BY LedgerNext DEF Known
  <1> QED
    BY <1>1, LedgerInit, SubscribersAgree, TypeCorrect, RegistryCorrect, StatusCorrect,
       PTL DEF Spec, ImplementsLedger, Ledger!Spec

-----------------------------------------------------------------------------
\* The intent of a failed launch is not registered.
FailedGone == \A k \in DOMAIN intents : launches[intents[k].token].reply # "failed"

\* Who waits, waits for an intent of this process, and does so past the failure of its
\* launch only if the intent was lost before.
WaitsForOutcome ==
    \A t \in Tokens, c \in Callers : view[t][c] \in {"open", "answered"} =>
        /\ Current(t)
        /\ launches[t].reply = "failed" => Displaced(t) \/ NamesakeLeft(t)

OutcomeInv == FailedGone /\ WaitsForOutcome

\* Within a process a cause stays a cause.
LEMMA CausesStay ==
    ASSUME SameLaunches, Onward, NEW t \in DOMAIN launches, Displaced(t) \/ NamesakeLeft(t)
    PROVE  (Displaced(t) \/ NamesakeLeft(t))'
  <1>1. CASE Displaced(t)
    <2>1. PICK u \in DOMAIN launches : /\ u > t /\ launches[u].epoch = epoch
                                       /\ launches[u].id = launches[t].id
      BY <1>1 DEF Displaced
    <2>2. /\ u \in DOMAIN launches' /\ launches'[u].epoch = epoch'
          /\ launches'[u].id = launches'[t].id
      BY <2>1 DEF SameLaunches, Onward
    <2> QED
      BY <2>1, <2>2 DEF Displaced
  <1>2. CASE NamesakeLeft(t)
    BY <1>2 DEF SameLaunches, Onward, NamesakeLeft
  <1> QED
    BY <1>1, <1>2

\* Within a process, steps by which no launch fails and that let nobody wait for
\* anything but registered intents.
LEMMA OutcomeKept ==
    ASSUME TypeOK, RegistryInv, OutcomeInv, SameLaunches, Shrinks, Onward,
           \A t \in DOMAIN launches :
              launches'[t].reply = "failed" => launches[t].reply = "failed",
           \A t \in Tokens, c \in Callers : view'[t][c] \in {"open", "answered"} =>
              view[t][c] \in {"open", "answered"} \/ Registered(t)
    PROVE  OutcomeInv'
  <1>1. \A k \in DOMAIN intents : /\ intents[k].token \in DOMAIN launches
                                  /\ Current(intents[k].token)
    BY DEF RegistryInv, Filed, Current
  <1>2. FailedGone'
    BY <1>1 DEF OutcomeInv, FailedGone, Shrinks
  <1>3. \A t \in Tokens : Registered(t) => Current(t) /\ launches[t].reply # "failed"
    BY <1>1 DEF OutcomeInv, FailedGone, Registered
  <1>4. ASSUME NEW t \in Tokens, NEW c \in Callers, view'[t][c] \in {"open", "answered"}
        PROVE  /\ Current(t)'
               /\ launches'[t].reply = "failed" => (Displaced(t) \/ NamesakeLeft(t))'
    <2>1. /\ Current(t)
          /\ launches[t].reply = "failed" => Displaced(t) \/ NamesakeLeft(t)
      BY <1>3, <1>4 DEF OutcomeInv, WaitsForOutcome
    <2>2. t \in DOMAIN launches /\ Current(t)'
      BY <2>1 DEF Current, SameLaunches, Onward
    <2> QED
      BY <2>1, <2>2, CausesStay
  <1> QED
    BY <1>2, <1>4 DEF OutcomeInv, WaitsForOutcome

\* A start begins a launch that has not failed and changes no other.
LEMMA OutcomeStart ==
    ASSUME Known, OutcomeInv, AnyStart
    PROVE  OutcomeInv'
  <1> USE DEF Known
  <1>1. PICK r \in LaunchRec, i \in IntentRec : StartEffect(r, i)
    BY StartMakes
  <1> DEFINE n == NewToken
  <1>2. /\ DOMAIN launches' = DOMAIN launches \cup {n}
        /\ n \in Tokens /\ n \notin DOMAIN launches
        /\ \A u \in DOMAIN launches : launches'[u] = launches[u]
        /\ launches'[n] = r
        /\ DOMAIN intents' = DOMAIN intents \cup {r.id}
        /\ intents'[r.id] = i
        /\ \A x \in DOMAIN intents : x # r.id => intents'[x] = intents[x]
    BY <1>1, StartMaps
  <1>3. /\ i.token = n /\ r.epoch = epoch /\ epoch' = epoch /\ hasLeft' = hasLeft
        /\ view' = Post(n, i.subscribers, "open") /\ r.reply = "pending"
    BY <1>1 DEF StartEffect
  <1>4. \A u \in Tokens, c \in Callers : u # n => view'[u][c] = view[u][c]
    BY <1>2, <1>3, Posted
  <1>5. \A k \in DOMAIN intents : intents[k].token \in DOMAIN launches
    BY DEF RegistryInv, Filed
  <1> HIDE DEF n
  <1>6. FailedGone'
    BY <1>2, <1>3, <1>5 DEF OutcomeInv, FailedGone
  <1>7. ASSUME NEW t \in Tokens, NEW c \in Callers, view'[t][c] \in {"open", "answered"}
        PROVE  /\ Current(t)'
               /\ launches'[t].reply = "failed" => (Displaced(t) \/ NamesakeLeft(t))'
    <2>1. CASE t = n
      BY <1>2, <1>3, <2>1 DEF Current
    <2>2. CASE t # n
      <3>1. /\ Current(t)
            /\ launches[t].reply = "failed" => Displaced(t) \/ NamesakeLeft(t)
        BY <1>4, <1>7, <2>2 DEF OutcomeInv, WaitsForOutcome
      <3>2. t \in DOMAIN launches /\ launches'[t] = launches[t] /\ Current(t)'
        BY <1>2, <1>3, <3>1 DEF Current
      <3>3. Displaced(t) => Displaced(t)'
        <4> SUFFICES ASSUME Displaced(t) PROVE Displaced(t)'
          OBVIOUS
        <4>1. PICK u \in DOMAIN launches : /\ u > t /\ launches[u].epoch = epoch
                                           /\ launches[u].id = launches[t].id
          BY DEF Displaced
        <4>2. u \in DOMAIN launches' /\ launches'[u] = launches[u]
          BY <1>2
        <4> QED
          BY <1>3, <3>2, <4>1, <4>2 DEF Displaced
      <3>4. NamesakeLeft(t) => NamesakeLeft(t)'
        BY <1>3, <3>2 DEF NamesakeLeft
      <3> QED
        BY <3>1, <3>2, <3>3, <3>4
    <2> QED
      BY <2>1, <2>2
  <1> QED
    BY <1>6, <1>7 DEF OutcomeInv, WaitsForOutcome

\* Who waits for the launch that fails is told, unless the intent was lost before.
LEMMA OutcomeOnLaunch ==
    ASSUME Known, OutcomeInv, IntentsEndForACause,
           NEW t \in Tokens, NEW returnValue \in BOOLEAN, OnLaunch(t, returnValue)
    PROVE  OutcomeInv'
  <1> USE DEF Known
  <1>1. SameLaunches /\ Shrinks
    BY FrameOnLaunch
  <1>2. Onward
    <2>1. s_counter \in Int /\ UNCHANGED <<s_counter, hasLeft, epoch>>
      BY BoundsAssumption DEF TypeOK, OnLaunch
    <2> QED
      BY <2>1 DEF Onward
  <1>3. /\ t \in DOMAIN launches
        /\ launches[t].reply = "pending"
        /\ launches'[t].reply = IF returnValue THEN "ok" ELSE "failed"
        /\ \A u \in DOMAIN launches : u # t => launches'[u] = launches[u]
    BY FailureEnds
  <1>4. CASE returnValue
    <2>1. view' = view
      BY <1>4 DEF OnLaunch
    <2> QED
      BY <1>1, <1>2, <1>3, <1>4, <2>1, OutcomeKept
  <1>5. CASE ~returnValue
    <2>1. /\ \A k \in DOMAIN intents' : intents'[k].token # t
          /\ \A u \in Tokens, c \in Callers : view'[u][c] \in {"open", "answered"} =>
                /\ view[u][c] \in {"open", "answered"}
                /\ u = t => ~Registered(t)
      <3>1. CASE GetByToken(t) = {}
        <4>1. view' = view /\ intents' = intents
          BY <3>1 DEF OnLaunch
        <4>2. ASSUME NEW k \in DOMAIN intents, intents[k].token = t
              PROVE  FALSE
          <5>1. k \in Int
            <6>1. k \in Ids
              BY DEF TypeOK
            <6>2. CASE k \in ClientIds
              BY <6>2, ClientIdsAssumption
            <6>3. CASE k \in 1..MaxIds
              BY <6>3, BoundsAssumption
            <6> QED
              BY <6>1, <6>2, <6>3 DEF Ids
          <5>2. \A j \in DOMAIN intents : intents[j].token = t => k <= j
            BY <4>2, <5>1, TokensUnique
          <5> QED
            BY <3>1, <4>2, <5>2 DEF GetByToken
        <4> QED
          BY <4>1, <4>2 DEF Registered
      <3>2. CASE GetByToken(t) # {}
        <4>1. PICK j \in GetByToken(t) :
                  /\ view' = Post(t, intents[j].subscribers, "failed")
                  /\ intents' = RemoveById(intents[j].intentId)
          BY <1>5, <3>2 DEF OnLaunch
        <4>2. j \in DOMAIN intents /\ intents[j].token = t
          BY <4>1 DEF GetByToken
        <4>3. intents[j].intentId = j
          BY <4>2 DEF TypeOK
        <4> DEFINE K == {j}
        <4>4. intents' = Erase(intents, K)
          BY <4>1, <4>3 DEF RemoveById
        <4>5. DOMAIN Erase(intents, K) = DOMAIN intents \ K
          BY EraseIsMap
        <4>6. \A x : x \in K <=> x = j
          OBVIOUS
        <4> HIDE DEF K
        <4>7. \A k \in DOMAIN intents : intents[k].token = t <=> k = j
          BY <4>2, TokensUnique
        <4>8. \A u \in Tokens, c \in Callers :
                 view'[u][c] = IF u = t /\ c \in intents[j].subscribers
                               THEN "failed" ELSE view[u][c]
          BY <4>1, Posted
        <4>9. \A c \in Callers : view[t][c] \in {"open", "answered"}
                                    => c \in intents[j].subscribers
          BY <4>2 DEF LedgerInv, SubscribersWait
        <4>10. \A k \in DOMAIN intents' : intents'[k].token # t
          BY <1>1, <4>4, <4>5, <4>6, <4>7 DEF Shrinks
        <4> QED
          BY <4>8, <4>9, <4>10
      <3> QED
        BY <3>1, <3>2
    <2>2. FailedGone'
      <3> SUFFICES ASSUME NEW k \in DOMAIN intents'
                   PROVE  launches'[intents'[k].token].reply # "failed"
        BY DEF FailedGone
      <3>1. /\ k \in DOMAIN intents /\ intents'[k].token = intents[k].token
            /\ intents[k].token # t
        BY <1>1, <2>1 DEF Shrinks
      <3>2. intents[k].token \in DOMAIN launches
        BY <3>1 DEF RegistryInv, Filed
      <3> QED
        BY <1>3, <3>1, <3>2 DEF OutcomeInv, FailedGone
    <2>3. ASSUME NEW u \in Tokens, NEW c \in Callers, view'[u][c] \in {"open", "answered"}
          PROVE  /\ Current(u)'
                 /\ launches'[u].reply = "failed" => (Displaced(u) \/ NamesakeLeft(u))'
      <3>1. /\ Current(u)
            /\ launches[u].reply = "failed" => Displaced(u) \/ NamesakeLeft(u)
            /\ u = t => ~Registered(t)
        BY <2>1, <2>3 DEF OutcomeInv, WaitsForOutcome
      <3>2. u \in DOMAIN launches /\ Current(u)'
        BY <1>1, <1>2, <3>1 DEF Current, SameLaunches, Onward
      <3>3. u = t => Displaced(u) \/ NamesakeLeft(u)
        BY <1>3, <3>1 DEF IntentsEndForACause
      <3>4. launches'[u].reply = "failed" => Displaced(u) \/ NamesakeLeft(u)
        BY <1>3, <3>1, <3>2, <3>3
      <3> QED
        BY <1>1, <1>2, <3>2, <3>4, CausesStay
    <2> QED
      BY <2>2, <2>3 DEF OutcomeInv, WaitsForOutcome
  <1> QED
    BY <1>4, <1>5

\* Other replies, requests and departures fail no launch and open only registered
\* intents.
LEMMA OutcomeQuiet ==
    ASSUME Known, OutcomeInv, SameLaunches, Shrinks, Onward, launches' = launches,
           \/ view' = view
           \/ \E id \in DOMAIN intents, to \in SUBSET Callers, what \in Views :
                 view' = Post(intents[id].token, to, what)
           \/ \A t \in Tokens, c \in Callers :
                 view'[t][c] = view[t][c] \/ view'[t][c] = "none"
    PROVE  OutcomeInv'
  <1> USE DEF Known
  <1>1. ASSUME NEW id \in DOMAIN intents, NEW to, NEW what,
               view' = Post(intents[id].token, to, what)
        PROVE  \A t \in Tokens, c \in Callers : view'[t][c] \in {"open", "answered"} =>
                  view[t][c] \in {"open", "answered"} \/ Registered(t)
    <2> DEFINE t == intents[id].token
    <2>1. t \in Tokens /\ Registered(t)
      BY TokensUnique DEF Registered
    <2>2. \A u \in Tokens, c \in Callers :
             view'[u][c] = IF u = t /\ c \in to THEN what ELSE view[u][c]
      BY <1>1, <2>1, Posted
    <2> HIDE DEF t
    <2> QED
      BY <2>1, <2>2
  <1> QED
    BY <1>1, OutcomeKept

\* No step leaves anybody waiting past a failure without a cause.
LEMMA OutcomeNext ==
    ASSUME Known, OutcomeInv, IntentsEndForACause, [Next]_vars
    PROVE  OutcomeInv'
  <1> USE DEF Known
  <1>1. CASE AnyStart
    BY <1>1, OutcomeStart
  <1>2. CASE Restart
    <2>1. /\ \A t \in Tokens, c \in Callers : view'[t][c] = "none"
          /\ DOMAIN intents' = {}
      BY <1>2 DEF Restart, Forget
    <2> QED
      BY <2>1 DEF OutcomeInv, FailedGone, WaitsForOutcome
  <1>3. CASE \E t \in Tokens, returnValue \in BOOLEAN : OnLaunch(t, returnValue)
    BY <1>3, OutcomeOnLaunch
  <1>4. ASSUME ~AnyStart, ~Restart PROVE SameLaunches /\ Shrinks /\ Onward
    BY <1>4, Frame, RunsOnward
  <1>5. ASSUME NEW t \in Tokens, NEW hit \in Hits, OnServerStatusChanged(t, hit)
        PROVE  OutcomeInv'
    <2>1. \A u \in DOMAIN launches :
             launches'[u].reply = "failed" => launches[u].reply = "failed"
      <3>1. CASE Head(statusCalls[t])
        BY <1>5, <3>1 DEF OnServerStatusChanged
      <3>2. CASE ~Head(statusCalls[t])
        <4>1. launches' = [u \in DOMAIN launches |->
                             IF <<"launch", u>> \in hit
                             THEN [launches[u] EXCEPT !.reply = "cancelled"]
                             ELSE launches[u]]
          BY <1>5, <3>2 DEF OnServerStatusChanged, LSCallCancel
        <4>2. \A u \in DOMAIN launches : launches[u] \in LaunchRec
          BY DEF TypeOK
        <4> QED
          BY <4>1, <4>2 DEF LaunchRec
      <3> QED
        BY <3>1, <3>2
    <2>2. view' = view
      BY <1>5 DEF OnServerStatusChanged
    <2>3. SameLaunches /\ Shrinks
      BY <1>5, FrameStatus
    <2>4. Onward
      <3>1. UNCHANGED <<s_counter, hasLeft, epoch>>
        BY <1>5 DEF OnServerStatusChanged
      <3>2. s_counter \in Int
        BY BoundsAssumption DEF TypeOK
      <3> QED
        BY <3>1, <3>2 DEF Onward
    <2> QED
      BY <2>1, <2>2, <2>3, <2>4, OutcomeKept
  <1>6. CASE \/ Query \/ StartRejected \/ DirectoryChange \/ UNCHANGED vars
             \/ \E c \in Callers : Join(c)
    <2>1. launches' = launches /\ view' = view
      BY <1>6 DEF Query, StartRejected, DirectoryChange, vars, Join
    <2> QED
      BY <1>1, <1>2, <1>4, <2>1, OutcomeQuiet
  <1>7. ASSUME NEW id \in Ids, SendResult(id)
        PROVE  OutcomeInv'
    <2>1. /\ launches' = launches
          /\ view' = IF id \in DOMAIN intents
                     THEN Post(intents[id].token, intents[id].subscribers, "answered")
                     ELSE view
      BY <1>7 DEF SendResult
    <2>2. \A k \in DOMAIN intents : intents[k].subscribers \in SUBSET Callers
      BY DEF TypeOK, IntentRec
    <2>3. "answered" \in Views
      BY DEF Views
    <2> QED
      BY <1>1, <1>2, <1>4, <2>1, <2>2, <2>3, OutcomeQuiet
  <1>8. ASSUME NEW c \in Callers, NEW id \in Ids, SubscribeResult(c, id)
        PROVE  OutcomeInv'
    <2>1. /\ launches' = launches /\ id \in DOMAIN intents
          /\ view' = Post(intents[id].token, {c}, "open")
      BY <1>8 DEF SubscribeResult
    <2>2. {c} \in SUBSET Callers /\ "open" \in Views
      BY DEF Views
    <2> QED
      BY <1>1, <1>2, <1>4, <2>1, <2>2, OutcomeQuiet
  <1>9. ASSUME NEW c \in Callers, NEW t \in Tokens, CancelSubscription(c, t)
        PROVE  OutcomeInv'
    <2>1. launches' = launches /\ view' = Post(t, {c}, "none")
      BY <1>9 DEF CancelSubscription
    <2>2. \A u \in Tokens, d \in Callers : view'[u][d] = view[u][d] \/ view'[u][d] = "none"
      BY <2>1, Posted
    <2> QED
      BY <1>1, <1>2, <1>4, <2>1, <2>2, OutcomeQuiet
  <1>10. ASSUME NEW c \in Callers, Leave(c)
         PROVE  OutcomeInv'
    <2>1. /\ launches' = launches
          /\ view' = [t \in Tokens |-> [view[t] EXCEPT ![c] = "none"]]
      BY <1>10 DEF Leave
    <2>2. view \in [Tokens -> [Callers -> Views]]
      BY DEF TypeOK
    <2>3. \A u \in Tokens, d \in Callers : view'[u][d] = view[u][d] \/ view'[u][d] = "none"
      BY <2>1, <2>2
    <2> QED
      BY <1>1, <1>2, <1>4, <2>1, <2>3, OutcomeQuiet
  <1> QED
    BY <1>1, <1>2, <1>3, <1>5, <1>6, <1>7, <1>8, <1>9, <1>10 DEF Next, SubscribeRejected

\* Nobody who waits for a result loses it without being told, but for a taken id and a
\* departed namesake.
THEOREM NothingLostSilently == Spec => []NoSilentLoss
  <1>1. Init => OutcomeInv
    BY DEF Init, OutcomeInv, FailedGone, WaitsForOutcome
  <1>2. /\ TypeOK /\ RegistryInv /\ StatusInv /\ FailureIsTheEnd /\ LedgerInv
        /\ IntentsEndForACause /\ OutcomeInv /\ [Next]_vars
        => OutcomeInv'
    BY OutcomeNext DEF Known
  <1>3. TypeOK /\ LedgerInv /\ IntentsEndForACause /\ OutcomeInv => NoSilentLoss
    <2> SUFFICES ASSUME TypeOK, LedgerInv, IntentsEndForACause, OutcomeInv,
                        NEW t \in Tokens, NEW c \in Callers,
                        view[t][c] \in {"open", "answered"}
                 PROVE  \/ \E k \in DOMAIN intents :
                              intents[k].token = t /\ c \in intents[k].subscribers
                        \/ Displaced(t)
                        \/ NamesakeLeft(t)
      BY DEF NoSilentLoss
    <2>1. Current(t) /\ (launches[t].reply = "failed" => Displaced(t) \/ NamesakeLeft(t))
      BY DEF OutcomeInv, WaitsForOutcome
    <2>2. Registered(t) \/ Displaced(t) \/ NamesakeLeft(t)
      BY <2>1 DEF IntentsEndForACause, Current
    <2> QED
      BY <2>2 DEF Registered, LedgerInv, SubscribersWait
  <1> QED
    BY <1>1, <1>2, <1>3, TypeCorrect, RegistryCorrect, StatusCorrect, SubscribersAgree,
       IntentsEndOnlyForACause, PTL DEF Spec
===============================================================================
