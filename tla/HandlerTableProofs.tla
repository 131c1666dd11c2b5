--------------------------- MODULE HandlerTableProofs ---------------------------
(*****************************************************************************)
(* Theorems about the handlers' table for every set of candidates, of probes *)
(* and every way names split at underscores.                                 *)
(*****************************************************************************)
EXTENDS HandlerTable, MatchingProofs, FiniteSetTheorems

-----------------------------------------------------------------------------
\* What the three operations leave in the table.
LEMMA TableAfterAdd ==
    ASSUME NEW h, handlers' = AddHandler(handlers, h)
    PROVE  \/ /\ Accepts(handlers, h)
              /\ DOMAIN handlers' = DOMAIN handlers \cup {GetKey(h)}
              /\ \A k \in DOMAIN handlers' :
                    handlers'[k] = IF k = GetKey(h) THEN h ELSE handlers[k]
           \/ ~Accepts(handlers, h) /\ handlers' = handlers
  <1> DEFINE key == GetKey(h)
  <1>1. CASE Accepts(handlers, h)
    <2>1. handlers' = [x \in DOMAIN handlers \cup {key} |->
                          IF x = key THEN h ELSE handlers[x]]
      BY <1>1 DEF AddHandler, Put
    <2> HIDE DEF key
    <2>2. /\ DOMAIN handlers' = DOMAIN handlers \cup {key}
          /\ \A k \in DOMAIN handlers' : handlers'[k] = IF k = key THEN h ELSE handlers[k]
      BY <2>1
    <2> QED
      BY <1>1, <2>2 DEF key
  <1>2. CASE ~Accepts(handlers, h)
    BY <1>2 DEF AddHandler
  <1> QED
    BY <1>1, <1>2

LEMMA TableAfterErase ==
    ASSUME NEW K, handlers' = Erase(handlers, K)
    PROVE  /\ DOMAIN handlers' = DOMAIN handlers \ K
           /\ \A k \in DOMAIN handlers' : handlers'[k] = handlers[k]
  BY DEF Erase, Restrict

\* Adding keeps what is there and files the new handler under its own key.
LEMMA TypeAdd ==
    ASSUME TypeOK, NEW h \in Candidates, Add(h)
    PROVE  TypeOK'
  <1>1. kept' \subseteq Candidates
    BY DEF Add, TypeOK
  <1>2. ASSUME NEW k \in DOMAIN handlers'
        PROVE  handlers'[k] \in Candidates /\ handlers'[k].name # "" /\ k = GetKey(handlers'[k])
    <2>1. CASE Accepts(handlers, h) /\ k = GetKey(h)
      <3>1. handlers'[k] = h /\ h.name # ""
        BY <1>2, <2>1, TableAfterAdd DEF Add, Accepts
      <3> QED
        BY <2>1, <3>1
    <2>2. CASE ~(Accepts(handlers, h) /\ k = GetKey(h))
      <3>1. k \in DOMAIN handlers /\ handlers'[k] = handlers[k]
        BY <1>2, <2>2, TableAfterAdd DEF Add
      <3> QED
        BY <3>1 DEF TypeOK
    <2> QED
      BY <2>1, <2>2
  <1> QED
    BY <1>1, <1>2 DEF TypeOK

\* Removing keeps the rest.
LEMMA TypeErase ==
    ASSUME TypeOK, NEW K, handlers' = Erase(handlers, K), kept' \subseteq kept
    PROVE  TypeOK'
  BY TableAfterErase DEF TypeOK

\* The table holds candidates with a name, each under its own key, whatever
\* SAM and Session add and remove.
THEOREM TableTypeCorrect == Spec => []TypeOK
  <1>1. Init => TypeOK
    <2>1. Init => DOMAIN handlers = {} /\ kept = {}
      BY DEF Init
    <2> QED
      BY <2>1 DEF TypeOK
  <1>2. TypeOK /\ [Next]_vars => TypeOK'
    <2> SUFFICES ASSUME TypeOK, [Next]_vars PROVE TypeOK'
      OBVIOUS
    <2>1. ASSUME NEW h \in Candidates, Add(h) PROVE TypeOK'
      BY <2>1, TypeAdd
    <2>2. ASSUME NEW h \in Candidates, Remove(h) PROVE TypeOK'
      BY <2>2, TypeErase DEF Remove, RemoveHandler
    <2>3. ASSUME NEW h \in Candidates, RemoveSession(h.sessionId) PROVE TypeOK'
      BY <2>3, TypeErase DEF RemoveSession, RemoveBySessionId
    <2>4. CASE UNCHANGED vars
      BY <2>4 DEF TypeOK, vars
    <2> QED
      BY <2>1, <2>2, <2>3, <2>4 DEF Next
  <1> QED
    BY <1>1, <1>2, PTL DEF Spec

-----------------------------------------------------------------------------
\* So it is for candidates.
LEMMA KeyIsUnique ==
    ASSUME NEW g \in Candidates, NEW h \in Candidates, GetKey(g) = GetKey(h),
           ~Continues(g.sessionId, h.sessionId), ~Continues(h.sessionId, g.sessionId)
    PROVE  g.name = h.name /\ g.sessionId = h.sessionId
  <1> DEFINE s == g.sessionId  n == g.name  u == h.sessionId  v == h.name
  <1>1. /\ n \in DOMAIN Split /\ v \in DOMAIN Split /\ "host" \in DOMAIN Split
        /\ s \in DOMAIN Split /\ u \in DOMAIN Split /\ s # "host" /\ u # "host"
    BY SessionAssumption
  <1>2. ConvertKey(s, n) = ConvertKey(u, v) /\ ~Continues(s, u) /\ ~Continues(u, s)
    BY DEF GetKey
  <1> HIDE DEF s, n, u, v
  <1>3. s = u /\ n = v
    BY <1>1, <1>2, KeyParts
  <1> QED
    BY <1>3 DEF s, n, u, v

\* A key in the table is the key of one application of one session, unless one of two
\* session ids is the other continued after an underscore: no id is ruled out.
THEOREM KeysAreUnambiguous == Spec => []KeysIdentifyApps
  <1>1. TypeOK => KeysIdentifyApps
    <2> SUFFICES ASSUME TypeOK, NEW h \in Candidates, GetKey(h) \in DOMAIN handlers,
                        NEW g, g = handlers[GetKey(h)],
                        ~Continues(g.sessionId, h.sessionId),
                        ~Continues(h.sessionId, g.sessionId)
                 PROVE  Same(g, h)
      BY DEF KeysIdentifyApps
    <2>1. g \in Candidates /\ GetKey(g) = GetKey(h)
      BY DEF TypeOK
    <2> QED
      BY <2>1, KeyIsUnique DEF Same
  <1> QED
    BY <1>1, TableTypeCorrect, PTL

-----------------------------------------------------------------------------
\* Who is alone with its key shares it with its own kind only.
LEMMA AloneWithKey ==
    ASSUME NEW g \in Candidates, NEW h \in Candidates, Alone(g)
    PROVE  /\ GetKey(h) = GetKey(g) <=> Same(h, g)
           /\ Same(h, g) => Alone(h)
           /\ Same(h, g) <=> Same(g, h)
  BY DEF Alone, Same, GetKey

\* Under its own key, or not at all.
LEMMA FiledUnderItsKey ==
    ASSUME TypeOK, NEW g
    PROVE  g \in Range(handlers) <=>
               GetKey(g) \in DOMAIN handlers /\ handlers[GetKey(g)] = g
  <1>1. g \in Range(handlers) <=> \E k \in DOMAIN handlers : handlers[k] = g
    BY DEF Range
  <1> QED
    BY <1>1 DEF TypeOK

\* Adding takes the first of its kind and refuses the rest, in both tellings.
LEMMA FirstAdd ==
    ASSUME TypeOK, TypeOK', FirstAddedStays, NEW h \in Candidates, Add(h)
    PROVE  FirstAddedStays'
  <1> SUFFICES ASSUME NEW g \in Candidates, Alone(g)
               PROVE  g \in kept' <=> g \in Range(handlers')
    BY DEF FirstAddedStays, Alone, Same
  <1>1. g \in Range(handlers') <=>
            GetKey(g) \in DOMAIN handlers' /\ handlers'[GetKey(g)] = g
    <2>1. g \in Range(handlers') <=> \E k \in DOMAIN handlers' : handlers'[k] = g
      BY DEF Range
    <2> QED
      BY <2>1 DEF TypeOK
  <1>2. g \in kept <=> GetKey(g) \in DOMAIN handlers /\ handlers[GetKey(g)] = g
    BY FiledUnderItsKey DEF FirstAddedStays
  <1>3. CASE h # g
    <2>1. g \in kept' <=> g \in kept
      BY <1>3 DEF Add
    <2>2. GetKey(g) \in DOMAIN handlers' /\ handlers'[GetKey(g)] = g <=>
              GetKey(g) \in DOMAIN handlers /\ handlers[GetKey(g)] = g
      BY <1>3, TableAfterAdd DEF Add, Accepts
    <2> QED
      BY <1>1, <1>2, <2>1, <2>2
  <1>4. CASE h = g
    <2>1. GetKey(g) \in DOMAIN handlers <=> \E other \in kept : Same(other, g)
      <3>1. ASSUME GetKey(g) \in DOMAIN handlers
            PROVE  \E other \in kept : Same(other, g)
        <4> DEFINE e == handlers[GetKey(g)]
        <4>1. e \in Candidates /\ GetKey(e) = GetKey(g)
          BY <3>1 DEF TypeOK
        <4>2. Same(e, g) /\ Alone(e)
          BY <4>1, AloneWithKey
        <4>3. e \in kept
          BY <3>1, <4>1, <4>2, FiledUnderItsKey DEF FirstAddedStays
        <4> QED
          BY <4>2, <4>3
      <3>2. ASSUME NEW other \in kept, Same(other, g)
            PROVE  GetKey(g) \in DOMAIN handlers
        <4>1. other \in Candidates
          BY <3>2 DEF TypeOK
        <4>2. Alone(other) /\ GetKey(other) = GetKey(g)
          BY <3>2, <4>1, AloneWithKey
        <4> QED
          BY <3>2, <4>1, <4>2, FiledUnderItsKey DEF FirstAddedStays
      <3> QED
        BY <3>1, <3>2
    <2>2. g \in kept' <=> g \in kept \/ Accepts(handlers, g)
      BY <1>4, <2>1 DEF Add, Accepts
    <2>3. GetKey(g) \in DOMAIN handlers' /\ handlers'[GetKey(g)] = g <=>
              g \in kept \/ Accepts(handlers, g)
      BY <1>2, <1>4, TableAfterAdd DEF Add, Accepts
    <2> QED
      BY <1>1, <2>2, <2>3
  <1> QED
    BY <1>3, <1>4

\* Removing takes the same handlers from both: those whose key is in K.
LEMMA FirstErase ==
    ASSUME TypeOK, TypeOK', FirstAddedStays, NEW K, handlers' = Erase(handlers, K),
           \A g \in Candidates : Alone(g) =>
               (g \in kept' <=> g \in kept /\ ~(GetKey(g) \in K))
    PROVE  FirstAddedStays'
  <1> SUFFICES ASSUME NEW g \in Candidates, Alone(g)
               PROVE  g \in kept' <=> g \in Range(handlers')
    BY DEF FirstAddedStays, Alone, Same
  <1>1. g \in Range(handlers') <=>
            GetKey(g) \in DOMAIN handlers' /\ handlers'[GetKey(g)] = g
    <2>1. g \in Range(handlers') <=> \E k \in DOMAIN handlers' : handlers'[k] = g
      BY DEF Range
    <2> QED
      BY <2>1 DEF TypeOK
  <1>2. g \in kept <=> GetKey(g) \in DOMAIN handlers /\ handlers[GetKey(g)] = g
    BY FiledUnderItsKey DEF FirstAddedStays
  <1> QED
    BY <1>1, <1>2, TableAfterErase

\* Of each application of each session the table has the one that was added first since
\* the last removal, as long as no other application's key is glued to the same parts.
THEOREM TheFirstAddedStays == Spec => []FirstAddedStays
  <1>1. Init => FirstAddedStays
    <2>1. Init => Range(handlers) = {} /\ kept = {}
      BY DEF Init, Range
    <2> QED
      BY <2>1 DEF FirstAddedStays
  <1>2. TypeOK /\ TypeOK' /\ FirstAddedStays /\ [Next]_vars => FirstAddedStays'
    <2> SUFFICES ASSUME TypeOK, TypeOK', FirstAddedStays, [Next]_vars
                 PROVE  FirstAddedStays'
      OBVIOUS
    <2>1. ASSUME NEW h \in Candidates, Add(h) PROVE FirstAddedStays'
      BY <2>1, FirstAdd
    <2>2. ASSUME NEW h \in Candidates, Remove(h) PROVE FirstAddedStays'
      <3>1. \A g \in Candidates : Alone(g) =>
                (g \in kept' <=> g \in kept /\ ~(GetKey(g) \in {GetKey(h)}))
        BY <2>2, AloneWithKey DEF Remove
      <3>2. handlers' = Erase(handlers, {GetKey(h)})
        BY <2>2 DEF Remove, RemoveHandler, GetKey
      <3> QED
        BY <3>1, <3>2, FirstErase
    <2>3. ASSUME NEW h \in Candidates, RemoveSession(h.sessionId) PROVE FirstAddedStays'
      <3> DEFINE K == {k \in DOMAIN handlers : handlers[k].sessionId = h.sessionId}
      <3>1. ASSUME NEW g \in Candidates, Alone(g)
            PROVE  g \in kept' <=> g \in kept /\ ~(GetKey(g) \in K)
        <4>1. g \in kept' <=> g \in kept /\ g.sessionId # h.sessionId
          BY <2>3 DEF RemoveSession
        <4>2. g \in kept => GetKey(g) \in DOMAIN handlers /\ handlers[GetKey(g)] = g
          BY <3>1, FiledUnderItsKey DEF FirstAddedStays
        <4> QED
          BY <4>1, <4>2
      <3>2. handlers' = Erase(handlers, K)
        BY <2>3 DEF RemoveSession, RemoveBySessionId
      <3> HIDE DEF K
      <3> QED
        BY <3>1, <3>2, FirstErase
    <2>4. CASE UNCHANGED vars
      BY <2>4 DEF FirstAddedStays, vars, Range, Alone, Same
    <2> QED
      BY <2>1, <2>2, <2>3, <2>4 DEF Next
  <1> QED
    BY <1>1, <1>2, TableTypeCorrect, PTL DEF Spec

-----------------------------------------------------------------------------
\* The four cases of compareIntentFilter come to: the filter and the intent name
\* the same criteria, and each of them is met.
THEOREM FiltersMeanTheirCriteria == Spec => []FilterMeaning
  <1>1. ASSUME NEW h \in Candidates, NEW filter \in h.filters, NEW i
        PROVE  CompareIntentFilter(filter, i) <=> FilterAccepts(filter, i)
    <2>1. DOMAIN filter \subseteq {"actions", "uris", "mimeTypes"}
      BY FilterAssumption
    <2>2. DOMAIN filter \ {"actions"} = Criteria(i) <=>
             /\ HasUri(i) <=> "uris" \in DOMAIN filter
             /\ HasMimeType(i) <=> "mimeTypes" \in DOMAIN filter
      BY <2>1 DEF Criteria
    <2>3. /\ "uris" \in Criteria(i) <=> HasUri(i)
          /\ "mimeTypes" \in Criteria(i) <=> HasMimeType(i)
      BY DEF Criteria
    <2>4. /\ filter.uris = filter["uris"] /\ filter.mimeTypes = filter["mimeTypes"]
          /\ filter.actions = filter["actions"]
      OBVIOUS
    <2>5. FilterAccepts(filter, i) <=>
             /\ HasUri(i) <=> "uris" \in DOMAIN filter
             /\ HasMimeType(i) <=> "mimeTypes" \in DOMAIN filter
             /\ ActionAccepted(filter, i)
             /\ HasUri(i) => \E u \in filter.uris, v \in i.uri : UriCompare(u, v)
             /\ HasMimeType(i) => i.mimeType \in filter.mimeTypes
      BY <2>2, <2>3, <2>4 DEF FilterAccepts, ActionAccepted, HasKey
    <2> QED
      BY <2>5 DEF CompareIntentFilter, UriAccepted, MimeTypeAccepted, HasKey
  <1>2. TypeOK => FilterMeaning
    BY <1>1 DEF TypeOK, FilterMeaning
  <1> QED
    BY <1>2, TableTypeCorrect, PTL
===============================================================================
