----------------------------- MODULE HandlerTable -----------------------------
(*****************************************************************************)
(* base/Handlers on its own: the table under any sequence of the operations  *)
(* SAM and Session call (add, remove, removeBySessionId), whatever the ids   *)
(* of the sessions are, and what the filters in it accept.  SessionDirectory *)
(* says which of these sequences the program performs.                       *)
(*****************************************************************************)
EXTENDS Integers, Sequences, FiniteSets, Matching

CONSTANTS
    Candidates,  \* handlers that may be added
    Probes       \* intents that are looked up

VARIABLES
    handlers,    \* m_handlers
    kept         \* the same told without keys: who was added first of each application of
                 \* each session and was not removed since

vars == <<handlers, kept>>

\* A filter is read through three keys.
ASSUME FilterAssumption ==
    \A h \in Candidates : \A filter \in h.filters :
        DOMAIN filter \subseteq {"actions", "uris", "mimeTypes"}

\* No handler has the session id "host": AbsLunaClient::getSessionId says "" for it.
ASSUME SessionAssumption ==
    /\ "host" \in DOMAIN Split
    /\ \A h \in Candidates : {h.name, h.sessionId} \subseteq DOMAIN Split
    /\ \A h \in Candidates : h.sessionId # "host"

Same(g, h) == g.name = h.name /\ g.sessionId = h.sessionId

Init == handlers = <<>> /\ kept = {}

Add(h) ==
    /\ handlers' = AddHandler(handlers, h)
    /\ kept' = kept \cup {g \in {h} : g.name # "" /\ \A other \in kept : ~Same(other, g)}

Remove(h) ==
    /\ handlers' = RemoveHandler(handlers, ConvertKey(h.sessionId, h.name))
    /\ kept' = {g \in kept : ~Same(g, h)}

RemoveSession(sessionId) ==
    /\ handlers' = RemoveBySessionId(handlers, sessionId)
    /\ kept' = {g \in kept : g.sessionId # sessionId}

Next == \E h \in Candidates : Add(h) \/ Remove(h) \/ RemoveSession(h.sessionId)

Spec == Init /\ [][Next]_vars

-----------------------------------------------------------------------------
\* The table holds candidates with a name, each under its own key.
TypeOK ==
    /\ kept \subseteq Candidates
    /\ \A k \in DOMAIN handlers :
        /\ handlers[k] \in Candidates
        /\ handlers[k].name # ""
        /\ k = GetKey(handlers[k])

\* Handlers::add takes an existing key for the same application: so it must be the
\* same application of the same session, although session and name are glued together
\* with an underscore that either may contain.  The one way to take another's key, and
\* nothing in the code rules it out, is a session id (or "host", for none) that is the
\* other's continued after an underscore.
KeysIdentifyApps ==
    \A h \in Candidates : GetKey(h) \in DOMAIN handlers =>
        LET g == handlers[GetKey(h)] IN
        \/ Same(g, h)
        \/ Continues(g.sessionId, h.sessionId) \/ Continues(h.sessionId, g.sessionId)

\* Handlers::add refuses a key that is there and both removals take what they find, so
\* what the table answers depends on everything done before.  It comes to this: of each
\* application of each session the table has the one that was added first since it was
\* last removed, filters and all, and never another.  A glued key of another application
\* is the only thing that can get in between, and KeysIdentifyApps says when there is one.
Alone(g) == \A h \in Candidates : GetKey(h) = GetKey(g) => Same(h, g)

FirstAddedStays ==
    \A g \in Candidates : Alone(g) => (g \in kept <=> g \in Range(handlers))

\* What Handler::compareIntentFilter means: the filter and the intent name the
\* same criteria, uri and mimeType, and each criterion the intent has, the action
\* included, finds a value of the filter that accepts it.
Criteria(i) == (IF HasUri(i) THEN {"uris"} ELSE {})
               \cup (IF HasMimeType(i) THEN {"mimeTypes"} ELSE {})

FilterAccepts(filter, i) ==
    /\ DOMAIN filter \ {"actions"} = Criteria(i)
    /\ HasAction(i) => "actions" \in DOMAIN filter /\ i.action \in filter["actions"]
    /\ "uris" \in Criteria(i) => \E u \in filter["uris"], v \in i.uri : UriCompare(u, v)
    /\ "mimeTypes" \in Criteria(i) => i.mimeType \in filter["mimeTypes"]

FilterMeaning ==
    \A k \in DOMAIN handlers : \A filter \in handlers[k].filters, i \in Probes :
        CompareIntentFilter(filter, i) <=> FilterAccepts(filter, i)
===============================================================================
