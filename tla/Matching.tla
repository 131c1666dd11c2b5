------------------------------- MODULE Matching -------------------------------
(*****************************************************************************)
(* How an intent is matched against the handlers (base/Uri, base/Handler)    *)
(* and the table the handlers are kept in (base/Handlers).  No variables:    *)
(* the table is the argument `hs`, a function from keys to handlers, and the *)
(* modules that own a `handlers` variable apply these operators to it.       *)
(*                                                                           *)
(*   intent   [name, action, mimeType, sessionId : strings, "" when unset;   *)
(*             uri : {} when unset, otherwise the singleton of a Uri]        *)
(*   Uri      [scheme, host, path], each "" when the string has no such part *)
(*   filter   a record with some of the fields actions, uris, mimeTypes;     *)
(*            DOMAIN filter is the set of keys the JSON object has, a field  *)
(*            is the set of the items of the JSON array.  A key whose value  *)
(*            is no array is refused like an empty array, and is one here.   *)
(*   handler  [name, sessionId, filters], filters a set of filters           *)
(*****************************************************************************)
EXTENDS Integers, Sequences, Functions

CONSTANTS
    Split,     \* string -> its parts between underscores (the joined form is
               \* the string again, so equal parts means equal strings)
    KeyRank    \* key -> its position in the order of std::map<string, ...>

ASSUME SplitAssumption ==
    /\ IsInjective(Split)
    /\ \A s \in DOMAIN Split : Split[s] \in Seq(STRING)

ASSUME RankAssumption  == IsInjective(KeyRank)

-----------------------------------------------------------------------------
\* std::map: m[k] = v and erase.
Put(f, k, v) == [x \in DOMAIN f \cup {k} |-> IF x = k THEN v ELSE f[x]]
Erase(f, K)  == Restrict(f, DOMAIN f \ K)

-----------------------------------------------------------------------------
\* Uri.  A part the filter leaves empty accepts anything.
UriCompare(a, b) == \A part \in {"scheme", "host", "path"} :
                        a[part] = "" \/ a[part] = b[part]

\* Intent: what the hasX() accessors and isValid() say.
HasName(i)      == i.name # ""
HasAction(i)    == i.action # ""
HasMimeType(i)  == i.mimeType # ""
HasUri(i)       == i.uri # {}
HasSessionId(i) == i.sessionId # ""
IsValid(i)      == HasName(i) \/ HasAction(i)

-----------------------------------------------------------------------------
\* Handler.
\* A slip (used by the mutation runs only, like the other operators so marked).
NameOnlyKey(sessionId, name) == Split[name]

SessionPart(sessionId) == Split[IF sessionId = "" THEN "host" ELSE sessionId]

ConvertKey(sessionId, name) == SessionPart(sessionId) \o Split[name]

GetKey(h) == ConvertKey(h.sessionId, h.name)

\* Session id s is u continued after an underscore.
BeginsWith(a, b) == Len(b) < Len(a) /\ SubSeq(a, 1, Len(b)) = b

Continues(s, u) == BeginsWith(SessionPart(s), SessionPart(u))

HasKey(filter, key) == key \in DOMAIN filter

ActionAccepted(filter, i) ==
    HasAction(i) => HasKey(filter, "actions") /\ i.action \in filter.actions

UriAccepted(filter, i) ==
    /\ HasKey(filter, "uris")
    /\ \E a \in filter.uris, b \in i.uri : UriCompare(a, b)

\* A slip.
MimeTypeIfListed(filter, i) ==
    HasKey(filter, "mimeTypes") => i.mimeType \in filter.mimeTypes

MimeTypeAccepted(filter, i) ==
    HasKey(filter, "mimeTypes") /\ i.mimeType \in filter.mimeTypes

CompareIntentFilter(filter, i) ==
    /\ ActionAccepted(filter, i)
    /\ \/ HasUri(i) /\ HasMimeType(i)
          /\ UriAccepted(filter, i) /\ MimeTypeAccepted(filter, i)
       \/ HasUri(i) /\ ~HasMimeType(i)
          /\ ~HasKey(filter, "mimeTypes") /\ UriAccepted(filter, i)
       \/ ~HasUri(i) /\ HasMimeType(i)
          /\ ~HasKey(filter, "uris") /\ MimeTypeAccepted(filter, i)
       \/ ~HasUri(i) /\ ~HasMimeType(i)
          /\ ~HasKey(filter, "uris") /\ ~HasKey(filter, "mimeTypes")

IsMatched(h, i) ==
    /\ HasSessionId(i) => h.sessionId = i.sessionId
    /\ IF HasName(i)
       THEN h.name = i.name
       ELSE \E filter \in h.filters : CompareIntentFilter(filter, i)

-----------------------------------------------------------------------------
\* Slips.
HandlerStays(hs, key) == hs

KeyIsFree(hs, h) == GetKey(h) \notin DOMAIN hs

\* Handlers: the table.  Add keeps the entry a key already has.
Accepts(hs, h) == h.name # "" /\ GetKey(h) \notin DOMAIN hs

\* A slip.
AddReplaces(hs, h) == IF h.name # "" THEN Put(hs, GetKey(h), h) ELSE hs

AddHandler(hs, h) == IF Accepts(hs, h) THEN Put(hs, GetKey(h), h) ELSE hs

RemoveHandler(hs, key) == Erase(hs, {key})

RemoveBySessionId(hs, sessionId) ==
    Erase(hs, {k \in DOMAIN hs : hs[k].sessionId = sessionId})

MatchingKeys(hs, i) == {k \in DOMAIN hs : IsMatched(hs[k], i)}

\* The first match in key order as a set of at most one handler, {} for nullptr.
GetHandler(hs, i) ==
    {hs[k] : k \in {m \in MatchingKeys(hs, i) :
                        \A n \in MatchingKeys(hs, i) : KeyRank[m] <= KeyRank[n]}}
===============================================================================
