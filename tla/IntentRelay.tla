------------------------------ MODULE IntentRelay ------------------------------
(*****************************************************************************)
(* What becomes of an intent that is passed on.  A request carries it as     *)
(* JSON, start makes an Intent of it, and the handler is launched with that  *)
(* Intent as JSON.  A handler may hand what it was launched with back to the *)
(* service as an intent of its own, to leave the work to another handler     *)
(* (the chooser apps/com.webos.app.intent hands all of it back, to methods   *)
(* this service no longer has): the id in it makes the new intent take the   *)
(* place of the old one.                                                     *)
(*****************************************************************************)
EXTENDS IntentJson

CONSTANTS
    Documents,  \* the intents applications ask for, as JSON
    MaxIds,     \* bound: values s_counter takes
    MaxStarts   \* bound: successful starts

ASSUME RelayAssumption == MaxStarts \in Nat /\ MaxIds \in Nat /\ 0..MaxIds \subseteq Ints

\* A URI, where there is one, is a sequence of characters.
ASSUME UrisAssumption == \A doc \in Documents : AsString(At(doc, "uri")) \in Seq(STRING)

VARIABLES
    s_counter,  \* Intent::s_counter
    intents,    \* Intents::m_intents: id -> [start, subscribers]: the start that filed
                \* it, and the starts whose requester is on its subscription point
    launches,   \* history: each start's [id, asked, params, subscribes, from, root]:
                \* what was asked for, what the handler got, whether the requester
                \* subscribed, the launch it relays (0: none) and the one the chain
                \* of relays began with
    removed     \* history: the starts whose intent was removed

vars == <<s_counter, intents, launches, removed>>

Init == s_counter = 0 /\ intents = <<>> /\ launches = <<>> /\ removed = {}

\* The requesters of start t that its Intent tells of a result; those that call
\* subscribeResult are IntentManager's.
OwnSubscribers(t, subscribes) == IF subscribes THEN {t} ELSE {}

\* start, refused because the intent is null or invalid, or for any of the reasons
\* IntentManager models; or accepted.  An intent that takes an id in use destroys
\* the one that had it, with its subscription point.
Start(doc, from, accepted, subscribes) ==
    LET t      == Len(launches) + 1
        intent == FromJson(FreshIntent(s_counter + 1), doc)
        root   == IF from = 0 THEN t ELSE launches[from].root
    IN
    /\ s_counter < MaxIds
    /\ s_counter' = s_counter + 1
    /\ IF accepted
       THEN /\ t <= MaxStarts
            /\ doc.kind # "null" /\ IsValid(intent)
            /\ launches' = Append(launches,
                  [id |-> intent.intentId, asked |-> doc, params |-> LaunchParams(intent),
                   subscribes |-> subscribes, from |-> from, root |-> root])
            /\ intents' = [k \in DOMAIN intents \cup {intent.intentId} |->
                  IF k = intent.intentId
                  THEN [start |-> t, subscribers |-> OwnSubscribers(t, subscribes)]
                  ELSE intents[k]]
       ELSE UNCHANGED <<intents, launches>>
    /\ UNCHANGED removed

\* An application asks.
Ask(doc) == \E accepted, subscribes \in BOOLEAN : Start(doc, 0, accepted, subscribes)

\* The handler of t passes its parameters on.
Relay(t) ==
    \E accepted, subscribes \in BOOLEAN :
        Start(launches[t].params, t, accepted, subscribes)

\* removeById, when the launch of one failed, or removeByOwner, when a client that
\* started any of them left: whose they are is IntentManager's.
Remove(gone) ==
    /\ gone # {}
    /\ intents' = [k \in DOMAIN intents \ gone |-> intents[k]]
    /\ removed' = removed \cup {intents[k].start : k \in gone}
    /\ UNCHANGED <<s_counter, launches>>

Next ==
    \/ \E doc \in Documents : Ask(doc)
    \/ \E t \in DOMAIN launches : Relay(t)
    \/ \E gone \in SUBSET DOMAIN intents : Remove(gone)

Spec == Init /\ [][Next]_vars

-----------------------------------------------------------------------------
(***************************************************************************)
(* What becomes of the intent.                                             *)
(***************************************************************************)
\* A handler further down the chain gets exactly what the first one got: what
\* fromJson reads is what toJson and launch print, whatever the types of the fields
\* of the first request were.
RelayKeepsTheIntent ==
    \A t \in DOMAIN launches : launches[t].from # 0 =>
        launches[t].params = launches[launches[t].from].params

\* The request brought a number as its id.
ChoseId(t) == At(launches[launches[t].root].asked, "intentId").kind = "num"

\* Intents of different chains share an id only if one of them chose it: an id of the
\* wrong type, a refused request and a relay in between all leave the ids of start
\* distinct.
ChainsApart ==
    \A t, u \in DOMAIN launches :
        launches[t].id = launches[u].id /\ launches[t].root # launches[u].root =>
            ChoseId(t) \/ ChoseId(u)

\* The last start, refused ones aside, that filed an intent under this id.
IsLatest(u, id) ==
    launches[u].id = id /\ \A v \in DOMAIN launches : launches[v].id = id => v <= u

\* The id a handler reads in its parameters, and answers with, leads to the last
\* start of its own chain, unless an id was chosen, and to nothing once that one was
\* removed.  Who hears the answer is the requester of that last start, if it
\* subscribed, and no other: a relay silences the requesters before it, the first of
\* the chain included (Intents.cpp:32).
AnswersReachTheChain ==
    \A t \in DOMAIN launches :
        LET answer == GetValue(launches[t].params, "intentId", "num", -1)
            id     == launches[t].id
        IN /\ answer.found /\ answer.value = id
           /\ \A last \in DOMAIN launches : IsLatest(last, id) =>
                 /\ ChoseId(t) \/ ChoseId(last) \/ launches[last].root = launches[t].root
                 /\ id \in DOMAIN intents <=> last \notin removed
                 /\ id \in DOMAIN intents => intents[id] =
                       [start |-> last,
                        subscribers |-> OwnSubscribers(last, launches[last].subscribes)]

\* The parts of a URI as RFC 3986 reads it from left to right.
Upto(str, chars) ==
    LET ends == {n \in 1..Len(str) : str[n] \in chars}
    IN IF ends = {} THEN str
       ELSE SubSeq(str, 1, (CHOOSE n \in ends : \A m \in ends : n <= m) - 1)

SchemeOf(str) ==
    LET name == Upto(str, {":", "\\", "/", "?", "#"}) IN
    IF name # <<>> /\ Len(name) < Len(str) /\ str[Len(name) + 1] = ":" THEN name ELSE <<>>

ReadUri(str) ==
    LET scheme == SchemeOf(str)
        hier   == IF scheme = <<>> THEN str ELSE Rest(str, Len(scheme) + 1)
        slashes == Len(hier) > 1 /\ hier[1] = "/" /\ hier[2] = "/"
        host   == IF slashes THEN Upto(Rest(hier, 2), {"\\", "/", "?", "#"}) ELSE <<>>
        tail   == IF slashes THEN Rest(hier, 2 + Len(host)) ELSE hier
        path   == Upto(tail, {"?", "#"})
        after  == Rest(tail, Len(path))
        query  == IF after # <<>> /\ after[1] = "?" THEN Upto(Rest(after, 1), {"#"}) ELSE <<>>
        hashed == Rest(after, Len(Upto(after, {"#"})))
    IN [empty |-> FALSE, uri |-> str, scheme |-> scheme, host |-> host, path |-> path,
        query |-> query, fragment |-> Rest(hashed, 1)]

\* The regular expression of Uri::parse, with its overlapping optional groups, reads
\* the "uri" of a request from left to right.
ParseReadsTheUri ==
    \A t \in DOMAIN launches :
        LET str == AsString(At(launches[t].asked, "uri")) IN Parse(str) = ReadUri(str)

\* The values a path of keys leads to, at most one.
Step(values, key) == {At(v, key) : v \in {w \in values : HasKey(w, key)}}

Readable(v, type) ==
    type = "any" \/ (v.kind = type /\ (type = "num" => v.val \in Ints))

Keys == {"intentId", "parsedUri", "extra", "scheme"}

\* What getValue got into a 7, where the keys lead to these values.
Agrees(type, got, there) ==
    IF \E v \in there : Readable(v, type)
    THEN got.found /\ \E v \in there : got.value = IF type = "any" THEN v ELSE v.val
    ELSE /\ ~got.found
         /\ got.value = IF type = "num" /\ \E v \in there : v.kind = "num" THEN 0 ELSE 7

\* getValue finds what the path of keys leads to if it has the type asked for, and
\* JValueUtil::hasKey tells whether it leads to anything; a variable that nothing was
\* found for keeps its value, or is 0 when there was a number that does not fit.
AccessAgrees ==
    \A t \in DOMAIN launches :
        LET request == Obj([intent |-> launches[t].params, session |-> launches[t].asked])
        IN \A k1 \in {"intent", "session"}, k2, k3 \in Keys, type \in {"any", "num", "str", "bool"} :
              LET two   == Step(Step({request}, k1), k2)
                  three == Step(two, k3)
              IN /\ Agrees(type, GetValue2(request, k1, k2, type, 7), two)
                 /\ Agrees(type, GetValue3(request, k1, k2, k3, type, 7), three)
                 /\ HasKeys(request, k1, k2, "") <=> two # {}
                 /\ HasKeys(request, k1, k2, k3) <=> three # {}
===============================================================================
