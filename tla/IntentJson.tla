------------------------------- MODULE IntentJson -------------------------------
(*****************************************************************************)
(* How an intent comes from a request and goes to a handler: Uri::parse,     *)
(* Uri::toJson, Intent::fromJson, Intent::toJson, and the parameters         *)
(* SAM::launch gives the application it launches.                            *)
(*                                                                           *)
(*   Uri     [empty, uri, scheme, host, path, query, fragment]               *)
(*   intent  [intentId, name, action, mimeType, result, extra, uri]          *)
(*****************************************************************************)
EXTENDS JsonAccess

-----------------------------------------------------------------------------
\* Uri::parse.  The regular expression of the whole string,
\*    (([^:\/?#]+):)? (//([^\/?#]*))? ([^?#]*) (\?([^#]*))? (#(.*))?
\* cuts it in five; a backslash in brackets stands for itself (std::regex::extended).
Cuts(str) ==
    {cut \in [1..4 -> 0..Len(str)] :
        cut[1] <= cut[2] /\ cut[2] <= cut[3] /\ cut[3] <= cut[4]}

Piece(str, cut, n) ==
    SubSeq(str, IF n = 1 THEN 1 ELSE cut[n - 1] + 1, IF n = 5 THEN Len(str) ELSE cut[n])

Has(str, chars) == \E i \in DOMAIN str : str[i] \in chars

Front(str) == SubSeq(str, 1, Len(str) - 1)

Rest(str, n) == SubSeq(str, n + 1, Len(str))

IsScheme(p) ==
    \/ p = <<>>
    \/ /\ Len(p) > 1 /\ p[Len(p)] = ":"
       /\ ~Has(Front(p), {":", "\\", "/", "?", "#"})

IsHost(p) ==
    \/ p = <<>>
    \/ /\ Len(p) > 1 /\ p[1] = "/" /\ p[2] = "/"
       /\ ~Has(Rest(p, 2), {"\\", "/", "?", "#"})

\* A slip.
IsPathOrQuery(p) == ~Has(p, {"#"})

IsPath(p) == ~Has(p, {"?", "#"})

IsQuery(p) == p = <<>> \/ (p[1] = "?" /\ ~Has(Rest(p, 1), {"#"}))

IsFragment(p) == p = <<>> \/ p[1] = "#"

Matches(str) ==
    {cut \in Cuts(str) :
        /\ IsScheme(Piece(str, cut, 1))
        /\ IsHost(Piece(str, cut, 2))
        /\ IsPath(Piece(str, cut, 3))
        /\ IsQuery(Piece(str, cut, 4))
        /\ IsFragment(Piece(str, cut, 5))}

\* A group takes what it can before the groups to its right.
Before(a, b) ==
    \E n \in 1..4 : a[n] > b[n] /\ \A m \in 1..n-1 : a[m] = b[m]

Match(str) ==
    LET all == Matches(str)
    IN CHOOSE cut \in all : \A other \in all \ {cut} : Before(cut, other)

NoUri == [empty |-> TRUE, uri |-> <<>>, scheme |-> <<>>, host |-> <<>>,
          path |-> <<>>, query |-> <<>>, fragment |-> <<>>]

\* Every string matches, the empty one too.
Parse(str) ==
    LET cut  == Match(str)
        P(n) == Piece(str, cut, n) IN
    [empty |-> FALSE, uri |-> str, scheme |-> Front(P(1)), host |-> Rest(P(2), 2),
     path |-> P(3), query |-> Rest(P(4), 1), fragment |-> Rest(P(5), 1)]

\* Uri::toJson: the parts that are not empty.
UriToJson(u) ==
    Obj([part \in {p \in {"scheme", "host", "path", "query", "fragment"} : u[p] # <<>>} |->
            Str(u[part])])

-----------------------------------------------------------------------------
\* Intent::Intent.
FreshIntent(id) ==
    [intentId |-> id, name |-> <<>>, action |-> <<>>, mimeType |-> <<>>,
     result |-> <<>>, extra |-> Obj(<<>>), uri |-> NoUri]

\* Intent::isValid.
IsValid(i) == i.name # <<>> \/ i.action # <<>>

\* Intent::fromJson: nobody looks at what getValue returns, so an "intentId" that
\* does not fit an int makes the id 0, and a "uri" of any type is a URI.
FromJson(i, json) ==
    [intentId |-> GetValue(json, "intentId", "num", i.intentId).value,
     name     |-> GetValue(json, "name", "str", i.name).value,
     action   |-> GetValue(json, "action", "str", i.action).value,
     mimeType |-> GetValue(json, "mimeType", "str", i.mimeType).value,
     result   |-> GetValue(json, "result", "str", i.result).value,
     extra    |-> GetValue(json, "extra", "any", i.extra).value,
     uri      |-> IF HasKey(json, "uri") THEN Parse(AsString(At(json, "uri"))) ELSE i.uri]

\* Intent::toJson, and the keys it puts: an extra counts when it is an object that
\* is not empty.
Texts == {"name", "action", "mimeType", "result"}

Kept(i) ==
    {k \in Texts : i[k] # <<>>}
    \cup (IF i.intentId # -1 THEN {"intentId"} ELSE {})
    \cup (IF i.extra.kind = "obj" /\ DOMAIN i.extra.val # {} THEN {"extra"} ELSE {})
    \cup (IF i.uri.empty THEN {} ELSE {"uri", "parsedUri"})

\* A slip.
PartsAsUri(i, k) ==
    CASE k \in Texts      -> Str(i[k])
      [] k = "intentId"   -> Num(i.intentId)
      [] k = "extra"      -> i.extra
      [] OTHER            -> UriToJson(i.uri)

Printed(i, k) ==
    CASE k \in Texts      -> Str(i[k])
      [] k = "intentId"   -> Num(i.intentId)
      [] k = "extra"      -> i.extra
      [] k = "uri"        -> Str(i.uri.uri)
      [] k = "parsedUri"  -> UriToJson(i.uri)

ToJson(i) == Obj([k \in Kept(i) |-> Printed(i, k)])

\* A slip.
IdUnlessUnset(i) ==
    LET json == ToJson(i).val
    IN Obj([k \in DOMAIN json \cup {"from"} |-> IF k = "from" THEN Str(<<>>) ELSE json[k]])

\* SAM::launch: "from" is the owner, which start sets after the launch only; the id
\* is put even when it is -1.
LaunchParams(i) ==
    LET json == ToJson(i).val
    IN Obj([k \in DOMAIN json \cup {"from", "intentId"} |->
              CASE k = "from"     -> Str(<<>>)
                [] k = "intentId" -> Num(i.intentId)
                [] OTHER          -> json[k]])
===============================================================================
