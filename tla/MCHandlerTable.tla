---------------------------- MODULE MCHandlerTable ----------------------------
(*****************************************************************************)
(* A small instance of HandlerTable for TLC: two sessions, one of which is   *)
(* the other continued, and the host, with applications whose names contain  *)
(* what a key is glued with.                                                 *)
(*****************************************************************************)
EXTENDS HandlerTable

MCSplit ==
    [s \in {"", "host", "s1", "s2", "web", "s1_web", "web_s1"} |->
        CASE s = "s1_web" -> <<"s1", "web">>
          [] s = "web_s1" -> <<"web", "s1">>
          [] OTHER        -> <<s>>]

Keys == {ConvertKey(s, n) : s \in {"", "s1", "s2", "s1_web"},
                            n \in {"", "s1", "web", "s1_web", "web_s1"}}

\* No lookup by rank here: any injective rank serves.
MCKeyRank == [k \in Keys |-> k]

Uri(scheme, host, path) == [scheme |-> scheme, host |-> host, path |-> path]

Anything == [actions |-> {"open"}]
Secure   == [actions |-> {"open"}, uris |-> {Uri("https", "", ""), Uri("http", "a.com", "")}]
Pictures == [actions |-> {"open", "view"}, mimeTypes |-> {"image/png"}]
Shown    == [uris |-> {Uri("http", "", "/x")}, mimeTypes |-> {"image/png"}]

MCCandidates ==
    {[name |-> "web",    sessionId |-> "",   filters |-> {Secure, Anything}],
     [name |-> "web",    sessionId |-> "",   filters |-> {Pictures}],
     [name |-> "web",    sessionId |-> "s1", filters |-> {Secure}],
     [name |-> "web_s1", sessionId |-> "",   filters |-> {Pictures}],
     [name |-> "s1_web", sessionId |-> "",   filters |-> {Pictures, Shown}],
     [name |-> "s1_web", sessionId |-> "s2", filters |-> {Shown}],
     [name |-> "s1",     sessionId |-> "s1_web", filters |-> {Shown}],
     [name |-> "web",    sessionId |-> "s2", filters |-> {Anything}],
     [name |-> "web_s1", sessionId |-> "s1", filters |-> {}],
     [name |-> "",       sessionId |-> "s1", filters |-> {Anything}]}

MCProbes ==
    [name : {"", "web"}, action : {"", "open", "view"}, mimeType : {"", "image/png"},
     sessionId : {"", "s1"},
     uri : {{}, {Uri("https", "b.com", "/x")}, {Uri("http", "a.com", "/x")}}]
===============================================================================
