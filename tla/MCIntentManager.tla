---------------------------- MODULE MCIntentManager ----------------------------
(*****************************************************************************)
(* Small instances of IntentManager for TLC.                                 *)
(*****************************************************************************)
EXTENDS IntentManager

\* A key is its parts; the model has no underscore inside a name.
MCSplit == [s \in {"host", "s1", "s2", "viewer", "editor"} |-> <<s>>]

MCKeyRank ==
    [k \in {<<"host", "viewer">>, <<"s1", "viewer">>, <<"s2", "viewer">>,
            <<"s2", "editor">>} |->
        CASE k = <<"host", "viewer">> -> 1
          [] k = <<"s1", "viewer">>   -> 2
          [] k = <<"s2", "editor">>   -> 3
          [] k = <<"s2", "viewer">>   -> 4]

At(name, session) == [name |-> name, session |-> session]

\* Two applications of the host; one application open in two sessions.
OneCaller  == {At("camera", "")}
TwoNames   == {At("camera", ""), At("notes", "")}
TwoPlaces  == {At("camera", "s1"), At("camera", "s2")}

View == [name |-> "", action |-> "view", mimeType |-> "", sessionId |-> "",
         uri |-> {}]

MCBodies == {View}

Viewer(sessionId) ==
    [name |-> "viewer", sessionId |-> sessionId,
     filters |-> {[actions |-> {"view"}]}]

HostTable == Put(<<>>, <<"host", "viewer">>, Viewer(""))

HostOnly == {[sessions |-> {""}, handlers |-> HostTable]}

BothSessions ==
    {[sessions |-> {"s1", "s2"},
      handlers |-> Put(Put(<<>>, <<"s1", "viewer">>, Viewer("s1")),
                       <<"s2", "viewer">>, Viewer("s2"))]}

\* The account service may go and take every session with it.
ComesAndGoes == BothSessions \cup {[sessions |-> {}, handlers |-> <<>>]}
===============================================================================
