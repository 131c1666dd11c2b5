---------------------------- MODULE MCIntentService ----------------------------
(*****************************************************************************)
(* Small instances of IntentService for TLC.                                 *)
(*****************************************************************************)
EXTENDS IntentService, MCSessionDirectory

\* Session, then name.
ServiceRank == [k \in {<<"s1", "browser">>, <<"s1", "notes">>} |->
                   IF k[2] = "browser" THEN 1 ELSE 2]

\* A requester in the session.
Requester == {[name |-> "camera", session |-> "s1"]}

MCBodies == {[name |-> "", action |-> "open", mimeType |-> "", sessionId |-> "", uri |-> {}],
             [name |-> "notes", action |-> "", mimeType |-> "", sessionId |-> "", uri |-> {}]}
===============================================================================
