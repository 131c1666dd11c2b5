-------------------------- MODULE MCSessionDirectory --------------------------
(*****************************************************************************)
(* Small instances of SessionDirectory for TLC.                              *)
(*****************************************************************************)
EXTENDS SessionDirectory

\* Names without underscores: a key is the pair of its parts.
MCSplit == [s \in {"host", "s1", "s2", "browser", "notes", "viewer"} |-> <<s>>]

\* No lookup by rank here: any injective rank serves.
MCKeyRank == [k \in {<<x, y>> : x \in {"host", "s1", "s2"},
                                y \in {"browser", "notes", "viewer"}} |-> k]

NoSessions == {""}
OneSession == {"s1"}
HostAndUser == {"host", "s1"}
HostSession == {"host"}

Filter(action) == [actions |-> {action}]

\* browser is in the database, notes has filters of its own, viewer has none.
MCManifest == [app \in {"browser", "notes", "viewer"} |->
                  IF app = "notes" THEN {{Filter("edit")}} ELSE {}]

MCConf == [app \in {"browser", "notes", "viewer"} |->
              IF app = "browser" THEN {{Filter("open")}} ELSE {}]
===============================================================================
