------------------------------ MODULE AppCatalog ------------------------------
(*****************************************************************************)
(* What the session directory promises of the applications that can be       *)
(* launched: in each session they are none, or those that were installed in  *)
(* it at some moment, and from there they go through every change of them in *)
(* order, skip none and never turn back.  Only the loss of the session or of *)
(* its application manager empties them, and a new listing starts from what  *)
(* is installed then.  Nothing here of keys, replies, status calls or the    *)
(* order in which services come and go; SessionDirectory implements this     *)
(* (SessionDirectory!ImplementsCatalog).                                     *)
(*****************************************************************************)
EXTENDS Naturals, Sequences

CONSTANTS Sessions, Apps

VARIABLES
    installed,  \* session -> what is installed in it
    heard,      \* the sessions whose changes the service is told of
    news,       \* session -> what has been installed since, and is to be shown yet
    shown       \* session -> what can be launched in it

vars == <<installed, heard, news, shown>>

Init ==
    /\ installed \in [Sessions -> SUBSET Apps]
    /\ heard = {}
    /\ news = [s \in Sessions |-> <<>>]
    /\ shown = [s \in Sessions |-> {}]

\* The applications of s are asked for, when nothing is left of an earlier listing.
Open(s) ==
    /\ s \notin heard /\ news[s] = <<>> /\ shown[s] = {}
    /\ heard' = heard \cup {s}
    /\ news' = [news EXCEPT ![s] = <<installed[s]>>]
    /\ UNCHANGED <<installed, shown>>

\* An application comes, goes or gets a new version.
Change(s, apps) ==
    /\ installed' = [installed EXCEPT ![s] = apps]
    /\ news' = IF s \in heard THEN [news EXCEPT ![s] = Append(@, apps)] ELSE news
    /\ UNCHANGED <<heard, shown>>

Show(s) ==
    /\ news[s] # <<>>
    /\ shown' = [shown EXCEPT ![s] = Head(news[s])]
    /\ news' = [news EXCEPT ![s] = Tail(@)]
    /\ UNCHANGED <<installed, heard>>

\* The application manager is gone; what it said is still under way.
Hush(s) ==
    /\ heard' = heard \ {s}
    /\ UNCHANGED <<installed, news, shown>>

\* The service learns that the sessions of S, or their managers, are gone.
Drop(S) ==
    /\ heard' = heard \ S
    /\ news' = [s \in Sessions |-> IF s \in S THEN <<>> ELSE news[s]]
    /\ shown' = [s \in Sessions |-> IF s \in S THEN {} ELSE shown[s]]
    /\ UNCHANGED installed

Next ==
    \/ \E s \in Sessions : Open(s) \/ Show(s) \/ Hush(s)
    \/ \E s \in Sessions, apps \in SUBSET Apps : Change(s, apps)
    \/ \E S \in SUBSET Sessions : Drop(S)

Spec == Init /\ [][Next]_vars
===============================================================================
