----------------------------- MODULE IntentLedger -----------------------------
(*****************************************************************************)
(* What the luna API of the intent service promises its clients: intents are *)
(* started, answered, fail or end, and each client hears a story of its own  *)
(* about each of them.  Nothing here of ids, the registry, launch calls,     *)
(* subscription points or status calls; IntentManager implements this        *)
(* (IntentManager!ImplementsLedger).                                         *)
(*                                                                           *)
(* An intent is the position of its start in `owners`.                       *)
(*****************************************************************************)
EXTENDS Naturals, Sequences

CONSTANTS
    Callers,     \* the clients, set of [name, session]
    Tokens,      \* 1..n, the starts there may be
    MayDisplace  \* whether a start may end another intent (it may when requests
                 \* choose ids of their own)

VARIABLES
    owners,   \* the names of those who started an intent, in order
    running,  \* the intents that results and subscriptions still reach
    told,     \* intent -> client -> what the client heard last
    left      \* names of clients that left the bus since the service started

vars == <<owners, running, told, left>>

Silence == [t \in Tokens |-> [c \in Callers |-> "none"]]

Waiting(t) == {c \in Callers : told[t][c] \in {"open", "answered"}}

Tell(t, to, what) ==
    told' = [told EXCEPT ![t] = [c \in Callers |-> IF c \in to THEN what ELSE told[t][c]]]

Init == owners = <<>> /\ running = {} /\ told = Silence /\ left = {}

\* c starts an intent, and waits for its result or not.  Whoever waits for the one
\* intent this may displace is not told.
Start(c, waits, displaced) ==
    LET t == Len(owners) + 1 IN
    /\ t \in Tokens
    /\ waits \subseteq {c}
    /\ displaced \subseteq running
    /\ \A u, v \in displaced : u = v
    /\ displaced # {} => MayDisplace
    /\ owners' = Append(owners, c.name)
    /\ running' = (running \ displaced) \cup {t}
    /\ Tell(t, waits, "open")
    /\ UNCHANGED left

Subscribe(c, t) ==
    t \in running /\ Tell(t, {c}, "open") /\ UNCHANGED <<owners, running, left>>

\* A result reaches everyone who waits and nobody else.
Answer(t) ==
    /\ t \in running
    /\ Tell(t, Waiting(t), "answered")
    /\ UNCHANGED <<owners, running, left>>

\* So does the news that the handler could not be launched, which is the end.
Fail(t) ==
    /\ t \in running
    /\ running' = running \ {t}
    /\ Tell(t, Waiting(t), "failed")
    /\ UNCHANGED <<owners, left>>

Unsubscribe(c, t) ==
    /\ told[t][c] # "none"
    /\ Tell(t, {c}, "none")
    /\ UNCHANGED <<owners, running, left>>

Leave(c) ==
    /\ told' = [t \in Tokens |-> [told[t] EXCEPT ![c] = "none"]]
    /\ left' = left \cup {c.name}
    /\ UNCHANGED <<owners, running>>

\* The intents of a name that left end together, and no others.
Collect(name) ==
    /\ name \in left
    /\ running' = {t \in running : owners[t] # name}
    /\ UNCHANGED <<owners, told, left>>

Restart == running' = {} /\ told' = Silence /\ left' = {} /\ UNCHANGED owners

Next ==
    \/ \E c \in Callers, waits \in SUBSET Callers, displaced \in SUBSET running :
           Start(c, waits, displaced)
    \/ \E c \in Callers, t \in Tokens : Subscribe(c, t) \/ Unsubscribe(c, t)
    \/ \E t \in Tokens : Answer(t) \/ Fail(t)
    \/ \E c \in Callers : Leave(c) \/ Collect(c.name)
    \/ Restart

Spec == Init /\ [][Next]_vars
===============================================================================
