--------------------------- MODULE DirectoryRecovery ---------------------------
(*****************************************************************************)
(* How the session directory recovers.  Services flap and may refuse a call, *)
(* a call may not even reach them, and the process may die: what does the    *)
(* program make of it when the dust settles?  SAM::onListApps and            *)
(* Account::onGetSessions only log an error, so a call that a running        *)
(* service refused is not repeated until the service restarts, and nobody    *)
(* repeats a status call that LSCall did not make: then no status ever comes *)
(* and nothing is ever asked.  These calls must be the only reason for an    *)
(* application that is not launchable.                                       *)
(*****************************************************************************)
EXTENDS SessionDirectory

VARIABLES
    accountDeclined,  \* history: the account service was up and refused getSessions,
                      \* and no news of it came since
    declined          \* history: sessions whose application manager was up and
                      \* refused listApps, or LSCall did, and no news of it came since

recoveryVars == <<vars, accountDeclined, declined>>

RecoveryInit == Init /\ accountDeclined = FALSE /\ declined = {}

\* The account service is asked for its sessions, and may refuse.
AccountAsked ==
    /\ AccountStatusChanged
    /\ accountDeclined' = (Head(accountStatus) /\ accountUp /\ ~getSessions'.served)
    /\ declined' = {}

\* An application manager is asked for its applications, unless it is being listened
\* to already, and may refuse.
ManagerAsked(s) ==
    /\ SamStatusChanged(s)
    /\ IF Head(sessions[s].status)
       THEN IF ~sessions[s].listApps.live /\ s \in samUp /\ ~sessions'[s].listApps.served
            THEN declined' = declined \cup {s}
            ELSE UNCHANGED declined
       ELSE declined' = declined \ {s}
    /\ UNCHANGED accountDeclined

SessionsListed ==
    /\ OnGetSessions
    /\ declined' = declined \cap DOMAIN sessions'
    /\ UNCHANGED accountDeclined

Reborn == Restart /\ accountDeclined' = FALSE /\ declined' = {}

Others ==
    /\ \/ \E s \in SessionIds : OnListApps(s) \/ SamGoes(s) \/ SamComes(s)
       \/ AccountGoes \/ AccountComes \/ UsersChange
       \/ Service
    /\ UNCHANGED <<accountDeclined, declined>>

RecoveryNext ==
    \/ AccountAsked
    \/ SessionsListed
    \/ \E s \in SessionIds : ManagerAsked(s)
    \/ Reborn
    \/ Others

RecoverySpec == RecoveryInit /\ [][RecoveryNext]_recoveryVars /\ Fairness

-----------------------------------------------------------------------------
\* A status call that leads to s was not made, and so nothing is told of its service.
Unwatched(s) ==
    \/ EnableSession /\ ~accountWatched
    \/ s \in DOMAIN sessions /\ ~sessions[s].watched

\* An installed application of a running session becomes launchable, whatever died
\* before and in whatever order the replies of the four calls that lead to it
\* arrive, unless a service that is up refused getSessions or listApps, or a call
\* was not made at all.  A refused call is made again after a restart of its service
\* or of the process, a status call that was not made only after one of the process
\* or, for an application manager, when its session is listed anew.
AppsBecomeLaunchable ==
    \A s \in SessionIds, app \in AppIds :
        Expected(s, app) ~> \/ app \in Filed(s)
                            \/ ~Expected(s, app)
                            \/ accountDeclined \/ s \in declined \/ Unwatched(s)
===============================================================================
