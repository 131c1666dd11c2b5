-------------------------------- MODULE Daemon --------------------------------
(*****************************************************************************)
(* The life of the process: Main, core/MainDaemon, interface/IInitializable, *)
(* and the singletons (interface/ISingleton), which are built when they are  *)
(* first asked for and destroyed in reverse order when main returns.         *)
(*                                                                           *)
(* `pc` is where main is; a signal may come between any two steps.  The      *)
(* handler logs and allocates, which a signal must not do in the middle of a *)
(* log or an allocation; the model leaves that moment out.                   *)
(*****************************************************************************)
EXTENDS Integers, Sequences, FiniteSets, SequencesExt

CONSTANT MaxRespawns   \* bound: times systemd starts the process again

ASSUME RespawnAssumption == MaxRespawns \in Nat

VARIABLES
    pc,         \* the call main is about to make
    handled,    \* signals whose handler is installed
    running,    \* GMainLoop::is_running
    built,      \* the singletons, oldest first
    calls,      \* the live calls of Account: "status", "getSessions"
    sessions,   \* Account::m_sessions is not empty
    intents,    \* Intents::m_intents is not empty
    ended,      \* "no", or how the process ended as systemd sees it
    got,        \* history: signals delivered to this process
    told,       \* history: a handler asked the loop to stop since it runs
    respawns    \* history

vars == <<pc, handled, running, built, calls, sessions, intents, ended, got,
          told, respawns>>

\* The signals in the order main installs them: first those of the comment "we
\* will ignore this signal", then those of "we don't change the default action".
Ignored   == <<"HUP", "INT", "PIPE">>
Defaulted == <<"TERM", "QUIT", "ABRT", "FPE">>
Signals   == ToSet(Ignored) \cup ToSet(Defaulted)

\* By default all of them end the process; systemd calls an end by the first set
\* of these a success.
CleanSignals == {"HUP", "INT", "PIPE", "TERM"}

Has(x) == x \in ToSet(built)

\* A slip.
BuiltAgain(q, x) == Append(q, x)

\* ISingleton::getInstance: what is built is found again.
GetInstance(q, x) == IF x \in ToSet(q) THEN q ELSE Append(q, x)

-----------------------------------------------------------------------------
Fresh ==
    /\ pc' = "signals" /\ handled' = {} /\ running' = FALSE /\ built' = <<>>
    /\ calls' = {} /\ sessions' = FALSE /\ intents' = FALSE
    /\ ended' = "no" /\ got' = {} /\ told' = FALSE

Init ==
    /\ pc = "signals" /\ handled = {} /\ running = FALSE /\ built = <<>>
    /\ calls = {} /\ sessions = FALSE /\ intents = FALSE
    /\ ended = "no" /\ got = {} /\ told = FALSE /\ respawns = 0

\* g_main_loop_run forgets what was asked of the loop before it.
BeforeLoop == {"signals", "conf", "manager", "account", "run"}

At(label) == pc = label /\ ended = "no"

Goto(label) == pc' = label

InstallHandlers ==
    /\ At("signals")
    /\ LET order == Ignored \o Defaulted
           next  == order[Cardinality(handled) + 1]
       IN /\ handled' = handled \cup {next}
          /\ IF Cardinality(handled) + 1 = Len(order)
             THEN Goto("conf") ELSE Goto("signals")
    /\ UNCHANGED <<running, built, calls, sessions, intents, ended, got, told,
                   respawns>>

\* MainDaemon::initialize.  What ConfFile finds is no failure.
InitializeConf ==
    /\ At("conf")
    /\ built' = GetInstance(GetInstance(built, "MainDaemon"), "ConfFile")
    /\ Goto("manager")
    /\ UNCHANGED <<handled, running, calls, sessions, intents, ended, got, told,
                   respawns>>

\* IntentManager registers on the bus when it is built; when that throws,
\* initialize goes no further, and main goes on.
InitializeManager(registered) ==
    /\ At("manager")
    /\ IF registered
       THEN built' = GetInstance(built, "IntentManager") /\ Goto("account")
       ELSE UNCHANGED built /\ Goto("run")
    /\ UNCHANGED <<handled, running, calls, sessions, intents, ended, got, told,
                   respawns>>

\* With sessions Account asks for the status of its service and may be refused,
\* which nobody looks at; without, it makes the one session.
InitializeAccount(asked, enableSession) ==
    /\ At("account")
    /\ built' = GetInstance(built, "Account")
    /\ calls' = IF enableSession /\ asked THEN {"status"} ELSE {}
    /\ sessions' = ~enableSession
    /\ Goto("run")
    /\ UNCHANGED <<handled, running, intents, ended, got, told, respawns>>

\* g_main_loop_run sets is_running, whatever was asked before.
Run ==
    /\ At("run")
    /\ running' = TRUE
    /\ Goto("loop")
    /\ UNCHANGED <<handled, built, calls, sessions, intents, ended, got, told,
                   respawns>>

\* Requests and replies of the application managers look handlers and intents up,
\* and start adds intents.
Serve(used) ==
    /\ At("loop") /\ running /\ Has("IntentManager")
    /\ built' = GetInstance(built, used)
    /\ intents' \in IF used = "Intents" THEN BOOLEAN ELSE {intents}
    /\ UNCHANGED <<pc, handled, running, calls, sessions, ended, got, told,
                   respawns>>

\* The account service comes, lists sessions and goes; a session that is
\* destroyed asks for Handlers.
AccountChanges(listing) ==
    /\ At("loop") /\ running /\ "status" \in calls
    /\ calls' = {"status"} \cup IF listing THEN {"getSessions"} ELSE {}
    /\ sessions' \in IF listing THEN BOOLEAN ELSE {FALSE}
    /\ built' = IF sessions THEN GetInstance(built, "Handlers") ELSE built
    /\ UNCHANGED <<pc, handled, running, intents, ended, got, told, respawns>>

\* What a callback throws leaves the loop: main catches it and finalizes, to end
\* as a success that systemd does not restart; or the build cannot unwind the
\* frames of GLib, and the process ends there.
LeaveByException ==
    \/ Goto("finalizeAccount") /\ UNCHANGED ended
    \/ ended' = "failure" /\ UNCHANGED pc

\* callMultiReply and respond report a failure by an exception: the first when
\* the account service comes, m_sessions being empty by then, the second at the
\* end of a request.
GetSessionsThrows ==
    /\ At("loop") /\ running /\ "status" \in calls
    /\ calls' = {"status"}
    /\ sessions' = FALSE
    /\ built' = IF sessions THEN GetInstance(built, "Handlers") ELSE built
    /\ LeaveByException
    /\ UNCHANGED <<handled, running, intents, got, told, respawns>>

RespondThrows(used) ==
    /\ At("loop") /\ running /\ Has("IntentManager")
    /\ built' = GetInstance(built, used)
    /\ intents' \in IF used = "Intents" THEN BOOLEAN ELSE {intents}
    /\ LeaveByException
    /\ UNCHANGED <<handled, running, calls, sessions, got, told, respawns>>


LeaveLoop ==
    /\ At("loop") /\ ~running
    /\ Goto("finalizeAccount")
    /\ UNCHANGED <<handled, running, built, calls, sessions, intents, ended, got, told,
                   respawns>>

\* A slip: Account::onFinalization without clearing m_sessions.
CancelOnly ==
    /\ At("finalizeAccount")
    /\ built' = GetInstance(built, "Account")
    /\ calls' = calls \ {"status"}
    /\ Goto("finalizeManager")
    /\ UNCHANGED <<handled, running, sessions, intents, ended, got, told, respawns>>

\* Account::onFinalization; getSessions stays until Account is destroyed.
FinalizeAccount ==
    /\ At("finalizeAccount")
    /\ LET account == GetInstance(built, "Account")
       IN built' = IF sessions THEN GetInstance(account, "Handlers") ELSE account
    /\ sessions' = FALSE
    /\ calls' = calls \ {"status"}
    /\ Goto("finalizeManager")
    /\ UNCHANGED <<handled, running, intents, ended, got, told, respawns>>

\* If IntentManager was never built it is now; an exception leaves main.
FinalizeManager(registered) ==
    /\ At("finalizeManager")
    /\ IF Has("IntentManager") \/ registered
       THEN /\ built' = GetInstance(built, "IntentManager")
            /\ Goto("return") /\ UNCHANGED ended
       ELSE ended' = "failure" /\ UNCHANGED <<built, pc>>
    /\ UNCHANGED <<handled, running, calls, sessions, intents, got, told, respawns>>

\* After ConfFile, which has nothing to finalize, main returns EXIT_SUCCESS and
\* the singletons are destroyed one by one.
Destroy ==
    /\ At("return")
    /\ IF built = <<>>
       THEN ended' = "success" /\ UNCHANGED built
       ELSE built' = Front(built) /\ UNCHANGED ended
    /\ UNCHANGED <<pc, handled, running, calls, sessions, intents, got, told, respawns>>

-----------------------------------------------------------------------------
\* signal_handler asks for MainDaemon and calls its stop, g_main_loop_quit on a
\* loop that may not run yet.  When MainDaemon is already destroyed the loop is
\* freed memory: nothing happens, or the process crashes.
Signal(signal) ==
    /\ ended = "no" /\ signal \notin got
    /\ got' = got \cup {signal}
    /\ IF signal \in handled
       THEN /\ running' = FALSE
            /\ told' = (told \/ pc \notin BeforeLoop)
            /\ built' = IF pc = "return" THEN built ELSE GetInstance(built, "MainDaemon")
            /\ ended' \in IF pc = "return" /\ built = <<>> THEN {"no", "failure"}
                                                           ELSE {"no"}
       ELSE /\ ended' = IF signal \in CleanSignals THEN "success" ELSE "failure"
            /\ UNCHANGED <<running, built, told>>
    /\ UNCHANGED <<pc, handled, calls, sessions, intents, respawns>>

\* Restart=on-failure.
Respawn ==
    /\ ended = "failure" /\ respawns < MaxRespawns
    /\ respawns' = respawns + 1
    /\ Fresh

-----------------------------------------------------------------------------
Main ==
    \/ InstallHandlers
    \/ InitializeConf
    \/ \E registered \in BOOLEAN :
          InitializeManager(registered) \/ FinalizeManager(registered)
    \/ \E asked, enableSession \in BOOLEAN : InitializeAccount(asked, enableSession)
    \/ Run
    \/ LeaveLoop
    \/ FinalizeAccount
    \/ Destroy

Next ==
    \/ Main
    \/ \E used \in {"Handlers", "Intents"} : Serve(used) \/ RespondThrows(used)
    \/ GetSessionsThrows
    \/ \E listing \in BOOLEAN : AccountChanges(listing)
    \/ \E signal \in Signals : Signal(signal)
    \/ Respawn

Spec == Init /\ [][Next]_vars

\* main keeps being scheduled; requests and signals may never come.
FairSpec == Spec /\ WF_vars(Main)

-----------------------------------------------------------------------------
(***************************************************************************)
(* What the component promises.                                            *)
(***************************************************************************)
Places == {"signals", "conf", "manager", "account", "run", "loop",
           "finalizeAccount", "finalizeManager", "return"}

Singletons == {"MainDaemon", "ConfFile", "IntentManager", "Account", "Handlers", "Intents"}

\* Every variable has its type, and no singleton is built twice.
TypeOK ==
    /\ pc \in Places
    /\ handled \subseteq Signals /\ got \subseteq Signals
    /\ running \in BOOLEAN /\ told \in BOOLEAN /\ calls \subseteq {"status", "getSessions"}
    /\ sessions \in BOOLEAN /\ intents \in BOOLEAN
    /\ built \in Seq(Singletons) /\ IsInjective(built)
    /\ ended \in {"no", "success", "failure"}
    /\ respawns \in 0..MaxRespawns

\* What the destructor of a singleton calls into.
UsedToDestroy(x) ==
    CASE x = "Account" -> (IF sessions THEN {"Handlers", "IntentManager"} ELSE {})
                          \cup (IF calls # {} THEN {"IntentManager"} ELSE {})
      [] x = "Intents" /\ intents -> {"IntentManager"}
      [] OTHER -> {}

\* No destructor calls a singleton that is destroyed already: the order of
\* construction depends on what the process got to do, and finalize has to have
\* emptied what the order would not protect (Handlers is built after Account).
DestructorsFindTheirSingletons ==
    pc = "return" /\ built # <<>> =>
        UsedToDestroy(Last(built)) \subseteq ToSet(built)

===============================================================================
