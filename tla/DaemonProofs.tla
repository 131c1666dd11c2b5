------------------------------ MODULE DaemonProofs ------------------------------
(*****************************************************************************)
(* Theorems about Daemon, for any number of respawns: no singleton is built  *)
(* twice, and no destructor calls one that is destroyed already.             *)
(*****************************************************************************)
EXTENDS Daemon, FiniteSetTheorems, SequenceTheorems, TLAPS

-----------------------------------------------------------------------------
\* What a queue of singletons holds, and what getInstance, Front and Last leave.
Holds(q, x) == \E i \in 1..Len(q) : q[i] = x

\* Every y of q has an x before it: x is destroyed later.
PrecedesIn(q, x, y) ==
    \A j \in 1..Len(q) : q[j] = y => \E i \in 1..Len(q) : i < j /\ q[i] = x

LEMMA HoldsMembers ==
    ASSUME NEW S, NEW q \in Seq(S), NEW x
    PROVE  x \in ToSet(q) <=> Holds(q, x)
  BY DEF ToSet, Holds

LEMMA GetInstanceType ==
    ASSUME NEW S, NEW q \in Seq(S), IsInjective(q), NEW x \in S
    PROVE  /\ GetInstance(q, x) \in Seq(S) /\ IsInjective(GetInstance(q, x))
           /\ \A y : Holds(GetInstance(q, x), y) <=> Holds(q, y) \/ y = x
  <1>1. CASE Holds(q, x)
    <2>1. GetInstance(q, x) = q
      BY <1>1, HoldsMembers DEF GetInstance
    <2> QED
      BY <1>1, <2>1
  <1>2. CASE ~Holds(q, x)
    <2> DEFINE a == Append(q, x)
    <2>1. GetInstance(q, x) = a
      BY <1>2, HoldsMembers DEF GetInstance
    <2>2. /\ a \in Seq(S) /\ Len(q) \in Nat /\ Len(a) = Len(q) + 1 /\ a[Len(q) + 1] = x
          /\ \A i \in 1..Len(q) : a[i] = q[i]
      OBVIOUS
    <2>3. DOMAIN a = 1..Len(a) /\ DOMAIN q = 1..Len(q)
      BY <2>2
    <2> HIDE DEF a
    <2>4. \A i \in 1..Len(a) : i = Len(q) + 1 \/ i \in 1..Len(q)
      BY <2>2
    <2>5. \A i \in 1..Len(q) : i \in 1..Len(a) /\ a[i] # x
      BY <1>2, <2>2 DEF Holds
    <2>6. IsInjective(a)
      <3> SUFFICES ASSUME NEW i \in 1..Len(a), NEW j \in 1..Len(a), a[i] = a[j] PROVE i = j
        BY <2>3 DEF IsInjective
      <3>1. \A k, m \in 1..Len(q) : q[k] = q[m] => k = m
        BY <2>3 DEF IsInjective
      <3> QED
        BY <2>2, <2>4, <2>5, <3>1
    <2>7. Len(q) + 1 \in 1..Len(a)
      BY <2>2
    <2>8. \A y : Holds(a, y) <=> Holds(q, y) \/ y = x
      BY <2>2, <2>4, <2>5, <2>7 DEF Holds
    <2> QED
      BY <2>1, <2>2, <2>6, <2>8
  <1> QED
    BY <1>1, <1>2

LEMMA GetInstanceOrder ==
    ASSUME NEW S, NEW q \in Seq(S), NEW x \in S, NEW first, NEW y,
           PrecedesIn(q, first, y), x = y => Holds(q, first) \/ Holds(q, y)
    PROVE  PrecedesIn(GetInstance(q, x), first, y)
  <1>1. CASE Holds(q, x)
    BY <1>1, HoldsMembers DEF GetInstance
  <1>2. CASE ~Holds(q, x)
    <2> DEFINE a == Append(q, x)
    <2>1. GetInstance(q, x) = a
      BY <1>2, HoldsMembers DEF GetInstance
    <2>2. /\ Len(q) \in Nat /\ Len(a) = Len(q) + 1 /\ a[Len(q) + 1] = x
          /\ \A i \in 1..Len(q) : a[i] = q[i]
      OBVIOUS
    <2> HIDE DEF a
    <2>3. \A i \in 1..Len(q) : i \in 1..Len(a) /\ i < Len(q) + 1
      BY <2>2
    <2> SUFFICES ASSUME NEW j \in 1..Len(a), a[j] = y
                 PROVE  \E i \in 1..Len(a) : i < j /\ a[i] = first
      BY <2>1 DEF PrecedesIn
    <2>4. CASE j = Len(q) + 1
      <3>1. x = y
        BY <2>2, <2>4
      <3>2. Holds(q, first)
        BY <1>2, <3>1
      <3> QED
        BY <2>2, <2>3, <2>4, <3>2 DEF Holds
    <2>5. CASE j # Len(q) + 1
      <3>1. j \in 1..Len(q)
        BY <2>2, <2>5
      <3>2. PICK i \in 1..Len(q) : i < j /\ q[i] = first
        BY <2>2, <3>1 DEF PrecedesIn
      <3> QED
        BY <2>2, <2>3, <3>2
    <2> QED
      BY <2>4, <2>5
  <1> QED
    BY <1>1, <1>2

LEMMA FrontType ==
    ASSUME NEW S, NEW q \in Seq(S), q # <<>>, IsInjective(q)
    PROVE  /\ Front(q) \in Seq(S) /\ IsInjective(Front(q))
           /\ \A x, y : PrecedesIn(q, x, y) => PrecedesIn(Front(q), x, y)
  <1> DEFINE f == Front(q)
  <1>1. Len(q) \in Nat \ {0}
    OBVIOUS
  <1>2. /\ f \in Seq(S) /\ Len(f) = Len(q) - 1
        /\ \A i \in 1..(Len(q) - 1) : f[i] = q[i]
    <2> DEFINE n == Len(q) - 1
    <2>1. n \in Nat /\ 1 \in Int /\ \A i \in 1..n : q[i] \in S
      BY <1>1
    <2>2. f = SubSeq(q, 1, n)
      BY DEF Front
    <2> HIDE DEF n, f
    <2>3. /\ f \in Seq(S) /\ Len(f) = IF 1 <= n THEN n - 1 + 1 ELSE 0
          /\ \A i \in 1..n - 1 + 1 : f[i] = q[1 + i - 1]
      BY <2>1, <2>2, SubSeqProperties
    <2>4. Len(f) = n /\ \A i \in 1..n : f[i] = q[i]
      BY <2>1, <2>3
    <2> QED
      BY <2>3, <2>4 DEF n
  <1>3. DOMAIN f = 1..Len(f) /\ DOMAIN q = 1..Len(q)
    BY <1>2
  <1> HIDE DEF f
  <1>4. \A i \in 1..Len(f) : i \in 1..Len(q) /\ f[i] = q[i]
    BY <1>1, <1>2
  <1>5. IsInjective(f)
    BY <1>3, <1>4 DEF IsInjective
  <1>6. ASSUME NEW x, NEW y, PrecedesIn(q, x, y), NEW j \in 1..Len(f), f[j] = y
        PROVE  \E i \in 1..Len(f) : i < j /\ f[i] = x
    <2>1. PICK i \in 1..Len(q) : i < j /\ q[i] = x
      BY <1>4, <1>6 DEF PrecedesIn
    <2>2. i \in 1..Len(f)
      BY <1>1, <1>2, <2>1
    <2> QED
      BY <1>4, <2>1, <2>2
  <1> QED
    BY <1>2, <1>5, <1>6 DEF PrecedesIn, f

LEMMA LastOfBuilt ==
    ASSUME NEW S, NEW q \in Seq(S), q # <<>>, NEW x, PrecedesIn(q, x, Last(q))
    PROVE  Holds(q, x)
  <1>1. Len(q) \in 1..Len(q) /\ Last(q) = q[Len(q)]
    BY DEF Last
  <1> QED
    BY <1>1 DEF PrecedesIn, Holds

-----------------------------------------------------------------------------
\* The signals in the order their handlers are installed, and the first n of them.
InOrder == Ignored \o Defaulted

Installed(n) == {InOrder[i] : i \in 1..n}

LEMMA OrderOfSignals ==
    /\ Len(InOrder) = 7
    /\ \A i \in 1..7 : InOrder[i] \in Signals
    /\ \A i, j \in 1..7 : InOrder[i] = InOrder[j] => i = j
  <1>1. /\ Len(InOrder) = 7
        /\ InOrder[1] = "HUP" /\ InOrder[2] = "INT" /\ InOrder[3] = "PIPE"
        /\ InOrder[4] = "TERM" /\ InOrder[5] = "QUIT" /\ InOrder[6] = "ABRT"
        /\ InOrder[7] = "FPE"
    BY DEF InOrder, Ignored, Defaulted
  <1>2. \A i \in 1..7 : i = 1 \/ i = 2 \/ i = 3 \/ i = 4 \/ i = 5 \/ i = 6 \/ i = 7
    OBVIOUS
  <1>3. /\ Ignored[1] = "HUP" /\ Ignored[2] = "INT" /\ Ignored[3] = "PIPE"
        /\ Defaulted[1] = "TERM" /\ Defaulted[2] = "QUIT" /\ Defaulted[3] = "ABRT"
        /\ Defaulted[4] = "FPE" /\ DOMAIN Ignored = 1..3 /\ DOMAIN Defaulted = 1..4
    BY DEF Ignored, Defaulted
  <1>4. {"HUP", "INT", "PIPE", "TERM", "QUIT", "ABRT", "FPE"} \subseteq Signals
    BY <1>3 DEF Signals, ToSet
  <1>5. \A i \in 1..7 : InOrder[i] \in Signals
    BY <1>1, <1>2, <1>4
  <1>6. \A i, j \in 1..7 : InOrder[i] = InOrder[j] => i = j
    BY <1>1, <1>2
  <1> QED
    BY <1>1, <1>5, <1>6

\* The number of handlers installed says which they are.
LEMMA InstalledCount ==
    ASSUME NEW n \in 0..7
    PROVE  Cardinality(Installed(n)) = n /\ Installed(n) \subseteq Signals
  <1> DEFINE f == [i \in 1..n |-> InOrder[i]]
  <1>1. \A i \in 1..n : i \in 1..7
    OBVIOUS
  <1>2. f \in Bijection(1..n, Installed(n))
    <2>1. f \in [1..n -> Installed(n)] /\ \A i \in 1..n : f[i] = InOrder[i]
      BY DEF Installed
    <2> HIDE DEF f
    <2>2. IsInjective(f)
      BY <1>1, <2>1, OrderOfSignals DEF IsInjective
    <2>3. \A x \in Installed(n) : \E i \in 1..n : f[i] = x
      BY <2>1 DEF Installed
    <2> QED
      <3>1. f \in Injection(1..n, Installed(n))
        BY <2>1, <2>2 DEF Injection
      <3>2. f \in Surjection(1..n, Installed(n))
        BY <2>1, <2>3 DEF Surjection
      <3> QED
        BY <3>1, <3>2 DEF Bijection
  <1>3. IsFiniteSet(1..n) /\ Cardinality(1..n) = n
    <2>1. 1 \in Int /\ n \in Int /\ (IF 1 > n THEN 0 ELSE n - 1 + 1) = n
      OBVIOUS
    <2>2. IsFiniteSet(1..n) /\ Cardinality(1..n) = IF 1 > n THEN 0 ELSE n - 1 + 1
      BY <2>1, FS_Interval
    <2> QED
      BY <2>1, <2>2
  <1>4. Cardinality(Installed(n)) = Cardinality(1..n)
    BY <1>2, <1>3, FS_Bijection DEF ExistsBijection
  <1> QED
    BY <1>1, <1>3, <1>4, OrderOfSignals DEF Installed

-----------------------------------------------------------------------------
\* While main installs the handlers, those of the first signals are installed.
InstalledOK == pc = "signals" => \E n \in 0..6 : handled = Installed(n)

\* The process starts, the first time or again, with its types.
LEMMA FreshTypes ==
    /\ Init => TypeOK /\ InstalledOK
    /\ TypeOK /\ Respawn => TypeOK' /\ InstalledOK'
  <1>1. <<>> \in Seq(Singletons) /\ DOMAIN <<>> = {}
    OBVIOUS
  <1>2. IsInjective(<<>>)
    BY <1>1 DEF IsInjective
  <1>3. Installed(0) = {}
    BY DEF Installed
  <1>4. ASSUME Init PROVE TypeOK /\ InstalledOK
    <2>1. built \in Seq(Singletons) /\ IsInjective(built)
      BY <1>1, <1>2, <1>4 DEF Init
    <2>2. InstalledOK
      <3>1. 0 \in 0..6 /\ handled = Installed(0)
        BY <1>3, <1>4 DEF Init
      <3> QED
        BY <3>1 DEF InstalledOK
    <2>3. /\ pc \in Places /\ handled \subseteq Signals /\ got \subseteq Signals
          /\ running \in BOOLEAN /\ told \in BOOLEAN /\ calls \subseteq {"status", "getSessions"}
          /\ sessions \in BOOLEAN /\ intents \in BOOLEAN
          /\ ended \in {"no", "success", "failure"}
      BY <1>4 DEF Init, Places
    <2>4. respawns \in 0..MaxRespawns
      BY <1>4, RespawnAssumption DEF Init
    <2> QED
      BY <2>1, <2>2, <2>3, <2>4 DEF TypeOK
  <1>5. ASSUME TypeOK, Respawn PROVE TypeOK' /\ InstalledOK'
    <2>1. built' \in Seq(Singletons) /\ IsInjective(built')
      BY <1>1, <1>2, <1>5 DEF Respawn, Fresh
    <2>2. InstalledOK'
      BY <1>3, <1>5 DEF Respawn, Fresh, InstalledOK
    <2>3. respawns' \in 0..MaxRespawns
      BY <1>5, RespawnAssumption DEF Respawn, TypeOK
    <2> QED
      BY <1>5, <2>1, <2>2, <2>3 DEF Respawn, Fresh, TypeOK, Places
  <1> QED
    BY <1>4, <1>5

\* Main::initialize installs one handler after the other.
LEMMA TypeInstall ==
    ASSUME TypeOK, InstalledOK, InstallHandlers
    PROVE  /\ handled' \subseteq Signals /\ pc' \in {"signals", "conf"}
           /\ InstalledOK'
  <1>1. pc = "signals"
    BY DEF InstallHandlers, At
  <1>2. PICK n \in 0..6 : handled = Installed(n)
    BY <1>1 DEF InstalledOK
  <1>3. n \in 0..7 /\ n + 1 \in 1..7
    OBVIOUS
  <1>4. Cardinality(handled) = n
    BY <1>2, <1>3, InstalledCount
  <1>5. /\ handled' = handled \cup {InOrder[n + 1]}
        /\ IF n + 1 = 7 THEN pc' = "conf" ELSE pc' = "signals"
    BY <1>4, OrderOfSignals DEF InstallHandlers, InOrder, Goto
  <1>6. handled' = Installed(n + 1)
    <2>1. \A i : i \in 1..(n + 1) <=> i \in 1..n \/ i = n + 1
      OBVIOUS
    <2> QED
      BY <1>2, <1>5, <2>1 DEF Installed
  <1>7. InstalledOK'
    BY <1>5, <1>6 DEF InstalledOK
  <1> QED
    BY <1>3, <1>5, <1>7, OrderOfSignals DEF TypeOK

\* Singletons that are asked for are built, in any order, and at most once.
LEMMA BuiltType ==
    ASSUME TypeOK, NEW x \in Singletons
    PROVE  GetInstance(built, x) \in Seq(Singletons) /\ IsInjective(GetInstance(built, x))
  BY GetInstanceType DEF TypeOK

LEMMA BuiltTwoType ==
    ASSUME TypeOK, NEW x \in Singletons, NEW y \in Singletons
    PROVE  LET q == GetInstance(GetInstance(built, x), y) IN
           q \in Seq(Singletons) /\ IsInjective(q)
  <1> DEFINE q == GetInstance(built, x)
  <1>1. q \in Seq(Singletons) /\ IsInjective(q)
    BY BuiltType
  <1> HIDE DEF q
  <1>2. GetInstance(q, y) \in Seq(Singletons) /\ IsInjective(GetInstance(q, y))
    BY <1>1, GetInstanceType
  <1> QED
    BY <1>2 DEF q

\* Every step keeps the types.
LEMMA TypeNext == TypeOK /\ InstalledOK /\ [Next]_vars => TypeOK' /\ InstalledOK'
  <1> SUFFICES ASSUME TypeOK, InstalledOK, [Next]_vars PROVE TypeOK' /\ InstalledOK'
    OBVIOUS
  <1>0. {"MainDaemon", "ConfFile", "IntentManager", "Account", "Handlers", "Intents"} = Singletons
    BY DEF Singletons
  <1>1. CASE InstallHandlers
    <2>1. UNCHANGED <<running, built, calls, sessions, intents, ended, got, told, respawns>>
      BY <1>1 DEF InstallHandlers
    <2> QED
      BY <1>1, <2>1, TypeInstall DEF TypeOK, Places
  <1>2. CASE InitializeConf
    <2>1. built' \in Seq(Singletons) /\ IsInjective(built')
      BY <1>0, <1>2, BuiltTwoType DEF InitializeConf
    <2> QED
      BY <1>2, <2>1 DEF InitializeConf, TypeOK, Places, InstalledOK, Goto
  <1>3. ASSUME NEW registered \in BOOLEAN, InitializeManager(registered)
        PROVE  TypeOK' /\ InstalledOK'
    <2>1. built' \in Seq(Singletons) /\ IsInjective(built')
      BY <1>0, <1>3, BuiltType DEF InitializeManager, TypeOK
    <2> QED
      BY <1>3, <2>1 DEF InitializeManager, TypeOK, Places, InstalledOK, Goto
  <1>4. ASSUME NEW asked \in BOOLEAN, NEW enableSession \in BOOLEAN,
               InitializeAccount(asked, enableSession)
        PROVE  TypeOK' /\ InstalledOK'
    <2>1. built' \in Seq(Singletons) /\ IsInjective(built')
      BY <1>0, <1>4, BuiltType DEF InitializeAccount
    <2> QED
      BY <1>4, <2>1 DEF InitializeAccount, TypeOK, Places, InstalledOK, Goto
  <1>5. CASE Run \/ LeaveLoop
    BY <1>5 DEF Run, LeaveLoop, TypeOK, Places, InstalledOK, Goto
  <1>6. ASSUME NEW used \in {"Handlers", "Intents"}, Serve(used)
        PROVE  TypeOK' /\ InstalledOK'
    <2>1. built' \in Seq(Singletons) /\ IsInjective(built')
      BY <1>0, <1>6, BuiltType DEF Serve
    <2> QED
      BY <1>6, <2>1 DEF Serve, TypeOK, InstalledOK
  <1>t. CASE GetSessionsThrows
    <2>1. built' \in Seq(Singletons) /\ IsInjective(built')
      BY <1>0, <1>t, BuiltType DEF GetSessionsThrows, TypeOK
    <2>2. pc' \in {"loop", "finalizeAccount"} /\ ended' \in {"no", "failure"}
      BY <1>t DEF GetSessionsThrows, LeaveByException, At, Goto
    <2> QED
      BY <1>t, <2>1, <2>2 DEF GetSessionsThrows, TypeOK, Places, InstalledOK
  <1>u. ASSUME NEW used \in {"Handlers", "Intents"}, RespondThrows(used)
        PROVE  TypeOK' /\ InstalledOK'
    <2>1. built' \in Seq(Singletons) /\ IsInjective(built')
      BY <1>0, <1>u, BuiltType DEF RespondThrows
    <2>2. pc' \in {"loop", "finalizeAccount"} /\ ended' \in {"no", "failure"}
      BY <1>u DEF RespondThrows, LeaveByException, At, Goto
    <2> QED
      BY <1>u, <2>1, <2>2 DEF RespondThrows, TypeOK, Places, InstalledOK
  <1>7. ASSUME NEW listing \in BOOLEAN, AccountChanges(listing)
        PROVE  TypeOK' /\ InstalledOK'
    <2>1. built' \in Seq(Singletons) /\ IsInjective(built')
      BY <1>0, <1>7, BuiltType DEF AccountChanges, TypeOK
    <2> QED
      BY <1>7, <2>1 DEF AccountChanges, TypeOK, InstalledOK
  <1>8. CASE FinalizeAccount
    <2>1. built' \in Seq(Singletons) /\ IsInjective(built')
      BY <1>0, <1>8, BuiltType, BuiltTwoType DEF FinalizeAccount
    <2> QED
      BY <1>8, <2>1 DEF FinalizeAccount, TypeOK, Places, InstalledOK, Goto
  <1>9. ASSUME NEW registered \in BOOLEAN, FinalizeManager(registered)
        PROVE  TypeOK' /\ InstalledOK'
    <2>1. built' \in Seq(Singletons) /\ IsInjective(built')
      BY <1>0, <1>9, BuiltType DEF FinalizeManager, TypeOK
    <2> QED
      BY <1>9, <2>1 DEF FinalizeManager, TypeOK, Places, InstalledOK, Goto, At
  <1>10. CASE Destroy
    <2>1. built' \in Seq(Singletons) /\ IsInjective(built')
      BY <1>10, FrontType DEF Destroy, TypeOK
    <2> QED
      BY <1>10, <2>1 DEF Destroy, TypeOK, Places, InstalledOK
  <1>11. ASSUME NEW signal \in Signals, Signal(signal)
         PROVE  TypeOK' /\ InstalledOK'
    <2>1. built' \in Seq(Singletons) /\ IsInjective(built')
      BY <1>0, <1>11, BuiltType DEF Signal, TypeOK
    <2>2. ended' \in {"no", "success", "failure"} /\ running' \in BOOLEAN
      BY <1>11 DEF Signal, TypeOK
    <2> QED
      BY <1>11, <2>1, <2>2 DEF Signal, TypeOK, InstalledOK
  <1>12. CASE Respawn
    BY <1>12, FreshTypes
  <1>13. CASE UNCHANGED vars
    BY <1>13 DEF vars, TypeOK, InstalledOK
  <1> QED
    BY <1>1, <1>2, <1>3, <1>4, <1>5, <1>6, <1>7, <1>8, <1>9, <1>10, <1>11, <1>12, <1>13,
        <1>t, <1>u
       DEF Next, Main

\* In every reachable state each variable has its type, and no singleton is built
\* twice, whatever asks for it first: main, a request or a signal.
THEOREM LifeTypeCorrect == Spec => []TypeOK
  BY FreshTypes, TypeNext, PTL DEF Spec

-----------------------------------------------------------------------------
\* Where main has not asked for Account yet, and where Account has been finalized.
Early == {"signals", "conf", "manager", "account"}

Late == {"finalizeManager", "return"}

\* Until Account is asked for nothing is called, and it is asked for only after
\* IntentManager was built; then Account finds its calls answered, or there are none.
AccountOK ==
    /\ pc \in Early => calls = {} /\ ~Holds(built, "Account")
    /\ pc = "account" => Holds(built, "IntentManager")
    /\ calls # {} /\ pc # "return" => Holds(built, "Account")
    /\ calls # {} => PrecedesIn(built, "IntentManager", "Account")

\* Account is finalized before main returns, and intents are started by requests
\* IntentManager serves.
LifeOK ==
    /\ AccountOK
    /\ pc \in Late => ~sessions
    /\ PrecedesIn(built, "IntentManager", "Intents")

\* The invariant is what the destructors need.
LEMMA LifeSuffices == TypeOK /\ LifeOK => DestructorsFindTheirSingletons
  <1> SUFFICES ASSUME TypeOK, LifeOK, pc = "return", built # <<>>
               PROVE  UsedToDestroy(Last(built)) \subseteq ToSet(built)
    BY DEF DestructorsFindTheirSingletons
  <1>1. built \in Seq(Singletons) /\ ~sessions
    BY DEF TypeOK, LifeOK, Late
  <1>2. ASSUME PrecedesIn(built, "IntentManager", Last(built))
        PROVE  "IntentManager" \in ToSet(built)
    BY <1>1, <1>2, LastOfBuilt, HoldsMembers
  <1>3. CASE Last(built) = "Account"
    <2>1. UsedToDestroy(Last(built)) = IF calls # {} THEN {"IntentManager"} ELSE {}
      BY <1>1, <1>3 DEF UsedToDestroy
    <2>2. calls # {} => PrecedesIn(built, "IntentManager", Last(built))
      BY <1>3 DEF LifeOK, AccountOK
    <2> QED
      BY <1>2, <2>1, <2>2
  <1>4. CASE Last(built) = "Intents"
    <2>1. UsedToDestroy(Last(built)) \subseteq {"IntentManager"}
      BY <1>4 DEF UsedToDestroy
    <2>2. PrecedesIn(built, "IntentManager", Last(built))
      BY <1>4 DEF LifeOK
    <2> QED
      BY <1>2, <2>1, <2>2
  <1>5. CASE Last(built) # "Account" /\ Last(built) # "Intents"
    BY <1>5 DEF UsedToDestroy
  <1> QED
    BY <1>3, <1>4, <1>5

\* What the invariant says of the singletons, of a queue of them.
IntentsOK(q) == PrecedesIn(q, "IntentManager", "Intents")
CallsOK(q)   == Holds(q, "Account") /\ PrecedesIn(q, "IntentManager", "Account")

\* Asking for a singleton other than Intents keeps the order, and Intents may be asked
\* for when IntentManager is there.
LEMMA AskKeeps ==
    ASSUME NEW q \in Seq(Singletons), IsInjective(q), NEW x \in Singletons
    PROVE  LET b == GetInstance(q, x) IN
           /\ b \in Seq(Singletons) /\ IsInjective(b)
           /\ \A y : Holds(b, y) <=> Holds(q, y) \/ y = x
           /\ IntentsOK(q) /\ (x = "Intents" => Holds(q, "IntentManager")) => IntentsOK(b)
           /\ CallsOK(q) => CallsOK(b)
  <1> DEFINE b == GetInstance(q, x)
  <1>1. /\ b \in Seq(Singletons) /\ IsInjective(b)
        /\ \A y : Holds(b, y) <=> Holds(q, y) \/ y = x
    BY GetInstanceType
  <1>2. ASSUME IntentsOK(q), x = "Intents" => Holds(q, "IntentManager") PROVE IntentsOK(b)
    BY <1>2, GetInstanceOrder DEF IntentsOK
  <1>3. ASSUME CallsOK(q) PROVE CallsOK(b)
    <2>1. PrecedesIn(b, "IntentManager", "Account")
      BY <1>3, GetInstanceOrder DEF CallsOK
    <2> QED
      BY <1>1, <1>3, <2>1 DEF CallsOK
  <1> QED
    BY <1>1, <1>2, <1>3

\* LifeOK by those parts.
LEMMA LifeParts ==
    LifeOK <=> /\ IntentsOK(built) /\ (pc \in Late => ~sessions)
               /\ pc \in Early => calls = {} /\ ~Holds(built, "Account")
               /\ pc = "account" => Holds(built, "IntentManager")
               /\ calls # {} /\ pc # "return" => CallsOK(built)
               /\ calls # {} => PrecedesIn(built, "IntentManager", "Account")
  BY DEF LifeOK, AccountOK, IntentsOK, CallsOK

\* The process starts with nothing built.
LEMMA FreshLife == (Init => LifeOK) /\ (Respawn => LifeOK')
  <1>1. Len(<<>>) = 0 /\ \A i : i \notin 1..0
    OBVIOUS
  <1>2. \A x, y : ~Holds(<<>>, x) /\ PrecedesIn(<<>>, x, y)
    BY <1>1 DEF Holds, PrecedesIn
  <1>3. Init => LifeOK
    BY <1>2 DEF Init, LifeOK, AccountOK, Late
  <1>4. Respawn => LifeOK'
    BY <1>2 DEF Respawn, Fresh, LifeOK, AccountOK, Late
  <1> QED
    BY <1>3, <1>4

\* Every step keeps the order of construction.
LEMMA LifeNext == TypeOK /\ LifeOK /\ [Next]_vars => LifeOK'
  <1> SUFFICES ASSUME TypeOK, LifeOK, [Next]_vars PROVE LifeOK'
    OBVIOUS
  <1>0. /\ built \in Seq(Singletons) /\ IsInjective(built)
        /\ {"MainDaemon", "ConfFile", "IntentManager", "Account", "Handlers", "Intents"} = Singletons
    BY DEF TypeOK, Singletons
  <1> DEFINE Ask(x) == GetInstance(built, x)
  <1>a. /\ IntentsOK(built) /\ (pc \in Late => ~sessions)
        /\ pc \in Early => calls = {} /\ ~Holds(built, "Account")
        /\ pc = "account" => Holds(built, "IntentManager")
        /\ calls # {} /\ pc # "return" => CallsOK(built)
        /\ calls # {} => PrecedesIn(built, "IntentManager", "Account")
    BY LifeParts
  <1>b. ASSUME IntentsOK(built'), pc' \in Late => ~sessions',
               pc' \in Early => calls' = {} /\ ~Holds(built', "Account"),
               pc' = "account" => Holds(built', "IntentManager"),
               calls' # {} /\ pc' # "return" => CallsOK(built'),
               calls' # {} => PrecedesIn(built', "IntentManager", "Account")
        PROVE  LifeOK'
    BY <1>b DEF LifeOK, AccountOK, IntentsOK, CallsOK
  <1>c. ASSUME NEW x \in Singletons
        PROVE  /\ \A y : Holds(Ask(x), y) <=> Holds(built, y) \/ y = x
               /\ IntentsOK(built) /\ (x = "Intents" => Holds(built, "IntentManager"))
                     => IntentsOK(Ask(x))
               /\ CallsOK(built) => CallsOK(Ask(x))
    BY <1>0, AskKeeps
  <1>d. CallsOK(built') => PrecedesIn(built', "IntentManager", "Account")
    BY DEF CallsOK
  <1> HIDE DEF Ask
  <1>1. CASE InstallHandlers \/ Run \/ LeaveLoop
    <2>1. /\ UNCHANGED <<built, calls, sessions>>
          /\ \/ pc = "signals" /\ pc' \in {"signals", "conf"}
             \/ pc = "run" /\ pc' = "loop"
             \/ pc = "loop" /\ pc' = "finalizeAccount"
      BY <1>1 DEF InstallHandlers, Run, LeaveLoop, At, Goto
    <2> QED
      BY <1>a, <1>b, <2>1 DEF Early, Late
  <1>2. CASE InitializeConf
    <2> DEFINE q == Ask("MainDaemon")
    <2>1. /\ pc = "conf" /\ pc' = "manager" /\ UNCHANGED <<calls, sessions>>
          /\ built' = GetInstance(q, "ConfFile")
      BY <1>2 DEF InitializeConf, At, Goto, Ask
    <2>2. q \in Seq(Singletons) /\ IsInjective(q)
      BY <1>0, BuiltType DEF Ask
    <2>3. IntentsOK(q) /\ ~Holds(q, "Account")
      BY <1>0, <1>a, <1>c, <2>1 DEF Early
    <2> HIDE DEF q
    <2>4. IntentsOK(built') /\ ~Holds(built', "Account")
      BY <1>0, <2>1, <2>2, <2>3, AskKeeps
    <2> QED
      BY <1>a, <1>b, <2>1, <2>4 DEF Early, Late
  <1>3. ASSUME NEW registered \in BOOLEAN, InitializeManager(registered)
        PROVE  LifeOK'
    <2>1. /\ pc = "manager" /\ UNCHANGED <<calls, sessions>>
          /\ \/ built' = Ask("IntentManager") /\ pc' = "account"
             \/ built' = built /\ pc' = "run"
      BY <1>3 DEF InitializeManager, At, Goto, Ask
    <2>2. /\ IntentsOK(Ask("IntentManager")) /\ ~Holds(Ask("IntentManager"), "Account")
          /\ Holds(Ask("IntentManager"), "IntentManager")
      BY <1>0, <1>a, <1>c, <2>1 DEF Early
    <2> QED
      BY <1>a, <1>b, <2>1, <2>2 DEF Early, Late
  <1>4. ASSUME NEW asked \in BOOLEAN, NEW enableSession \in BOOLEAN,
               InitializeAccount(asked, enableSession)
        PROVE  LifeOK'
    <2>1. pc = "account" /\ pc' = "run" /\ built' = GetInstance(built, "Account")
      BY <1>4 DEF InitializeAccount, At, Goto
    <2>2. PrecedesIn(built, "IntentManager", "Account") /\ Holds(built, "IntentManager")
      BY <1>a, <2>1 DEF Early, PrecedesIn, Holds
    <2>3. PrecedesIn(built', "IntentManager", "Account")
      BY <1>0, <2>1, <2>2, GetInstanceOrder
    <2>4. IntentsOK(built') /\ Holds(built', "Account")
      BY <1>0, <1>a, <1>c, <2>1 DEF Ask
    <2> QED
      BY <1>b, <2>1, <2>3, <2>4 DEF Early, Late, CallsOK
  <1>5. ASSUME NEW used \in {"Handlers", "Intents"}, Serve(used)
        PROVE  LifeOK'
    <2>1. /\ pc = "loop" /\ UNCHANGED <<pc, calls, sessions>>
          /\ built' = Ask(used) /\ "IntentManager" \in ToSet(built)
      BY <1>5 DEF Serve, At, Ask, Has
    <2>2. Holds(built, "IntentManager") /\ used \in Singletons
      BY <1>0, <2>1, HoldsMembers
    <2>3. IntentsOK(built') /\ (CallsOK(built) => CallsOK(built'))
      BY <1>a, <1>c, <2>1, <2>2
    <2> QED
      BY <1>a, <1>b, <1>d, <2>1, <2>3 DEF Early, Late
  <1>t. CASE GetSessionsThrows
    <2>1. /\ pc = "loop" /\ pc' \in {"loop", "finalizeAccount"} /\ calls # {}
          /\ built' = Ask("Handlers") \/ built' = built
      BY <1>t DEF GetSessionsThrows, LeaveByException, At, Ask, Goto
    <2>2. IntentsOK(built') /\ CallsOK(built')
      BY <1>0, <1>a, <1>c, <2>1
    <2> QED
      BY <1>b, <1>d, <2>1, <2>2 DEF Early, Late
  <1>u. ASSUME NEW used \in {"Handlers", "Intents"}, RespondThrows(used)
        PROVE  LifeOK'
    <2>1. /\ pc = "loop" /\ pc' \in {"loop", "finalizeAccount"}
          /\ UNCHANGED <<calls, sessions>>
          /\ built' = Ask(used) /\ "IntentManager" \in ToSet(built)
      BY <1>u DEF RespondThrows, LeaveByException, At, Ask, Has, Goto
    <2>2. Holds(built, "IntentManager") /\ used \in Singletons
      BY <1>0, <2>1, HoldsMembers
    <2>3. IntentsOK(built') /\ (CallsOK(built) => CallsOK(built'))
      BY <1>a, <1>c, <2>1, <2>2
    <2> QED
      BY <1>a, <1>b, <1>d, <2>1, <2>3 DEF Early, Late
  <1>6. ASSUME NEW listing \in BOOLEAN, AccountChanges(listing)
        PROVE  LifeOK'
    <2>1. /\ pc = "loop" /\ pc' = pc /\ calls # {}
          /\ built' = Ask("Handlers") \/ built' = built
      BY <1>6 DEF AccountChanges, At, Ask
    <2>2. IntentsOK(built') /\ CallsOK(built')
      BY <1>0, <1>a, <1>c, <2>1
    <2> QED
      BY <1>b, <1>d, <2>1, <2>2 DEF Early, Late
  <1>7. CASE FinalizeAccount
    <2> DEFINE account == Ask("Account")
    <2>1. /\ pc = "finalizeAccount" /\ pc' = "finalizeManager" /\ ~sessions'
          /\ built' = account \/ built' = GetInstance(account, "Handlers")
          /\ calls' # {} => calls # {}
      BY <1>7 DEF FinalizeAccount, At, Goto, Ask
    <2>2. account \in Seq(Singletons) /\ IsInjective(account)
      BY <1>0, BuiltType DEF Ask
    <2>3. IntentsOK(account) /\ (calls # {} => CallsOK(account))
      BY <1>0, <1>a, <1>c, <2>1
    <2> HIDE DEF account
    <2>4. IntentsOK(built') /\ (calls # {} => CallsOK(built'))
      BY <1>0, <2>1, <2>2, <2>3, AskKeeps
    <2> QED
      BY <1>b, <1>d, <2>1, <2>4 DEF Early, Late
  <1>8. ASSUME NEW registered \in BOOLEAN, FinalizeManager(registered)
        PROVE  LifeOK'
    <2>1. /\ pc = "finalizeManager" /\ UNCHANGED <<calls, sessions>>
          /\ \/ built' = Ask("IntentManager") /\ pc' = "return"
             \/ built' = built /\ pc' = pc
      BY <1>8 DEF FinalizeManager, At, Goto, Ask
    <2>2. IntentsOK(built') /\ (calls # {} => CallsOK(built'))
      BY <1>0, <1>a, <1>c, <2>1
    <2> QED
      BY <1>a, <1>b, <1>d, <2>1, <2>2 DEF Early, Late
  <1>9. CASE Destroy
    <2>1. /\ pc = "return" /\ UNCHANGED <<pc, calls, sessions>>
          /\ \/ built' = built
             \/ built # <<>> /\ built' = Front(built)
      BY <1>9 DEF Destroy, At
    <2>2. /\ PrecedesIn(built, "IntentManager", "Intents") =>
                PrecedesIn(built', "IntentManager", "Intents")
          /\ PrecedesIn(built, "IntentManager", "Account") =>
                PrecedesIn(built', "IntentManager", "Account")
      BY <1>0, <2>1, FrontType
    <2> QED
      BY <1>a, <1>b, <2>1, <2>2 DEF Early, Late, IntentsOK
  <1>10. ASSUME NEW signal \in Signals, Signal(signal)
         PROVE  LifeOK'
    <2>1. /\ UNCHANGED <<pc, calls, sessions>>
          /\ \/ built' = built
             \/ pc # "return" /\ built' = Ask("MainDaemon")
      BY <1>10 DEF Signal, Ask
    <2>2. /\ IntentsOK(built') /\ (CallsOK(built) => CallsOK(built'))
          /\ Holds(built', "Account") <=> Holds(built, "Account")
          /\ Holds(built, "IntentManager") => Holds(built', "IntentManager")
      BY <1>0, <1>a, <1>c, <2>1
    <2> QED
      BY <1>a, <1>b, <1>d, <2>1, <2>2
  <1>11. CASE UNCHANGED vars
    BY <1>11, <1>a, <1>b DEF vars
  <1>12. CASE Respawn
    BY <1>12, FreshLife
  <1> QED
    BY <1>1, <1>2, <1>3, <1>4, <1>5, <1>6, <1>7, <1>8, <1>9, <1>10, <1>11, <1>12, <1>t, <1>u
       DEF Next, Main

\* In every reachable state what the next destructor calls into still exists: every
\* order in which main, the requests and the signals can build the singletons puts
\* IntentManager before those whose destructor needs it.
THEOREM DestructorsAreSafe == Spec => []DestructorsFindTheirSingletons
  BY FreshTypes, TypeNext, FreshLife, LifeNext, LifeSuffices, PTL DEF Spec

================================================================================
