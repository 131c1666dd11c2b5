----------------------------- MODULE MatchingProofs -----------------------------
(*****************************************************************************)
(* Lemmas the theorems of the other proof modules share: the map operators   *)
(* and the keys of Matching, and queues of messages under way.               *)
(*****************************************************************************)
EXTENDS Matching, SequenceTheorems, WellFoundedInduction, TLAPS

-----------------------------------------------------------------------------
\* What the map operators leave: domains and values.
LEMMA PutIsMap ==
    ASSUME NEW f, NEW k, NEW v
    PROVE  /\ DOMAIN Put(f, k, v) = DOMAIN f \cup {k}
           /\ Put(f, k, v)[k] = v
           /\ \A x \in DOMAIN f : x # k => Put(f, k, v)[x] = f[x]
  BY DEF Put

\* erase leaves the other entries as they are.
LEMMA EraseIsMap ==
    ASSUME NEW f, NEW K
    PROVE  /\ DOMAIN Erase(f, K) = DOMAIN f \ K
           /\ \A x \in DOMAIN f \ K : Erase(f, K)[x] = f[x]
  BY DEF Erase, Restrict

-----------------------------------------------------------------------------
\* Of two fronts of a sequence the shorter is the beginning of the other.
LEMMA FrontsBegin ==
    ASSUME NEW S, NEW a \in Seq(S), NEW b \in Seq(S), NEW p \in Seq(S), NEW q \in Seq(S),
           a \o p = b \o q, Len(a) <= Len(b)
    PROVE  SubSeq(b, 1, Len(a)) = a
  <1>1. Len(a) \in Nat /\ Len(b) \in Nat /\ Len(p) \in Nat /\ Len(q) \in Nat
    OBVIOUS
  <1>2. \A i \in 1..Len(a) + Len(p) : (a \o p)[i] = IF i <= Len(a) THEN a[i] ELSE p[i - Len(a)]
    BY ConcatProperties, Zenon
  <1>3. \A i \in 1..Len(b) + Len(q) : (b \o q)[i] = IF i <= Len(b) THEN b[i] ELSE q[i - Len(b)]
    BY ConcatProperties, Zenon
  <1>4. ASSUME NEW i \in 1..Len(a)
        PROVE  a[i] = b[i]
    <2>1. i \in 1..Len(a) + Len(p) /\ i \in 1..Len(b) + Len(q) /\ i <= Len(a) /\ i <= Len(b)
      BY <1>1
    <2>2. (a \o p)[i] = a[i] /\ (b \o q)[i] = b[i]
      BY <1>2, <1>3, <2>1
    <2> QED
      BY <2>2
  <1> DEFINE front == SubSeq(b, 1, Len(a))
  <1>5. front \in Seq(S) /\ Len(front) = Len(a) /\ \A i \in 1..Len(a) : front[i] = b[i]
    BY <1>1
  <1> HIDE DEF front
  <1>6. front = a
    BY <1>4, <1>5, SeqEqual
  <1> QED
    BY <1>6 DEF front

\* Fronts of the same length are the same, and so is what follows.
LEMMA FrontsEqual ==
    ASSUME NEW S, NEW a \in Seq(S), NEW b \in Seq(S), NEW p \in Seq(S), NEW q \in Seq(S),
           a \o p = b \o q, Len(a) = Len(b)
    PROVE  a = b /\ p = q
  <1>1. Len(a) \in Nat /\ Len(b) \in Nat /\ Len(p) \in Nat /\ Len(q) \in Nat
    OBVIOUS
  <1>2. /\ Len(a \o p) = Len(a) + Len(p)
        /\ \A i \in 1..Len(a) + Len(p) : (a \o p)[i] = IF i <= Len(a) THEN a[i] ELSE p[i - Len(a)]
    BY ConcatProperties, Zenon
  <1>3. /\ Len(b \o q) = Len(b) + Len(q)
        /\ \A i \in 1..Len(b) + Len(q) : (b \o q)[i] = IF i <= Len(b) THEN b[i] ELSE q[i - Len(b)]
    BY ConcatProperties, Zenon
  <1>4. a = b
    <2>1. SubSeq(b, 1, Len(a)) = a
      <3>1. Len(a) <= Len(b)
        BY <1>1
      <3> QED
        BY <3>1, FrontsBegin
    <2>2. SubSeq(b, 1, Len(b)) = b
      OBVIOUS
    <2> QED
      BY <2>1, <2>2
  <1>5. Len(p) = Len(q)
    BY <1>1, <1>2, <1>3
  <1>6. ASSUME NEW i \in 1..Len(p)
        PROVE  p[i] = q[i]
    <2> DEFINE j == Len(a) + i
    <2>1. /\ j \in 1..Len(a) + Len(p) /\ j \in 1..Len(b) + Len(q) /\ ~(j <= Len(a))
          /\ ~(j <= Len(b)) /\ j - Len(a) = i /\ j - Len(b) = i
      BY <1>1, <1>5
    <2> HIDE DEF j
    <2>2. (a \o p)[j] = p[i] /\ (b \o q)[j] = q[i]
      BY <1>2, <1>3, <2>1
    <2> QED
      BY <2>2
  <1>7. p = q
    BY <1>5, <1>6, SeqEqual
  <1> QED
    BY <1>4, <1>7

\* So the fronts are the same where neither is the other continued.
LEMMA FrontsApart ==
    ASSUME NEW S, NEW a \in Seq(S), NEW b \in Seq(S), NEW p \in Seq(S), NEW q \in Seq(S),
           a \o p = b \o q, ~BeginsWith(a, b), ~BeginsWith(b, a)
    PROVE  a = b /\ p = q
  <1>1. Len(a) \in Nat /\ Len(b) \in Nat
    OBVIOUS
  <1>2. Len(a) <= Len(b) => SubSeq(b, 1, Len(a)) = a
    BY FrontsBegin
  <1>3. Len(b) <= Len(a) => SubSeq(a, 1, Len(b)) = b
    BY FrontsBegin
  <1>4. Len(a) = Len(b)
    BY <1>1, <1>2, <1>3 DEF BeginsWith
  <1> QED
    BY <1>4, FrontsEqual

\* Session and name can be read off a key, the underscores of both included, when no
\* session is called "host" and neither session is the other continued.
LEMMA KeyParts ==
    ASSUME NEW s, NEW n, NEW u, NEW v,
           n \in DOMAIN Split, v \in DOMAIN Split, "host" \in DOMAIN Split,
           s # "" => s \in DOMAIN Split, u # "" => u \in DOMAIN Split,
           s # "host", u # "host", ~Continues(s, u), ~Continues(u, s),
           ConvertKey(s, n) = ConvertKey(u, v)
    PROVE  s = u /\ n = v
  <1> DEFINE Front(x) == IF x = "" THEN "host" ELSE x
  <1>1. Front(s) \in DOMAIN Split /\ Front(u) \in DOMAIN Split
    OBVIOUS
  <1>2. \A x : SessionPart(x) = Split[Front(x)]
    BY DEF SessionPart
  <1> HIDE DEF Front
  <1>3. SessionPart(s) = SessionPart(u) /\ Split[n] = Split[v]
    <2>1. /\ SessionPart(s) \in Seq(STRING) /\ SessionPart(u) \in Seq(STRING)
          /\ Split[n] \in Seq(STRING) /\ Split[v] \in Seq(STRING)
      BY <1>1, <1>2, SplitAssumption
    <2>2. SessionPart(s) \o Split[n] = SessionPart(u) \o Split[v]
      BY DEF ConvertKey
    <2>3. /\ ~BeginsWith(SessionPart(s), SessionPart(u))
          /\ ~BeginsWith(SessionPart(u), SessionPart(s))
      BY DEF Continues
    <2> QED
      BY <2>1, <2>2, <2>3, FrontsApart
  <1>4. Front(s) = Front(u) /\ n = v
    BY <1>1, <1>2, <1>3, SplitAssumption DEF IsInjective
  <1> QED
    BY <1>4 DEF Front

-----------------------------------------------------------------------------
\* Queues, one at a time.
LEMMA TailOfQueue ==
    ASSUME NEW S, NEW q \in Seq(S), q # <<>>
    PROVE  /\ \A i \in 1..Len(Tail(q)) : Tail(q)[i] = q[i + 1] /\ i + 1 \in 1..Len(q)
           /\ Tail(q) # <<>> => Tail(q)[Len(Tail(q))] = q[Len(q)]
           /\ Tail(q) = <<>> => Head(q) = q[Len(q)]
  <1>1. Len(q) \in Nat \ {0}
    OBVIOUS
  <1>2. Tail(q) \in Seq(S) /\ Len(Tail(q)) = Len(q) - 1
    BY <1>1
  <1>3. \A i \in 1..(Len(q) - 1) : Tail(q)[i] = q[i + 1]
    OBVIOUS
  <1>4. Tail(q) = <<>> => Len(q) = 1
    <2> DEFINE rest == Tail(q)
    <2>1. Len(rest) = Len(q) - 1
      BY <1>2
    <2> HIDE DEF rest
    <2>2. rest = <<>> => Len(q) = 1
      BY <1>1, <2>1
    <2> QED
      BY <2>2 DEF rest
  <1>5. Tail(q) # <<>> => Len(q) - 1 \in 1..(Len(q) - 1)
    BY <1>1, <1>2
  <1>6. Head(q) = q[1]
    BY <1>1
  <1>7. Tail(q) # <<>> => Tail(q)[Len(Tail(q))] = q[Len(q)]
    <2>1. SUFFICES ASSUME Tail(q) # <<>> PROVE Tail(q)[Len(Tail(q))] = q[Len(q)]
      OBVIOUS
    <2>2. Tail(q)[Len(q) - 1] = q[(Len(q) - 1) + 1]
      BY <1>3, <1>5, <2>1
    <2>3. (Len(q) - 1) + 1 = Len(q)
      BY <1>1
    <2> QED
      BY <1>2, <2>2, <2>3
  <1> QED
    BY <1>1, <1>2, <1>3, <1>4, <1>6, <1>7

\* What an appended queue holds.
LEMMA AppendToQueue ==
    ASSUME NEW S, NEW q \in Seq(S), NEW e \in S
    PROVE  LET a == Append(q, e)
           IN /\ a # <<>> /\ a[Len(a)] = e
              /\ \A i \in 1..Len(a) : a[i] = e \/ (i \in 1..Len(q) /\ a[i] = q[i])
  <1> DEFINE a == Append(q, e)
  <1>1. /\ Len(q) \in Nat /\ Len(a) = Len(q) + 1 /\ a \in Seq(S)
        /\ a[Len(q) + 1] = e
        /\ \A i \in 1..Len(q) : a[i] = q[i]
    OBVIOUS
  <1> HIDE DEF a
  <1>2. a # <<>>
    BY <1>1
  <1>3. ASSUME NEW i \in 1..Len(a)
        PROVE  i = Len(q) + 1 \/ i \in 1..Len(q)
    BY <1>1
  <1> QED
    BY <1>1, <1>2, <1>3 DEF a

-----------------------------------------------------------------------------
\* A set of naturals has a smallest element.
LEMMA SmallestOf ==
    ASSUME NEW T, T \subseteq Nat, T # {}
    PROVE  \E x \in T : \A y \in T : x <= y
  <1> DEFINE Less == OpToRel(<, Nat)
  <1>1. \E x \in T : \A y \in T : ~(<<y, x>> \in Less)
    <2>1. IsWellFoundedOn(Less, Nat)
      BY NatLessThanWellFounded
    <2> HIDE DEF Less
    <2> QED
      BY <2>1, WFMin
  <1>2. \A x, y \in Nat : ~(<<y, x>> \in Less) => x <= y
    BY DEF OpToRel
  <1> QED
    BY <1>1, <1>2

\* Of some positions one is the last.
LEMMA LastOfPositions ==
    ASSUME NEW n \in Nat, NEW T, T \subseteq 1..n, T # {}
    PROVE  \E j \in T : \A m \in T : m <= j
  <1> DEFINE back == {n - j : j \in T}
  <1>1. back \subseteq Nat /\ back # {}
    <2>1. \A j \in T : n - j \in Nat
      OBVIOUS
    <2>2. PICK j \in T : TRUE
      OBVIOUS
    <2>3. n - j \in back
      OBVIOUS
    <2> QED
      BY <2>1, <2>3
  <1>2. \E b \in back : \A c \in back : b <= c
    <2> HIDE DEF back
    <2> QED
      BY <1>1, SmallestOf
  <1>3. PICK b \in back : \A c \in back : b <= c
    BY <1>2
  <1>4. PICK j \in T : b = n - j
    OBVIOUS
  <1>5. \A m \in T : n - m \in back
    OBVIOUS
  <1>6. \A m \in T : n - j <= n - m
    BY <1>3, <1>4, <1>5
  <1>7. \A m \in T : m <= j
    BY <1>6
  <1> QED
    BY <1>7
===============================================================================
