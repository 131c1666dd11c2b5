--------------------------- MODULE IntentRelayProofs ----------------------------
(*****************************************************************************)
(* Proofs about IntentRelay.  The argument rests on one fact about the       *)
(* conversions: what an Intent was read from may be anything, but reading    *)
(* what launch prints of it, and printing that, gives the same once more     *)
(* (Reprinted).  The rest follows the ids along the chains of relays.        *)
(* Then the two kinds of operators the conversions use, each against a       *)
(* definition that says what it computes: getValue and hasKey with several   *)
(* keys, and Uri::parse with the groups of its regular expression.           *)
(*****************************************************************************)
EXTENDS IntentRelay, TLAPS, SequenceTheorems, WellFoundedInduction

-----------------------------------------------------------------------------
(***************************************************************************)
(* Reading and printing.                                                   *)
(***************************************************************************)
\* What holds of every Intent that fromJson has read.
WellRead(i) == i.intentId \in Ints /\ (i.uri = NoUri \/ i.uri = Parse(i.uri.uri))

\* What getValue gives for a key that is there with the right type, and for one
\* that is not there, or not of this type.
LEMMA Readable1 ==
    ASSUME NEW json, NEW key, NEW type, NEW old, HasKey(json, key),
           type = At(json, key).kind, type # "any",
           type = "num" => At(json, key).val \in Ints
    PROVE  GetValue(json, key, type, old) = Found(At(json, key).val)
BY DEF GetValue

LEMMA Unreadable ==
    ASSUME NEW json, NEW key, NEW type, NEW old,
           ~HasKey(json, key) \/ type \notin {"any", At(json, key).kind}
    PROVE  GetValue(json, key, type, old).value = old
BY DEF GetValue, Unfound

\* An Intent that fromJson has read is well read; its id is the counter's unless the
\* document has a number for it.
LEMMA Reading ==
    ASSUME NEW doc, NEW n \in Ints
    PROVE  /\ WellRead(FromJson(FreshIntent(n), doc))
           /\ At(doc, "intentId").kind # "num" => FromJson(FreshIntent(n), doc).intentId = n
PROOF
<1> DEFINE id == GetValue(doc, "intentId", "num", n).value
           i  == FromJson(FreshIntent(n), doc)
<1>1. i.intentId = id
  BY DEF FromJson, FreshIntent
<1>2. id \in Ints
  BY IntsAssumption DEF GetValue, Found, Unfound
<1>3. At(doc, "intentId").kind # "num" => id = n
  BY Unreadable
<1>4. i.uri = NoUri \/ i.uri = Parse(AsString(At(doc, "uri")))
  BY DEF FromJson, FreshIntent
<1>5. \A str : Parse(str).uri = str
  BY DEF Parse
<1> QED
  BY <1>1, <1>2, <1>3, <1>4, <1>5 DEF WellRead

\* The keys of the parameters, and what is there.
LEMMA Params ==
    ASSUME NEW i
    PROVE  /\ \A k : HasKey(LaunchParams(i), k) <=> k \in Kept(i) \cup {"from", "intentId"}
           /\ \A k \in Kept(i) \cup {"intentId"} : At(LaunchParams(i), k) = Printed(i, k)
PROOF
<1> DEFINE keys == Kept(i) \cup {"from", "intentId"}
           json == [k \in Kept(i) |-> Printed(i, k)]
           what(k) == CASE k = "from"     -> Str(<<>>)
                        [] k = "intentId" -> Num(i.intentId)
                        [] OTHER          -> json[k]
           val == [k \in keys |-> what(k)]
           doc == LaunchParams(i)
<1>1. doc.kind = "obj" /\ doc.val = val
  BY DEF LaunchParams, ToJson, Obj
<1>2. "from" \notin Kept(i) \cup {"intentId"}
  BY DEF Kept, Texts
<1>3. DOMAIN val = keys /\ \A k \in keys : val[k] = what(k)
  OBVIOUS
<1>4. \A k : HasKey(doc, k) <=> k \in keys
  BY <1>1, <1>3 DEF HasKey
<1>5. ASSUME NEW k \in Kept(i) \cup {"intentId"} PROVE At(doc, k) = Printed(i, k)
  <2>1. HasKey(doc, k) /\ k \in keys /\ k # "from"
    BY <1>2, <1>4
  <2>2. At(doc, k) = what(k)
    BY <2>1, <1>1, <1>3 DEF At
  <2>3. CASE k = "intentId"
    BY <2>2, <2>3 DEF Printed, Texts
  <2>4. CASE k # "intentId"
    <3>1. what(k) = json[k] /\ k \in Kept(i)
      BY <2>1, <2>4
    <3> QED
      BY <2>2, <3>1
  <2> QED
    BY <2>3, <2>4
<1> QED
  BY <1>4, <1>5

\* Reading what launch prints gives the fields back; of an extra, what is printed.
LEMMA ReadBack ==
    ASSUME NEW i, WellRead(i), NEW n, NEW j, j = FromJson(FreshIntent(n), LaunchParams(i))
    PROVE  /\ j.intentId = i.intentId
           /\ \A k \in Texts : j[k] = i[k]
           /\ j.uri = i.uri
           /\ "extra" \in Kept(i) => j.extra = i.extra
           /\ "extra" \notin Kept(i) => j.extra = Obj(<<>>)
PROOF
<1> DEFINE doc == LaunchParams(i)
<1>1. /\ \A k : HasKey(doc, k) <=> k \in Kept(i) \cup {"from", "intentId"}
      /\ \A k \in Kept(i) \cup {"intentId"} : At(doc, k) = Printed(i, k)
  BY Params
<1>2. /\ j.intentId = GetValue(doc, "intentId", "num", n).value
      /\ j.extra = GetValue(doc, "extra", "any", Obj(<<>>)).value
      /\ j.uri = IF HasKey(doc, "uri") THEN Parse(AsString(At(doc, "uri"))) ELSE NoUri
  BY DEF FromJson, FreshIntent
<1>3. \A k \in Texts : j[k] = GetValue(doc, k, "str", <<>>).value
  BY DEF FromJson, FreshIntent, Texts
<1> HIDE DEF doc
<1>4. j.intentId = i.intentId
  <2>1. At(doc, "intentId") = Num(i.intentId) /\ HasKey(doc, "intentId")
    BY <1>1 DEF Printed, Texts
  <2>2. GetValue(doc, "intentId", "num", n) = Found(i.intentId)
    BY <2>1, Readable1 DEF Num, WellRead
  <2> QED
    BY <2>2, <1>2 DEF Found
<1>5. ASSUME NEW k \in Texts PROVE j[k] = i[k]
  <2>1. CASE i[k] # <<>>
    <3>1. k \in Kept(i)
      BY <2>1 DEF Kept
    <3>2. At(doc, k) = Printed(i, k) /\ HasKey(doc, k)
      BY <3>1, <1>1
    <3>3. Printed(i, k) = Str(i[k])
      BY DEF Printed, Texts
    <3>4. GetValue(doc, k, "str", <<>>) = Found(i[k])
      BY <3>2, <3>3, Readable1 DEF Str
    <3> QED
      BY <3>4, <1>3 DEF Found
  <2>2. CASE i[k] = <<>>
    <3>1. k \notin Kept(i) \cup {"from", "intentId"}
      BY <2>2 DEF Kept, Texts
    <3> QED
      BY <3>1, <1>1, <1>3, <2>2, Unreadable
  <2> QED
    BY <2>1, <2>2
<1>6. j.uri = i.uri
  <2>1. CASE i.uri.empty
    <3>1. i.uri = NoUri
      BY <2>1 DEF WellRead, Parse
    <3>2. "uri" \notin Kept(i) \cup {"from", "intentId"}
      BY <2>1 DEF Kept, Texts
    <3> QED
      BY <3>1, <3>2, <1>1, <1>2
  <2>2. CASE ~i.uri.empty
    <3>1. i.uri = Parse(i.uri.uri)
      BY <2>2 DEF WellRead, NoUri
    <3>2. "uri" \in Kept(i)
      BY <2>2 DEF Kept
    <3>3. At(doc, "uri") = Str(i.uri.uri) /\ HasKey(doc, "uri")
      BY <3>2, <1>1 DEF Printed, Texts
    <3>4. AsString(At(doc, "uri")) = i.uri.uri
      BY <3>3 DEF AsString, Str
    <3> QED
      BY <3>1, <3>3, <3>4, <1>2
  <2> QED
    BY <2>1, <2>2
<1>7. "extra" \in Kept(i) => j.extra = i.extra
  <2> SUFFICES ASSUME "extra" \in Kept(i) PROVE j.extra = i.extra
    OBVIOUS
  <2>1. At(doc, "extra") = i.extra /\ HasKey(doc, "extra")
    BY <1>1 DEF Printed, Texts
  <2> QED
    BY <2>1, <1>2 DEF GetValue, Found
<1>8. "extra" \notin Kept(i) => j.extra = Obj(<<>>)
  <2> SUFFICES ASSUME "extra" \notin Kept(i) PROVE j.extra = Obj(<<>>)
    OBVIOUS
  <2>1. ~HasKey(doc, "extra")
    BY <1>1
  <2> QED
    BY <2>1, <1>2, Unreadable
<1> QED
  BY <1>4, <1>5, <1>6, <1>7, <1>8

\* What is printed of an Intent read from launch's parameters is the same again.
LEMMA Reprinted ==
    ASSUME NEW i, WellRead(i), NEW n, NEW j, j = FromJson(FreshIntent(n), LaunchParams(i))
    PROVE  LaunchParams(j) = LaunchParams(i) /\ j.intentId = i.intentId
PROOF
<1>1. /\ j.intentId = i.intentId
      /\ \A k \in Texts : j[k] = i[k]
      /\ j.uri = i.uri
      /\ "extra" \in Kept(i) => j.extra = i.extra
      /\ "extra" \notin Kept(i) => j.extra = Obj(<<>>)
  BY ReadBack
<1>2. "extra" \in Kept(j) <=> "extra" \in Kept(i)
  <2>1. \A x : "extra" \in Kept(x) <=> x.extra.kind = "obj" /\ DOMAIN x.extra.val # {}
    BY DEF Kept, Texts
  <2>2. ~(Obj(<<>>).kind = "obj" /\ DOMAIN Obj(<<>>).val # {})
    BY DEF Obj
  <2> QED
    BY <1>1, <2>1, <2>2
<1>3. Kept(j) = Kept(i)
  BY <1>1, <1>2 DEF Kept
<1>4. ASSUME NEW k \in Kept(i) \cup {"from", "intentId"}, k # "from"
      PROVE  Printed(j, k) = Printed(i, k)
  <2>1. k \in Texts \cup {"intentId", "extra", "uri", "parsedUri"}
    BY <1>4 DEF Kept
  <2>2. CASE k \in Texts
    BY <2>2, <1>1 DEF Printed
  <2>3. CASE k = "extra"
    BY <2>3, <1>4, <1>1 DEF Printed, Texts
  <2>4. CASE k \in {"intentId", "uri", "parsedUri"}
    BY <2>4, <1>1 DEF Printed, Texts
  <2> QED
    BY <2>1, <2>2, <2>3, <2>4
<1>5. ASSUME NEW x, NEW y, Kept(x) = Kept(y), x.intentId = y.intentId,
             \A k \in Kept(x) : Printed(x, k) = Printed(y, k)
      PROVE  LaunchParams(x) = LaunchParams(y)
  BY <1>5, Zenon DEF LaunchParams, ToJson
<1>6. \A k \in Kept(j) : Printed(j, k) = Printed(i, k)
  <2>1. "from" \notin Kept(i)
    BY DEF Kept, Texts
  <2> QED
    BY <2>1, <1>3, <1>4
<1> QED
  BY <1>1, <1>3, <1>5, <1>6

-----------------------------------------------------------------------------
(***************************************************************************)
(* The inductive invariant.                                                *)
(***************************************************************************)
\* What a start with this counter and this document makes of it.
Made(n, doc) == FromJson(FreshIntent(n), doc)

\* What a launch carries comes from what was asked for, and from the launch it relays.
Chained(t) ==
    LET l == launches[t] IN
    /\ \E n \in 0..s_counter :
          l.id = Made(n, l.asked).intentId /\ l.params = LaunchParams(Made(n, l.asked))
    /\ l.from \in 0..t-1 /\ l.root \in 1..t
    /\ l.from = 0 => l.root = t
    /\ l.from # 0 => /\ l.root = launches[l.from].root
                     /\ l.id = launches[l.from].id
                     /\ l.params = launches[l.from].params
    /\ ChoseId(t) \/ l.id \in 1..s_counter

\* The table holds the last start with each id that was not removed, with its own
\* subscribers.
Entry(t) == [start |-> t, subscribers |-> OwnSubscribers(t, launches[t].subscribes)]

Filed ==
    /\ removed \subseteq DOMAIN launches
    /\ \A id \in DOMAIN intents :
          \E t \in DOMAIN launches : IsLatest(t, id) /\ t \notin removed /\ intents[id] = Entry(t)
    /\ \A t \in DOMAIN launches :
          IsLatest(t, launches[t].id) /\ t \notin removed => launches[t].id \in DOMAIN intents

IsLog == \E S : launches \in Seq(S)

IInv ==
    /\ s_counter \in 0..MaxIds
    /\ IsLog
    /\ \A t \in DOMAIN launches : Chained(t)
    /\ Filed
    /\ ChainsApart

LEMMA Appended ==
    ASSUME NEW log, \E S : log \in Seq(S), NEW r
    PROVE  /\ \E S : Append(log, r) \in Seq(S)
           /\ Len(log) \in Nat
           /\ DOMAIN log = 1..Len(log)
           /\ DOMAIN Append(log, r) = 1..Len(log) + 1
           /\ \A t \in 1..Len(log) : Append(log, r)[t] = log[t]
           /\ Append(log, r)[Len(log) + 1] = r
PROOF
<1>1. PICK S : log \in Seq(S)
  OBVIOUS
<1>2. log \in Seq(S \cup {r}) /\ r \in S \cup {r}
  BY <1>1
<1>3. Append(log, r) \in Seq(S \cup {r}) /\ Len(Append(log, r)) = Len(log) + 1
  BY <1>2, AppendProperties
<1> QED
  BY <1>1, <1>2, <1>3, AppendProperties, LenProperties

\* The step of an accepted start.
LEMMA AcceptedKeeps ==
    ASSUME IInv, NEW doc, NEW from,
           from = 0 \/ (from \in DOMAIN launches /\ doc = launches[from].params),
           NEW subscribes \in BOOLEAN, Start(doc, from, TRUE, subscribes)
    PROVE  IInv'
PROOF
<1>0. PICK t : t = Len(launches) + 1
  OBVIOUS
<1> DEFINE made == Made(s_counter + 1, doc)
           root == IF from = 0 THEN t ELSE launches[from].root
           l == [id |-> made.intentId, asked |-> doc, params |-> LaunchParams(made),
                 subscribes |-> subscribes, from |-> from, root |-> root]
           entry == [start |-> t, subscribers |-> OwnSubscribers(t, subscribes)]
<1>1. /\ s_counter < MaxIds /\ s_counter' = s_counter + 1
      /\ launches' = Append(launches, l)
      /\ intents' = [k \in DOMAIN intents \cup {made.intentId} |->
                        IF k = made.intentId THEN entry ELSE intents[k]]
      /\ removed' = removed
  BY <1>0 DEF Start, Made
<1> HIDE DEF l
<1>2. /\ IsLog' /\ Len(launches) \in Nat
      /\ DOMAIN launches = 1..Len(launches) /\ DOMAIN launches' = 1..t
      /\ \A u \in DOMAIN launches : launches'[u] = launches[u]
      /\ launches'[t] = l
  <2>1. \E S : launches \in Seq(S)
    BY DEF IInv, IsLog
  <2>2. /\ \E S : Append(launches, l) \in Seq(S)
        /\ Len(launches) \in Nat
        /\ DOMAIN launches = 1..Len(launches)
        /\ DOMAIN Append(launches, l) = 1..Len(launches) + 1
        /\ \A u \in 1..Len(launches) : Append(launches, l)[u] = launches[u]
        /\ Append(launches, l)[Len(launches) + 1] = l
    BY <2>1, Appended
  <2>3. launches' = Append(launches, l)
    BY <1>1
  <2> QED
    BY <2>2, <2>3, <1>0 DEF IsLog
<1>3. s_counter + 1 \in Ints /\ s_counter' \in 0..MaxIds /\ s_counter \in Nat
  BY <1>1, RelayAssumption DEF IInv
<1>4. /\ made.intentId \in Ints
      /\ At(doc, "intentId").kind # "num" => made.intentId = s_counter + 1
  BY <1>3, Reading DEF Made, WellRead
<1>5. ASSUME from # 0
      PROVE  /\ from \in DOMAIN launches
             /\ made.intentId = launches[from].id
             /\ LaunchParams(made) = launches[from].params
  <2>1. from \in DOMAIN launches /\ doc = launches[from].params
    BY <1>5
  <2>2. PICK n \in 0..s_counter :
            /\ launches[from].id = Made(n, launches[from].asked).intentId
            /\ launches[from].params = LaunchParams(Made(n, launches[from].asked))
    BY <2>1 DEF IInv, Chained
  <2>3. n \in Ints
    BY <1>3, RelayAssumption DEF IInv
  <2>4. WellRead(Made(n, launches[from].asked))
    BY <2>3, Reading DEF Made
  <2> QED
    BY <2>1, <2>2, <2>4, Reprinted DEF Made
<1> HIDE DEF made
<1>l. /\ l.id = made.intentId /\ l.asked = doc /\ l.params = LaunchParams(made)
      /\ l.from = from /\ l.root = root /\ l.subscribes = subscribes
  BY DEF l
<1>6. \A u \in DOMAIN launches : launches[u].root \in DOMAIN launches
  BY <1>2 DEF IInv, Chained
<1>7. \A u \in DOMAIN launches : ChoseId(u)' = ChoseId(u)
  BY <1>2, <1>6 DEF ChoseId
<1>8. ASSUME from # 0 PROVE ChoseId(t)' = ChoseId(from)
  BY <1>2, <1>5, <1>6, <1>8, <1>l DEF ChoseId
<1>9. ASSUME from = 0, ~ChoseId(t)' PROVE made.intentId = s_counter + 1
  BY <1>2, <1>4, <1>9, <1>l DEF ChoseId
<1>10. t \in 1..t /\ root \in 1..t
  BY <1>0, <1>2, <1>5, <1>6
<1>11. ASSUME NEW u \in DOMAIN launches' PROVE Chained(u)'
  <2>1. CASE u \in DOMAIN launches
    <3>1. Chained(u)
      BY <2>1 DEF IInv
    <3>2. launches[u].from # 0 => launches[u].from \in DOMAIN launches
      BY <3>1, <2>1, <1>2 DEF Chained
    <3> QED
      BY <3>1, <3>2, <2>1, <1>1, <1>2, <1>3, <1>7 DEF Chained
  <2>2. CASE u = t
    <3>1. \E n \in 0..s_counter' :
             /\ l.id = Made(n, l.asked).intentId
             /\ l.params = LaunchParams(Made(n, l.asked))
      <4>1. s_counter + 1 \in 0..s_counter'
        BY <1>1, <1>3
      <4> QED
        BY <4>1, <1>l DEF made
    <3>2. l.from \in 0..t-1
      BY <1>0, <1>2, <1>5, <1>l
    <3>3. l.from # 0 => /\ l.root = launches'[l.from].root
                        /\ l.id = launches'[l.from].id
                        /\ l.params = launches'[l.from].params
      BY <1>2, <1>5, <1>l
    <3>4. ChoseId(t)' \/ l.id \in 1..s_counter'
      <4>1. CASE from = 0
        BY <4>1, <1>9, <1>1, <1>3, <1>l
      <4>2. CASE from # 0
        <5>1. ChoseId(from) \/ launches[from].id \in 1..s_counter
          BY <4>2, <1>5 DEF IInv, Chained
        <5> QED
          BY <5>1, <4>2, <1>5, <1>8, <1>1, <1>3, <1>l
      <4> QED
        BY <4>1, <4>2
    <3> QED
      BY <2>2, <3>1, <3>2, <3>3, <3>4, <1>2, <1>10, <1>l DEF Chained
  <2> QED
    BY <2>1, <2>2, <1>0, <1>2
<1>12. Filed'
  <2>1. t \notin DOMAIN launches /\ t \notin removed /\ \A u \in DOMAIN launches : u <= t
    BY <1>0, <1>2 DEF IInv, Filed
  <2>2. \A u \in DOMAIN launches : Entry(u)' = Entry(u)
    BY <1>2 DEF Entry
  <2>3. Entry(t)' = entry
    BY <1>2, <1>l DEF Entry
  <2>4. \A id : id = made.intentId => IsLatest(t, id)'
    BY <1>0, <1>2, <1>l, <2>1 DEF IsLatest
  <2>5. ASSUME NEW u \in DOMAIN launches, NEW id, id # made.intentId
        PROVE  IsLatest(u, id)' <=> IsLatest(u, id)
    <3>1. \A v \in 1..t : v \in DOMAIN launches \/ v = t
      BY <1>0, <1>2
    <3>2. \A v \in DOMAIN launches : v \in 1..t
      BY <1>0, <1>2
    <3> QED
      BY <1>2, <1>l, <2>5, <3>1, <3>2 DEF IsLatest
  <2>6. ASSUME NEW id \in DOMAIN intents'
        PROVE  \E u \in DOMAIN launches' :
                  IsLatest(u, id)' /\ u \notin removed' /\ intents'[id] = Entry(u)'
    <3>1. CASE id = made.intentId
      <4>1. intents'[id] = entry
        BY <1>1, <3>1
      <4> QED
        BY <1>1, <1>2, <1>10, <2>1, <2>3, <2>4, <3>1, <4>1
    <3>2. CASE id # made.intentId
      <4>1. id \in DOMAIN intents /\ intents'[id] = intents[id]
        BY <1>1, <3>2
      <4>2. PICK u \in DOMAIN launches :
               IsLatest(u, id) /\ u \notin removed /\ intents[id] = Entry(u)
        BY <4>1 DEF IInv, Filed
      <4>3. u \in DOMAIN launches'
        BY <1>0, <1>2
      <4> QED
        BY <1>1, <2>2, <2>5, <3>2, <4>1, <4>2, <4>3
    <3> QED
      BY <3>1, <3>2
  <2>7. ASSUME NEW u \in DOMAIN launches', IsLatest(u, launches[u].id)', u \notin removed'
        PROVE  launches'[u].id \in DOMAIN intents'
    <3>1. CASE u = t
      BY <1>1, <1>2, <1>l, <3>1
    <3>2. CASE u # t
      <4>1. u \in DOMAIN launches /\ launches'[u] = launches[u]
        BY <1>0, <1>2, <3>2
      <4>2. CASE launches[u].id = made.intentId
        BY <1>1, <4>1, <4>2
      <4>3. CASE launches[u].id # made.intentId
        <5>1. IsLatest(u, launches[u].id)
          BY <2>5, <2>7, <4>1, <4>3
        <5> QED
          BY <1>1, <2>7, <4>1, <5>1 DEF IInv, Filed
      <4> QED
        BY <4>2, <4>3
    <3> QED
      BY <3>1, <3>2
  <2>8. removed' \subseteq DOMAIN launches'
    BY <1>0, <1>1, <1>2 DEF IInv, Filed
  <2> QED
    BY <2>6, <2>7, <2>8 DEF Filed
<1>13. ASSUME NEW u \in DOMAIN launches, l.id = launches[u].id, l.root # launches[u].root
       PROVE  ChoseId(t)' \/ ChoseId(u)'
  <2>1. CASE from = 0
    <3>1. ChoseId(u) \/ launches[u].id \in 1..s_counter
      BY DEF IInv, Chained
    <3> QED
      BY <3>1, <2>1, <1>13, <1>7, <1>9, <1>3, <1>l
  <2>2. CASE from # 0
    BY <2>2, <1>13, <1>5, <1>7, <1>8, <1>l DEF IInv, ChainsApart
  <2> QED
    BY <2>1, <2>2
<1>14. ChainsApart'
  <2>1. ASSUME NEW u \in DOMAIN launches', NEW v \in DOMAIN launches',
               launches'[u].id = launches'[v].id, launches'[u].root # launches'[v].root
        PROVE  ChoseId(u)' \/ ChoseId(v)'
    <3>1. CASE u \in DOMAIN launches /\ v \in DOMAIN launches
      BY <3>1, <2>1, <1>2, <1>7 DEF IInv, ChainsApart
    <3>2. CASE u = t /\ v \in DOMAIN launches
      BY <3>2, <2>1, <1>2, <1>13
    <3>3. CASE v = t /\ u \in DOMAIN launches
      BY <3>3, <2>1, <1>2, <1>13
    <3> QED
      BY <3>1, <3>2, <3>3, <2>1, <1>0, <1>2
  <2> QED
    BY <2>1 DEF ChainsApart
<1> QED
  BY <1>2, <1>3, <1>11, <1>12, <1>14 DEF IInv

\* The step of a refused start.
LEMMA RefusedKeeps ==
    ASSUME IInv, NEW doc, NEW from, NEW subscribes, Start(doc, from, FALSE, subscribes)
    PROVE  IInv'
PROOF
<1>1. s_counter < MaxIds /\ s_counter' = s_counter + 1 /\ UNCHANGED <<intents, launches, removed>>
  BY DEF Start
<1>2. s_counter' \in 0..MaxIds /\ s_counter \in 0..s_counter'
  BY <1>1, RelayAssumption DEF IInv
<1>3. \A t \in DOMAIN launches : Chained(t)'
  <2> SUFFICES ASSUME NEW t \in DOMAIN launches PROVE Chained(t)'
    OBVIOUS
  <2>1. Chained(t)
    BY DEF IInv
  <2>2. ChoseId(t)' = ChoseId(t)
    BY <1>1 DEF ChoseId
  <2> QED
    BY <2>1, <2>2, <1>1, <1>2 DEF Chained
<1>4. ChainsApart'
  BY <1>1 DEF IInv, ChainsApart, ChoseId
<1> QED
  BY <1>1, <1>2, <1>3, <1>4 DEF IInv, IsLog, Filed, Entry, IsLatest

\* The removal of intents.
LEMMA RemovalKeeps ==
    ASSUME IInv, NEW gone \in SUBSET DOMAIN intents, Remove(gone)
    PROVE  IInv'
PROOF
<1>1. /\ UNCHANGED <<s_counter, launches>>
      /\ intents' = [k \in DOMAIN intents \ gone |-> intents[k]]
      /\ removed' = removed \cup {intents[k].start : k \in gone}
  BY DEF Remove
<1>2. \A id \in DOMAIN intents :
         \E t \in DOMAIN launches : IsLatest(t, id) /\ t \notin removed /\ intents[id] = Entry(t)
  BY DEF IInv, Filed
<1>3. \A t : Entry(t)' = Entry(t) /\ Entry(t).start = t
  BY <1>1 DEF Entry
<1>4. \A t, id : (IsLatest(t, id)' <=> IsLatest(t, id)) /\ (IsLatest(t, id) => launches[t].id = id)
  BY <1>1 DEF IsLatest
<1>5. removed' \subseteq DOMAIN launches'
  BY <1>1, <1>2, <1>3 DEF IInv, Filed
<1>6. ASSUME NEW id \in DOMAIN intents'
      PROVE  \E t \in DOMAIN launches' :
                IsLatest(t, id)' /\ t \notin removed' /\ intents'[id] = Entry(t)'
  <2>1. id \in DOMAIN intents /\ id \notin gone /\ intents'[id] = intents[id]
    BY <1>1
  <2>2. PICK t \in DOMAIN launches : IsLatest(t, id) /\ t \notin removed /\ intents[id] = Entry(t)
    BY <1>2, <2>1
  <2>3. ASSUME NEW k \in gone, intents[k].start = t PROVE FALSE
    <3>1. PICK u \in DOMAIN launches : IsLatest(u, k) /\ intents[k] = Entry(u)
      BY <1>2
    <3>2. u = t
      BY <1>3, <2>3, <3>1
    <3>3. k = id
      BY <1>4, <2>2, <3>1, <3>2
    <3> QED
      BY <2>1, <3>3
  <2>4. t \notin removed'
    BY <1>1, <2>2, <2>3
  <2> QED
    BY <1>1, <1>3, <1>4, <2>1, <2>2, <2>4
<1>7. ASSUME NEW t \in DOMAIN launches', IsLatest(t, launches[t].id)', t \notin removed'
      PROVE  launches'[t].id \in DOMAIN intents'
  <2> DEFINE id == launches[t].id
  <2>1. IsLatest(t, id) /\ t \notin removed /\ t \in DOMAIN launches
    BY <1>1, <1>4, <1>7
  <2>2. id \in DOMAIN intents
    BY <2>1 DEF IInv, Filed
  <2>3. PICK u \in DOMAIN launches : IsLatest(u, id) /\ intents[id] = Entry(u)
    BY <1>2, <2>2
  <2>4. \A v \in DOMAIN launches : v \in Nat
    <3>1. PICK S : launches \in Seq(S)
      BY DEF IInv, IsLog
    <3> QED
      BY <3>1, LenProperties
  <2>5. u <= t /\ t <= u
    BY <2>1, <2>3 DEF IsLatest
  <2>6. u = t
    BY <2>1, <2>4, <2>5
  <2>7. id \notin gone
    BY <1>1, <1>3, <1>7, <2>3, <2>6
  <2> QED
    BY <1>1, <2>2, <2>7
<1>8. Filed'
  BY <1>5, <1>6, <1>7 DEF Filed
<1>9. ChainsApart' /\ \A t \in DOMAIN launches : Chained(t)'
  BY <1>1 DEF IInv, ChainsApart, ChoseId, Chained
<1> QED
  BY <1>1, <1>8, <1>9 DEF IInv, IsLog

LEMMA Invariance == Spec => []IInv
PROOF
<1>1. Init => IInv
  <2> SUFFICES ASSUME Init PROVE IInv
    OBVIOUS
  <2>1. launches \in Seq({}) /\ DOMAIN launches = {} /\ s_counter \in 0..MaxIds
    BY RelayAssumption DEF Init
  <2>2. removed = {} /\ DOMAIN intents = {}
    BY DEF Init
  <2> QED
    BY <2>1, <2>2 DEF IInv, IsLog, Filed, ChainsApart
<1>2. IInv /\ [Next]_vars => IInv'
  <2> SUFFICES ASSUME IInv, [Next]_vars PROVE IInv'
    OBVIOUS
  <2>1. ASSUME NEW doc \in Documents, Ask(doc) PROVE IInv'
    <3>1. PICK accepted, subscribes \in BOOLEAN : Start(doc, 0, accepted, subscribes)
      BY <2>1 DEF Ask
    <3> QED
      BY <3>1, AcceptedKeeps, RefusedKeeps
  <2>2. ASSUME NEW t \in DOMAIN launches, Relay(t) PROVE IInv'
    <3>1. PICK accepted, subscribes \in BOOLEAN :
             Start(launches[t].params, t, accepted, subscribes)
      BY <2>2 DEF Relay
    <3> QED
      BY <3>1, AcceptedKeeps, RefusedKeeps
  <2>3. CASE UNCHANGED vars
    <3>1. UNCHANGED <<s_counter, intents, launches, removed>>
      BY <2>3 DEF vars
    <3> QED
      BY <3>1 DEF IInv, IsLog, Filed, ChainsApart, ChoseId, Chained, Entry, IsLatest
  <2>4. ASSUME NEW gone \in SUBSET DOMAIN intents, Remove(gone) PROVE IInv'
    BY <2>4, RemovalKeeps
  <2> QED
    BY <2>1, <2>2, <2>3, <2>4 DEF Next
<1> QED
  BY <1>1, <1>2, PTL DEF Spec

-----------------------------------------------------------------------------
(***************************************************************************)
(* The theorems.                                                           *)
(***************************************************************************)
\* However long the chain of relays, the last handler gets what the first one got.
THEOREM RelaysKeepTheIntent == Spec => []RelayKeepsTheIntent
PROOF
<1>1. IInv => RelayKeepsTheIntent
  BY DEF IInv, Chained, RelayKeepsTheIntent
<1> QED
  BY <1>1, Invariance, PTL

\* Two chains of which none chose its id never share one.
THEOREM ChainsStayApart == Spec => []ChainsApart
PROOF
<1>1. IInv => ChainsApart
  BY DEF IInv
<1> QED
  BY <1>1, Invariance, PTL

\* What a handler answers with the id it was given reaches the last start of the chain
\* that launched it, and its requester only, unless an id was chosen; or nothing, when
\* that start was removed.
THEOREM AnswersArrive == Spec => []AnswersReachTheChain
PROOF
<1>1. IInv => AnswersReachTheChain
  <2> SUFFICES ASSUME IInv, NEW t \in DOMAIN launches,
                      NEW answer, answer = GetValue(launches[t].params, "intentId", "num", -1)
               PROVE  /\ answer.found /\ answer.value = launches[t].id
                      /\ \A last \in DOMAIN launches : IsLatest(last, launches[t].id) =>
                            /\ \/ ChoseId(t) \/ ChoseId(last)
                               \/ launches[last].root = launches[t].root
                            /\ launches[t].id \in DOMAIN intents <=> last \notin removed
                            /\ launches[t].id \in DOMAIN intents =>
                                  intents[launches[t].id] = Entry(last)
    BY DEF AnswersReachTheChain, Entry
  <2>1. PICK n \in 0..s_counter :
            /\ launches[t].id = Made(n, launches[t].asked).intentId
            /\ launches[t].params = LaunchParams(Made(n, launches[t].asked))
    BY DEF IInv, Chained
  <2> DEFINE i == Made(n, launches[t].asked)
  <2>2. n \in Ints
    BY RelayAssumption DEF IInv
  <2>3. i.intentId \in Ints
    BY <2>2, Reading DEF Made, WellRead
  <2>4. /\ HasKey(LaunchParams(i), "intentId")
        /\ At(LaunchParams(i), "intentId") = Num(i.intentId)
    <3>1. Printed(i, "intentId") = Num(i.intentId)
      BY DEF Printed, Texts
    <3> QED
      BY <3>1, Params
  <2>5. answer = Found(launches[t].id)
    BY <2>1, <2>3, <2>4, Readable1 DEF Num
  <2>6. answer.found /\ answer.value = launches[t].id
    BY <2>5 DEF Found
  <2> HIDE DEF i
  <2>7. ASSUME NEW last \in DOMAIN launches, IsLatest(last, launches[t].id)
        PROVE  /\ ChoseId(t) \/ ChoseId(last) \/ launches[last].root = launches[t].root
               /\ launches[t].id \in DOMAIN intents <=> last \notin removed
               /\ launches[t].id \in DOMAIN intents => intents[launches[t].id] = Entry(last)
    <3>1. launches[last].id = launches[t].id
      BY <2>7 DEF IsLatest
    <3>2. \A v \in DOMAIN launches : v \in Nat
      <4>1. PICK S : launches \in Seq(S)
        BY DEF IInv, IsLog
      <4> QED
        BY <4>1, LenProperties
    <3>3. ASSUME NEW u \in DOMAIN launches, IsLatest(u, launches[t].id) PROVE u = last
      <4>1. u <= last /\ last <= u
        BY <2>7, <3>3 DEF IsLatest
      <4> QED
        BY <3>2, <4>1
    <3>4. launches[t].id \in DOMAIN intents =>
             last \notin removed /\ intents[launches[t].id] = Entry(last)
      BY <3>3 DEF IInv, Filed
    <3>5. last \notin removed => launches[t].id \in DOMAIN intents
      BY <2>7, <3>1 DEF IInv, Filed
    <3> QED
      BY <3>1, <3>4, <3>5 DEF IInv, ChainsApart
  <2> QED
    BY <2>6, <2>7
<1> QED
  BY <1>1, Invariance, PTL

-----------------------------------------------------------------------------
(***************************************************************************)
(* Access along a path of keys.                                            *)
(***************************************************************************)
\* A path of keys leads to one value at most.
LEMMA StepsTo ==
    ASSUME NEW json, NEW key
    PROVE  /\ HasKey(json, key) => Step({json}, key) = {At(json, key)}
           /\ ~HasKey(json, key) => Step({json}, key) = {}
           /\ Step({}, key) = {}
BY DEF Step

LEMMA NothingThere == \A type : Agrees(type, Unfound(7), {})
  BY DEF Agrees, Unfound

\* getValue with one key.
LEMMA OneKey ==
    ASSUME NEW json, NEW key, NEW type \in {"any", "num", "str", "bool"}
    PROVE  Agrees(type, GetValue(json, key, type, 7), Step({json}, key))
PROOF
<1>1. CASE ~HasKey(json, key)
  <2>1. GetValue(json, key, type, 7) = Unfound(7) /\ Step({json}, key) = {}
    BY <1>1, StepsTo DEF GetValue
  <2> QED
    BY <2>1, NothingThere
<1>2. CASE HasKey(json, key)
  <2> DEFINE item == At(json, key)
             got  == GetValue(json, key, type, 7)
  <2>1. Step({json}, key) = {item}
    BY <1>2, StepsTo
  <2>2. /\ type \notin {"any", item.kind} => got = Unfound(7)
        /\ type = "any" => got = Found(item)
        /\ type = "num" /\ type = item.kind =>
              got = IF item.val \notin Ints THEN Unfound(0) ELSE Found(item.val)
        /\ type \in {"str", "bool"} /\ type = item.kind => got = Found(item.val)
    BY <1>2 DEF GetValue
  <2> HIDE DEF item, got
  <2>3. Agrees(type, got, {item}) <=>
          IF Readable(item, type)
          THEN got.found /\ got.value = IF type = "any" THEN item ELSE item.val
          ELSE ~got.found /\ got.value = IF type = "num" /\ item.kind = "num" THEN 0 ELSE 7
    BY DEF Agrees
  <2>4. \A x : Found(x).found /\ Found(x).value = x /\ ~Unfound(x).found /\ Unfound(x).value = x
    BY DEF Found, Unfound
  <2>5. IF Readable(item, type)
        THEN got.found /\ got.value = IF type = "any" THEN item ELSE item.val
        ELSE ~got.found /\ got.value = IF type = "num" /\ item.kind = "num" THEN 0 ELSE 7
    BY <2>2, <2>4 DEF Readable
  <2>6. Agrees(type, got, Step({json}, key))
    BY <2>1, <2>3, <2>5
  <2> QED
    BY <2>6 DEF got
<1> QED
  BY <1>1, <1>2

\* What is not an object has no keys.
LEMMA OnlyObjects == \A json, key : json.kind # "obj" => ~HasKey(json, key)
  BY DEF HasKey

LEMMA TwoKeys ==
    ASSUME NEW json, NEW k1, NEW k2, NEW type \in {"any", "num", "str", "bool"}, HasKey(json, k1)
    PROVE  Agrees(type, GetValue2(json, k1, k2, type, 7), Step(Step({json}, k1), k2))
PROOF
<1>1. Step({json}, k1) = {At(json, k1)}
  BY StepsTo
<1>2. CASE At(json, k1).kind = "obj"
  BY <1>1, <1>2, OneKey DEF GetValue2
<1>3. CASE At(json, k1).kind # "obj"
  <2>1. Step({At(json, k1)}, k2) = {}
    BY <1>3, OnlyObjects, StepsTo
  <2> QED
    BY <1>1, <1>3, <2>1, NothingThere DEF GetValue2
<1> QED
  BY <1>2, <1>3

LEMMA ThreeKeys ==
    ASSUME NEW json, NEW k1, NEW k2, NEW k3, NEW type \in {"any", "num", "str", "bool"},
           HasKey(json, k1)
    PROVE  Agrees(type, GetValue3(json, k1, k2, k3, type, 7),
                      Step(Step(Step({json}, k1), k2), k3))
PROOF
<1> DEFINE main == At(json, k1)
<1>1. Step({json}, k1) = {main}
  BY StepsTo
<1>2. CASE HasKey(main, k2)
  <2>1. main.kind = "obj"
    BY <1>2, OnlyObjects
  <2>2. GetValue3(json, k1, k2, k3, type, 7) = GetValue2(main, k2, k3, type, 7)
    BY <2>1 DEF GetValue3
  <2> QED
    BY <1>1, <1>2, <2>2, TwoKeys
<1>3. CASE ~HasKey(main, k2)
  <2>1. Step(Step({main}, k2), k3) = {}
    BY <1>3, StepsTo
  <2>2. GetValue3(json, k1, k2, k3, type, 7) = Unfound(7)
    <3>1. At(main, k2).kind # "obj"
      BY <1>3 DEF At, Null
    <3> QED
      BY <3>1 DEF GetValue3, GetValue2
  <2> QED
    BY <1>1, <2>1, <2>2, NothingThere
<1> QED
  BY <1>2, <1>3

LEMMA KeysLead ==
    ASSUME NEW json, NEW k1, NEW k2, NEW k3, HasKey(json, k1)
    PROVE  k2 # "" /\ k3 # "" =>
             /\ HasKeys(json, k1, k2, "") <=> Step(Step({json}, k1), k2) # {}
             /\ HasKeys(json, k1, k2, k3) <=> Step(Step(Step({json}, k1), k2), k3) # {}
PROOF
<1> DEFINE main == At(json, k1)
           sub  == At(main, k2)
<1> SUFFICES ASSUME k2 # "", k3 # ""
             PROVE  /\ HasKeys(json, k1, k2, "") <=> Step(Step({json}, k1), k2) # {}
                    /\ HasKeys(json, k1, k2, k3) <=>
                          Step(Step(Step({json}, k1), k2), k3) # {}
  OBVIOUS
<1>1. Step({json}, k1) = {main}
  BY StepsTo
<1>2. HasKeys(json, k1, k2, "") <=> HasKey(main, k2)
  BY DEF HasKeys
<1>3. HasKeys(json, k1, k2, k3) <=> HasKey(main, k2) /\ HasKey(sub, k3)
  BY DEF HasKeys
<1>4. Step({main}, k2) = IF HasKey(main, k2) THEN {sub} ELSE {}
  BY StepsTo
<1>5. Step(Step({main}, k2), k3) # {} <=> HasKey(main, k2) /\ HasKey(sub, k3)
  <2> HIDE DEF main, sub
  <2>1. CASE HasKey(main, k2)
    <3>1. Step({sub}, k3) = IF HasKey(sub, k3) THEN {At(sub, k3)} ELSE {}
      BY StepsTo
    <3> QED
      BY <3>1, <2>1, <1>4
  <2>2. CASE ~HasKey(main, k2)
    <3>1. Step({}, k3) = {}
      BY StepsTo
    <3> QED
      BY <3>1, <2>2, <1>4
  <2> QED
    BY <2>1, <2>2
<1> HIDE DEF main, sub
<1> QED
  BY <1>1, <1>2, <1>3, <1>4, <1>5

\* Whatever was asked for and handed over, the accessors find what the keys lead to,
\* of the type asked for, and say truly whether they found it.
THEOREM AccessorsAgree == Spec => []AccessAgrees
PROOF
<1>1. AccessAgrees
  <2>1. ASSUME NEW t \in DOMAIN launches,
               NEW k1 \in {"intent", "session"}, NEW k2 \in Keys, NEW k3 \in Keys,
               NEW type \in {"any", "num", "str", "bool"}
        PROVE  LET request == Obj([intent |-> launches[t].params,
                                   session |-> launches[t].asked])
                   two   == Step(Step({request}, k1), k2)
                   three == Step(two, k3)
               IN /\ Agrees(type, GetValue2(request, k1, k2, type, 7), two)
                  /\ Agrees(type, GetValue3(request, k1, k2, k3, type, 7), three)
                  /\ HasKeys(request, k1, k2, "") <=> two # {}
                  /\ HasKeys(request, k1, k2, k3) <=> three # {}
    <3> DEFINE request == Obj([intent |-> launches[t].params, session |-> launches[t].asked])
    <3>1. HasKey(request, k1)
      BY DEF HasKey, Obj
    <3>2. k2 # "" /\ k3 # ""
      BY DEF Keys
    <3> HIDE DEF request
    <3>3. Agrees(type, GetValue2(request, k1, k2, type, 7), Step(Step({request}, k1), k2))
      BY <3>1, TwoKeys
    <3>4. Agrees(type, GetValue3(request, k1, k2, k3, type, 7),
                 Step(Step(Step({request}, k1), k2), k3))
      BY <3>1, ThreeKeys
    <3>5. /\ HasKeys(request, k1, k2, "") <=> Step(Step({request}, k1), k2) # {}
          /\ HasKeys(request, k1, k2, k3) <=>
                Step(Step(Step({request}, k1), k2), k3) # {}
      BY <3>1, <3>2, KeysLead
    <3> QED
      BY <3>3, <3>4, <3>5 DEF request
  <2> QED
    BY <2>1, Zenon DEF AccessAgrees
<1> QED
  BY <1>1, PTL

-----------------------------------------------------------------------------
(***************************************************************************)
(* Uri::parse.                                                             *)
(***************************************************************************)
\* A part of a sequence.
LEMMA Slice ==
    ASSUME NEW S, NEW str \in Seq(S), NEW a \in 0..Len(str), NEW b \in a..Len(str),
           NEW p, p = SubSeq(str, a + 1, b)
    PROVE  /\ p \in Seq(S) /\ Len(p) = b - a /\ DOMAIN p = 1..(b - a)
           /\ \A i \in 1..(b - a) : p[i] = str[a + i]
           /\ p = <<>> <=> a = b
PROOF
<1>1. a + 1 \in Int /\ b \in Int /\ \A i \in a + 1 .. b : str[i] \in S
  OBVIOUS
<1>2. /\ p \in Seq(S)
      /\ Len(p) = IF a + 1 <= b THEN b - (a + 1) + 1 ELSE 0
      /\ \A i \in 1 .. b - (a + 1) + 1 : p[i] = str[a + 1 + i - 1]
  BY <1>1, SubSeqProperties
<1>3. Len(p) = b - a
  BY <1>2
<1>4. b - (a + 1) + 1 = b - a /\ \A i \in 1..(b - a) : a + 1 + i - 1 = a + i
  OBVIOUS
<1>5. \A i \in 1..(b - a) : p[i] = str[a + i]
  BY <1>2, <1>4
<1>6. p = <<>> <=> Len(p) = 0
  BY <1>2
<1> QED
  BY <1>2, <1>3, <1>5, <1>6

\* A part of a part.
LEMMA SliceOfSlice ==
    ASSUME NEW S, NEW str \in Seq(S), NEW a \in 0..Len(str), NEW b \in a..Len(str),
           NEW i \in 0..(b - a), NEW j \in i..(b - a)
    PROVE  SubSeq(SubSeq(str, a + 1, b), i + 1, j) = SubSeq(str, a + i + 1, a + j)
PROOF
<1>1. PICK p : p = SubSeq(str, a + 1, b)
  OBVIOUS
<1>2. /\ p \in Seq(S) /\ Len(p) = b - a
      /\ \A k \in 1..(b - a) : p[k] = str[a + k]
  BY <1>1, Slice
<1>3. PICK q : q = SubSeq(p, i + 1, j)
  OBVIOUS
<1>4. /\ q \in Seq(S) /\ Len(q) = j - i
      /\ \A k \in 1..(j - i) : q[k] = p[i + k]
  <2>1. i \in 0..Len(p) /\ j \in i..Len(p)
    BY <1>2
  <2> QED
    BY <2>1, <1>2, <1>3, Slice
<1>5. PICK r : r = SubSeq(str, a + i + 1, a + j)
  OBVIOUS
<1>6. /\ r \in Seq(S) /\ Len(r) = j - i
      /\ \A k \in 1..(j - i) : r[k] = str[a + i + k]
  <2>1. a + i \in 0..Len(str) /\ a + j \in a + i .. Len(str) /\ (a + j) - (a + i) = j - i
    OBVIOUS
  <2> QED
    BY <2>1, <1>5, Slice
<1>7. \A k \in 1..(j - i) : q[k] = r[k]
  <2> SUFFICES ASSUME NEW k \in 1..(j - i) PROVE q[k] = r[k]
    OBVIOUS
  <2>1. i + k \in 1..(b - a) /\ a + (i + k) = a + i + k
    OBVIOUS
  <2> QED
    BY <2>1, <1>2, <1>4, <1>6
<1>8. q = r
  BY <1>4, <1>6, <1>7, SeqEqual
<1> QED
  BY <1>1, <1>3, <1>5, <1>8

\* Front and Rest of a part, and of nothing.
LEMMA RestOf ==
    ASSUME NEW S, NEW str \in Seq(S), NEW a \in 0..Len(str), NEW b \in a..Len(str),
           NEW n \in 0..(b - a)
    PROVE  Rest(SubSeq(str, a + 1, b), n) = SubSeq(str, a + n + 1, b)
PROOF
<1>1. PICK p : p = SubSeq(str, a + 1, b)
  OBVIOUS
<1>2. Len(p) = b - a
  BY <1>1, Slice
<1>3. (b - a) \in n..(b - a) /\ a + (b - a) = b
  OBVIOUS
<1>4. SubSeq(p, n + 1, b - a) = SubSeq(str, a + n + 1, b)
  BY <1>1, <1>3, SliceOfSlice
<1> QED
  BY <1>1, <1>2, <1>4 DEF Rest

LEMMA FrontOf ==
    ASSUME NEW S, NEW str \in Seq(S), NEW a \in 0..Len(str), NEW b \in a..Len(str), a < b
    PROVE  Front(SubSeq(str, a + 1, b)) = SubSeq(str, a + 1, b - 1)
PROOF
<1>1. PICK p : p = SubSeq(str, a + 1, b)
  OBVIOUS
<1>2. Len(p) = b - a
  BY <1>1, Slice
<1>3. 0 \in 0..(b - a) /\ b - a - 1 \in 0..(b - a) /\ a + (b - a - 1) = b - 1 /\ 0 + 1 = 1
      /\ a + 0 + 1 = a + 1
  OBVIOUS
<1>4. SubSeq(p, 0 + 1, b - a - 1) = SubSeq(str, a + 0 + 1, a + (b - a - 1))
  BY <1>1, <1>3, SliceOfSlice
<1> QED
  BY <1>1, <1>2, <1>3, <1>4 DEF Front

LEMMA TrimmedNothing == Front(<<>>) = <<>> /\ \A n \in Nat : Rest(<<>>, n) = <<>>
  BY SubSeqEmpty DEF Front, Rest

\* Where the characters up to one of these end: e is the last before it.
EndsAt(str, a, chars, e) ==
    /\ e \in a..Len(str)
    /\ \A i \in a + 1 .. e : str[i] \notin chars
    /\ e < Len(str) => str[e + 1] \in chars

\* There is a first of what there is.
LEMMA FirstOf ==
    ASSUME NEW T, T \subseteq Nat, T # {}
    PROVE  \E x \in T : \A y \in T : x <= y
PROOF
<1> DEFINE Less == OpToRel(<, Nat)
<1>1. IsWellFoundedOn(Less, Nat)
  BY NatLessThanWellFounded
<1>2. \A x, y \in Nat : <<y, x>> \notin Less => x <= y
  BY DEF OpToRel
<1> HIDE DEF Less
<1>3. PICK x \in T : \A y \in T : <<y, x>> \notin Less
  BY <1>1, WFMin
<1> QED
  BY <1>2, <1>3

LEMMA UptoOfAll ==
    ASSUME NEW S, NEW str \in Seq(S), NEW chars
    PROVE  \E e : EndsAt(str, 0, chars, e) /\ Upto(str, chars) = SubSeq(str, 1, e)
PROOF
<1> DEFINE ends == {n \in 1..Len(str) : str[n] \in chars}
           first == CHOOSE n \in ends : \A m \in ends : n <= m
<1>1. CASE ends = {}
  <2>1. Upto(str, chars) = SubSeq(str, 1, Len(str))
    BY <1>1, SubSeqFull DEF Upto
  <2>2. EndsAt(str, 0, chars, Len(str))
    BY <1>1 DEF EndsAt
  <2> QED
    BY <2>1, <2>2
<1>2. CASE ends # {}
  <2>1. \E n \in ends : \A m \in ends : n <= m
    <3>1. ends \subseteq Nat
      OBVIOUS
    <3> HIDE DEF ends
    <3> QED
      BY <1>2, <3>1, FirstOf
  <2>2. first \in ends /\ \A m \in ends : first <= m
    BY <2>1
  <2>3. Upto(str, chars) = SubSeq(str, 1, first - 1)
    BY <1>2 DEF Upto
  <2> HIDE DEF first
  <2>4. EndsAt(str, 0, chars, first - 1)
    BY <2>2 DEF EndsAt
  <2> QED
    BY <2>3, <2>4
<1> QED
  BY <1>1, <1>2

LEMMA UptoOfRest ==
    ASSUME NEW S, NEW str \in Seq(S), NEW a \in 0..Len(str), NEW chars
    PROVE  \E e : /\ EndsAt(str, a, chars, e)
                  /\ Upto(Rest(str, a), chars) = SubSeq(str, a + 1, e)
PROOF
<1>1. PICK p : p = Rest(str, a)
  OBVIOUS
<1>2. /\ p = SubSeq(str, a + 1, Len(str)) /\ Len(str) \in a..Len(str)
      /\ Len(str) \in Nat
  BY <1>1 DEF Rest
<1>3. /\ p \in Seq(S) /\ Len(p) = Len(str) - a
      /\ \A i \in 1..(Len(str) - a) : p[i] = str[a + i]
  BY <1>2, Slice
<1>4. PICK f : EndsAt(p, 0, chars, f) /\ Upto(p, chars) = SubSeq(p, 1, f)
  BY <1>3, UptoOfAll
<1>5. f \in 0..(Len(str) - a)
  BY <1>3, <1>4 DEF EndsAt
<1>6. SubSeq(p, 1, f) = SubSeq(str, a + 1, a + f)
  <2>1. 0 \in 0..(Len(str) - a) /\ 0 + 1 = 1 /\ a + 0 + 1 = a + 1
    BY <1>2
  <2>2. SubSeq(p, 0 + 1, f) = SubSeq(str, a + 0 + 1, a + f)
    BY <2>1, <1>2, <1>5, SliceOfSlice
  <2> QED
    BY <2>1, <2>2
<1>7. EndsAt(str, a, chars, a + f)
  <2>1. a + f \in a..Len(str)
    BY <1>5
  <2>2. ASSUME NEW i \in a + 1 .. a + f PROVE str[i] \notin chars
    <3>1. i - a \in 1..f /\ i - a \in 1..(Len(str) - a) /\ a + (i - a) = i
      BY <1>5
    <3>2. p[i - a] = str[i]
      BY <3>1, <1>3
    <3> QED
      BY <3>1, <3>2, <1>4 DEF EndsAt
  <2>3. ASSUME a + f < Len(str) PROVE str[a + f + 1] \in chars
    <3>1. f + 1 \in 1..(Len(str) - a) /\ a + (f + 1) = a + f + 1 /\ f < Len(p)
      BY <2>3, <1>3, <1>5
    <3>2. p[f + 1] = str[a + f + 1]
      BY <3>1, <1>3
    <3> QED
      BY <3>1, <3>2, <1>4 DEF EndsAt
  <2> QED
    BY <2>1, <2>2, <2>3 DEF EndsAt
<1> QED
  BY <1>1, <1>4, <1>6, <1>7

\* There is one such end, and no part without these characters goes beyond it.
LEMMA EndIsLast ==
    ASSUME NEW S, NEW str \in Seq(S), NEW a \in 0..Len(str), NEW chars, NEW e,
           EndsAt(str, a, chars, e),
           NEW b \in a..Len(str), \A i \in a + 1 .. b : str[i] \notin chars
    PROVE  b <= e
PROOF
<1> SUFFICES ASSUME b > e PROVE FALSE
  BY DEF EndsAt
<1>1. e + 1 \in a + 1 .. b /\ e < Len(str)
  BY DEF EndsAt
<1> QED
  BY <1>1 DEF EndsAt

LEMMA EndIsOne ==
    ASSUME NEW S, NEW str \in Seq(S), NEW a \in 0..Len(str), NEW chars, NEW e, NEW f,
           EndsAt(str, a, chars, e), EndsAt(str, a, chars, f)
    PROVE  e = f
PROOF
<1>1. e <= f /\ f <= e
  BY EndIsLast DEF EndsAt
<1> QED
  BY <1>1 DEF EndsAt

\* The ends of a part.
LEMMA PartOf ==
    ASSUME NEW S, NEW str \in Seq(S), NEW a \in 0..Len(str), NEW b \in a..Len(str),
           NEW p, p = SubSeq(str, a + 1, b)
    PROVE  /\ p \in Seq(S) /\ Len(p) = b - a
           /\ p = <<>> <=> a = b
           /\ a < b => p[1] = str[a + 1] /\ p[b - a] = str[b]
           /\ b - a > 1 => p[2] = str[a + 2]
PROOF
<1>1. /\ p \in Seq(S) /\ Len(p) = b - a /\ DOMAIN p = 1..(b - a)
      /\ \A i \in 1..(b - a) : p[i] = str[a + i]
      /\ p = <<>> <=> a = b
  <2>1. /\ p \in Seq(S) /\ Len(p) = b - a
        /\ \A i \in 1..(b - a) : p[i] = str[a + i]
    BY Slice
  <2>2. DOMAIN p = 1..Len(p) /\ (p = <<>> <=> Len(p) = 0)
    BY <2>1
  <2> QED
    BY <2>1, <2>2
<1>2. a < b => p[1] = str[a + 1] /\ p[b - a] = str[b]
  <2>1. a < b => 1 \in 1..(b - a) /\ b - a \in 1..(b - a) /\ a + (b - a) = b
    OBVIOUS
  <2> QED
    BY <2>1, <1>1
<1>3. b - a > 1 => p[2] = str[a + 2]
  <2>1. b - a > 1 => 2 \in 1..(b - a)
    OBVIOUS
  <2> QED
    BY <2>1, <1>1
<1> QED
  BY <1>1, <1>2, <1>3

\* The characters of a part.
LEMMA HasWithin ==
    ASSUME NEW S, NEW str \in Seq(S), NEW c \in 0..Len(str), NEW d \in c..Len(str),
           NEW q, q = SubSeq(str, c + 1, d), NEW chars
    PROVE  Has(q, chars) <=> \E i \in c + 1 .. d : str[i] \in chars
PROOF
<1>1. DOMAIN q = 1..(d - c) /\ \A i \in 1..(d - c) : q[i] = str[c + i]
  BY Slice
<1>2. ASSUME NEW i \in 1..(d - c), q[i] \in chars
      PROVE  \E k \in c + 1 .. d : str[k] \in chars
  <2>1. c + i \in c + 1 .. d
    OBVIOUS
  <2> QED
    BY <2>1, <1>1, <1>2
<1>3. ASSUME NEW k \in c + 1 .. d, str[k] \in chars
      PROVE  \E i \in 1..(d - c) : q[i] \in chars
  <2>1. k - c \in 1..(d - c) /\ c + (k - c) = k
    OBVIOUS
  <2>2. q[k - c] = str[k]
    BY <2>1, <1>1
  <2> QED
    BY <2>1, <2>2, <1>3
<1> QED
  BY <1>1, <1>2, <1>3 DEF Has

\* What the groups of the expression match.
LEMMA SchemeMatches ==
    ASSUME NEW S, NEW str \in Seq(S), NEW a \in 0..Len(str), NEW b \in a..Len(str),
           NEW p, p = SubSeq(str, a + 1, b)
    PROVE  IsScheme(p) <=>
             \/ a = b
             \/ /\ b - a > 1 /\ str[b] = ":"
                /\ \A i \in a + 1 .. b - 1 : str[i] \notin {":", "\\", "/", "?", "#"}
PROOF
<1>1. ASSUME a < b
      PROVE  Has(Front(p), {":", "\\", "/", "?", "#"}) <=>
                \E i \in a + 1 .. b - 1 : str[i] \in {":", "\\", "/", "?", "#"}
  <2>1. PICK q : q = Front(p)
    OBVIOUS
  <2>2. q = SubSeq(str, a + 1, b - 1) /\ b - 1 \in a..Len(str)
    <3>1. Front(SubSeq(str, a + 1, b)) = SubSeq(str, a + 1, b - 1)
      BY <1>1, FrontOf
    <3> QED
      BY <3>1, <1>1, <2>1
  <2> QED
    BY <2>1, <2>2, HasWithin
<1>2. p \in Seq(S) /\ Len(p) = b - a
  BY Slice
<1>3. p = <<>> <=> a = b
  BY <1>2
<1>4. a < b => p[b - a] = str[b]
  BY PartOf
<1>5. CASE b - a > 1
  <2>1. p # <<>> /\ a < b /\ p[Len(p)] = str[b]
    BY <1>2, <1>3, <1>4, <1>5
  <2>2. IsScheme(p) <=> str[b] = ":" /\ ~Has(Front(p), {":", "\\", "/", "?", "#"})
    BY <2>1, <1>2, <1>5 DEF IsScheme
  <2> QED
    BY <2>1, <2>2, <1>1, <1>5
<1>6. CASE ~(b - a > 1)
  BY <1>2, <1>3, <1>6 DEF IsScheme
<1> QED
  BY <1>5, <1>6

LEMMA HostMatches ==
    ASSUME NEW S, NEW str \in Seq(S), NEW a \in 0..Len(str), NEW b \in a..Len(str),
           NEW p, p = SubSeq(str, a + 1, b)
    PROVE  IsHost(p) <=>
             \/ a = b
             \/ /\ b - a > 1 /\ str[a + 1] = "/" /\ str[a + 2] = "/"
                /\ \A i \in a + 3 .. b : str[i] \notin {"\\", "/", "?", "#"}
PROOF
<1>1. ASSUME b - a > 1
      PROVE  Has(Rest(p, 2), {"\\", "/", "?", "#"}) <=>
                \E i \in a + 3 .. b : str[i] \in {"\\", "/", "?", "#"}
  <2>1. PICK q : q = Rest(p, 2)
    OBVIOUS
  <2>2. /\ q = SubSeq(str, (a + 2) + 1, b) /\ a + 2 \in 0..Len(str)
        /\ b \in a + 2 .. Len(str) /\ (a + 2) + 1 = a + 3
    <3>1. 2 \in 0..(b - a)
      BY <1>1
    <3>2. Rest(SubSeq(str, a + 1, b), 2) = SubSeq(str, a + 2 + 1, b)
      BY <3>1, RestOf
    <3> QED
      BY <3>2, <1>1, <2>1
  <2>3. Has(q, {"\\", "/", "?", "#"}) <=>
           \E i \in (a + 2) + 1 .. b : str[i] \in {"\\", "/", "?", "#"}
    BY <2>2, HasWithin
  <2> QED
    BY <2>1, <2>2, <2>3
<1>2. b - a > 1 => p[1] = str[a + 1] /\ p[2] = str[a + 2]
  BY PartOf
<1> QED
  BY <1>1, <1>2, PartOf DEF IsHost

LEMMA PathMatches ==
    ASSUME NEW S, NEW str \in Seq(S), NEW a \in 0..Len(str), NEW b \in a..Len(str),
           NEW p, p = SubSeq(str, a + 1, b)
    PROVE  IsPath(p) <=> \A i \in a + 1 .. b : str[i] \notin {"?", "#"}
PROOF
<1>1. Has(p, {"?", "#"}) <=> \E i \in a + 1 .. b : str[i] \in {"?", "#"}
  BY HasWithin
<1> QED
  BY <1>1 DEF IsPath

LEMMA QueryMatches ==
    ASSUME NEW S, NEW str \in Seq(S), NEW a \in 0..Len(str), NEW b \in a..Len(str),
           NEW p, p = SubSeq(str, a + 1, b)
    PROVE  IsQuery(p) <=>
             \/ a = b
             \/ str[a + 1] = "?" /\ \A i \in a + 2 .. b : str[i] \notin {"#"}
PROOF
<1>1. ASSUME a < b
      PROVE  Has(Rest(p, 1), {"#"}) <=> \E i \in a + 2 .. b : str[i] \in {"#"}
  <2>1. PICK q : q = Rest(p, 1)
    OBVIOUS
  <2>2. /\ q = SubSeq(str, (a + 1) + 1, b) /\ a + 1 \in 0..Len(str)
        /\ b \in a + 1 .. Len(str) /\ (a + 1) + 1 = a + 2
    <3>1. 1 \in 0..(b - a)
      BY <1>1
    <3>2. Rest(SubSeq(str, a + 1, b), 1) = SubSeq(str, a + 1 + 1, b)
      BY <3>1, RestOf
    <3> QED
      BY <3>2, <1>1, <2>1
  <2>3. Has(q, {"#"}) <=> \E i \in (a + 1) + 1 .. b : str[i] \in {"#"}
    BY <2>2, HasWithin
  <2> QED
    BY <2>1, <2>2, <2>3
<1> QED
  <2>1. CASE a = b
    BY <2>1, PartOf DEF IsQuery
  <2>2. CASE a < b
    <3>1. p # <<>> /\ p[1] = str[a + 1]
      BY <2>2, PartOf
    <3>2. IsQuery(p) <=> p[1] = "?" /\ ~Has(Rest(p, 1), {"#"})
      BY <3>1 DEF IsQuery
    <3>3. ~Has(Rest(p, 1), {"#"}) <=> \A i \in a + 2 .. b : str[i] \notin {"#"}
      BY <2>2, <1>1
    <3> QED
      BY <3>1, <3>2, <3>3, <2>2
  <2> QED
    BY <2>1, <2>2

LEMMA FragmentMatches ==
    ASSUME NEW S, NEW str \in Seq(S), NEW a \in 0..Len(str), NEW b \in a..Len(str),
           NEW p, p = SubSeq(str, a + 1, b)
    PROVE  IsFragment(p) <=> a = b \/ str[a + 1] = "#"
PROOF
<1>1. (p = <<>> <=> a = b) /\ (a < b => p[1] = str[a + 1])
  BY PartOf
<1> QED
  BY <1>1 DEF IsFragment

\* What ends a scheme and a host, and whether a host follows a.
AfterScheme == {":", "\\", "/", "?", "#"}
AfterHost   == {"\\", "/", "?", "#"}

HostFollows(str, a)  == Len(str) - a > 1 /\ str[a + 1] = "/" /\ str[a + 2] = "/"
QueryFollows(str, a) == a < Len(str) /\ str[a + 1] = "?"

\* The cut of a string that is read from left to right.
LeftToRight(str, cut) ==
    /\ cut \in Cuts(str)
    /\ \E e : /\ EndsAt(str, 0, AfterScheme, e)
              /\ cut[1] = IF e > 0 /\ e < Len(str) /\ str[e + 1] = ":" THEN e + 1 ELSE 0
    /\ IF HostFollows(str, cut[1]) THEN EndsAt(str, cut[1] + 2, AfterHost, cut[2])
       ELSE cut[2] = cut[1]
    /\ EndsAt(str, cut[2], {"?", "#"}, cut[3])
    /\ IF QueryFollows(str, cut[3]) THEN EndsAt(str, cut[3] + 1, {"#"}, cut[4])
       ELSE cut[4] = cut[3]

LEMMA CutTypes ==
    ASSUME NEW S, NEW str \in Seq(S), NEW cut \in Cuts(str)
    PROVE  /\ Len(str) \in Nat
           /\ cut[1] \in 0..Len(str) /\ cut[2] \in cut[1]..Len(str)
           /\ cut[3] \in cut[2]..Len(str) /\ cut[4] \in cut[3]..Len(str)
           /\ cut[2] \in 0..Len(str) /\ cut[3] \in 0..Len(str) /\ cut[4] \in 0..Len(str)
BY DEF Cuts

\* The pieces of a cut, as parts of the string.
LEMMA Pieces ==
    ASSUME NEW S, NEW str \in Seq(S), NEW cut \in Cuts(str)
    PROVE  /\ Piece(str, cut, 1) = SubSeq(str, 0 + 1, cut[1])
           /\ Piece(str, cut, 2) = SubSeq(str, cut[1] + 1, cut[2])
           /\ Piece(str, cut, 3) = SubSeq(str, cut[2] + 1, cut[3])
           /\ Piece(str, cut, 4) = SubSeq(str, cut[3] + 1, cut[4])
           /\ Piece(str, cut, 5) = SubSeq(str, cut[4] + 1, Len(str))
BY DEF Piece

LEMMA MatchingCuts ==
    ASSUME NEW S, NEW str \in Seq(S), NEW cut \in Cuts(str)
    PROVE  cut \in Matches(str) <=>
             /\ \/ cut[1] = 0
                \/ /\ cut[1] > 1 /\ str[cut[1]] = ":"
                   /\ \A i \in 1 .. cut[1] - 1 : str[i] \notin AfterScheme
             /\ \/ cut[1] = cut[2]
                \/ /\ cut[2] - cut[1] > 1 /\ str[cut[1] + 1] = "/" /\ str[cut[1] + 2] = "/"
                   /\ \A i \in cut[1] + 3 .. cut[2] : str[i] \notin AfterHost
             /\ \A i \in cut[2] + 1 .. cut[3] : str[i] \notin {"?", "#"}
             /\ \/ cut[3] = cut[4]
                \/ str[cut[3] + 1] = "?" /\ \A i \in cut[3] + 2 .. cut[4] : str[i] \notin {"#"}
             /\ cut[4] = Len(str) \/ str[cut[4] + 1] = "#"
PROOF
<1>1. /\ Len(str) \in Nat /\ 0 \in 0..Len(str) /\ Len(str) \in cut[4]..Len(str)
      /\ cut[1] \in 0..Len(str) /\ cut[2] \in cut[1]..Len(str)
      /\ cut[3] \in cut[2]..Len(str) /\ cut[4] \in cut[3]..Len(str)
      /\ cut[2] \in 0..Len(str) /\ cut[3] \in 0..Len(str) /\ cut[4] \in 0..Len(str)
  BY CutTypes
<1>2. /\ Piece(str, cut, 1) = SubSeq(str, 0 + 1, cut[1])
      /\ Piece(str, cut, 2) = SubSeq(str, cut[1] + 1, cut[2])
      /\ Piece(str, cut, 3) = SubSeq(str, cut[2] + 1, cut[3])
      /\ Piece(str, cut, 4) = SubSeq(str, cut[3] + 1, cut[4])
      /\ Piece(str, cut, 5) = SubSeq(str, cut[4] + 1, Len(str))
  BY Pieces
<1>3. IsScheme(Piece(str, cut, 1)) <=>
         \/ cut[1] = 0
         \/ /\ cut[1] > 1 /\ str[cut[1]] = ":"
            /\ \A i \in 1 .. cut[1] - 1 : str[i] \notin AfterScheme
  <2>1. IsScheme(Piece(str, cut, 1)) <=>
           \/ 0 = cut[1]
           \/ /\ cut[1] - 0 > 1 /\ str[cut[1]] = ":"
              /\ \A i \in 0 + 1 .. cut[1] - 1 : str[i] \notin AfterScheme
    BY <1>1, <1>2, SchemeMatches DEF AfterScheme
  <2> QED
    BY <2>1, <1>1
<1>4. IsHost(Piece(str, cut, 2)) <=>
         \/ cut[1] = cut[2]
         \/ /\ cut[2] - cut[1] > 1 /\ str[cut[1] + 1] = "/" /\ str[cut[1] + 2] = "/"
            /\ \A i \in cut[1] + 3 .. cut[2] : str[i] \notin AfterHost
  BY <1>1, <1>2, HostMatches DEF AfterHost
<1>5. IsPath(Piece(str, cut, 3)) <=>
         \A i \in cut[2] + 1 .. cut[3] : str[i] \notin {"?", "#"}
  BY <1>1, <1>2, PathMatches
<1>6. IsQuery(Piece(str, cut, 4)) <=>
         \/ cut[3] = cut[4]
         \/ str[cut[3] + 1] = "?" /\ \A i \in cut[3] + 2 .. cut[4] : str[i] \notin {"#"}
  <2>1. PICK a, b, p : a = cut[3] /\ b = cut[4] /\ p = SubSeq(str, a + 1, b)
    OBVIOUS
  <2>2. a \in 0..Len(str) /\ b \in a..Len(str)
    BY <1>1, <2>1
  <2>3. IsQuery(p) <=> \/ a = b
                       \/ str[a + 1] = "?" /\ \A i \in a + 2 .. b : str[i] \notin {"#"}
    BY <2>1, <2>2, QueryMatches
  <2> QED
    BY <1>2, <2>1, <2>3
<1>7. IsFragment(Piece(str, cut, 5)) <=> cut[4] = Len(str) \/ str[cut[4] + 1] = "#"
  <2>1. PICK a, b, p : a = cut[4] /\ b = Len(str) /\ p = SubSeq(str, a + 1, b)
    OBVIOUS
  <2>2. a \in 0..Len(str) /\ b \in a..Len(str)
    BY <1>1, <2>1
  <2>3. IsFragment(p) <=> a = b \/ str[a + 1] = "#"
    BY <2>1, <2>2, FragmentMatches
  <2> QED
    BY <1>2, <2>1, <2>3
<1>8. cut \in Matches(str) <=>
         /\ IsScheme(Piece(str, cut, 1)) /\ IsHost(Piece(str, cut, 2))
         /\ IsPath(Piece(str, cut, 3)) /\ IsQuery(Piece(str, cut, 4))
         /\ IsFragment(Piece(str, cut, 5))
  BY DEF Matches
<1> QED
  BY <1>3, <1>4, <1>5, <1>6, <1>7, <1>8

\* A string has such a cut,
LEMMA SomeCut ==
    ASSUME NEW S, NEW str \in Seq(S)
    PROVE  \E cut : LeftToRight(str, cut)
PROOF
<1>0. Len(str) \in Nat
  OBVIOUS
<1>1. ASSUME NEW a \in 0..Len(str), NEW chars PROVE \E e : EndsAt(str, a, chars, e)
  <2>1. PICK e : /\ EndsAt(str, a, chars, e)
                 /\ Upto(Rest(str, a), chars) = SubSeq(str, a + 1, e)
    BY UptoOfRest
  <2> QED
    BY <2>1
<1>2. PICK e : EndsAt(str, 0, AfterScheme, e)
  <2>1. 0 \in 0..Len(str)
    BY <1>0
  <2> QED
    BY <2>1, <1>1
<1>3. PICK c1 : c1 = IF e > 0 /\ e < Len(str) /\ str[e + 1] = ":" THEN e + 1 ELSE 0
  OBVIOUS
<1>4. c1 \in 0..Len(str)
  BY <1>0, <1>2, <1>3 DEF EndsAt
<1>5. \E c2 \in c1..Len(str) :
         IF HostFollows(str, c1) THEN EndsAt(str, c1 + 2, AfterHost, c2) ELSE c2 = c1
  <2>1. CASE HostFollows(str, c1)
    <3>1. c1 + 2 \in 0..Len(str)
      BY <2>1, <1>0, <1>4 DEF HostFollows
    <3>2. PICK c2 : EndsAt(str, c1 + 2, AfterHost, c2)
      BY <3>1, <1>1
    <3>3. c2 \in c1..Len(str)
      BY <3>1, <3>2, <1>0, <1>4 DEF EndsAt
    <3> QED
      BY <2>1, <3>2, <3>3
  <2>2. CASE ~HostFollows(str, c1)
    <3>1. c1 \in c1..Len(str)
      BY <1>0, <1>4
    <3> QED
      BY <2>2, <3>1
  <2> QED
    BY <2>1, <2>2
<1>6. PICK c2 \in c1..Len(str) :
         IF HostFollows(str, c1) THEN EndsAt(str, c1 + 2, AfterHost, c2) ELSE c2 = c1
  BY <1>5
<1>7. c2 \in 0..Len(str)
  BY <1>0, <1>4
<1>8. PICK c3 : EndsAt(str, c2, {"?", "#"}, c3)
  BY <1>1, <1>7
<1>9. c3 \in c2..Len(str) /\ c3 \in 0..Len(str)
  BY <1>0, <1>7, <1>8 DEF EndsAt
<1>10. \E c4 \in c3..Len(str) :
          IF QueryFollows(str, c3) THEN EndsAt(str, c3 + 1, {"#"}, c4) ELSE c4 = c3
  <2>1. CASE QueryFollows(str, c3)
    <3>1. c3 + 1 \in 0..Len(str)
      BY <2>1, <1>0, <1>9 DEF QueryFollows
    <3>2. PICK c4 : EndsAt(str, c3 + 1, {"#"}, c4)
      BY <3>1, <1>1
    <3>3. c4 \in c3..Len(str)
      BY <3>1, <3>2, <1>0, <1>9 DEF EndsAt
    <3> QED
      BY <2>1, <3>2, <3>3
  <2>2. CASE ~QueryFollows(str, c3)
    <3>1. c3 \in c3..Len(str)
      BY <1>0, <1>9
    <3> QED
      BY <2>2, <3>1
  <2> QED
    BY <2>1, <2>2
<1>11. PICK c4 \in c3..Len(str) :
          IF QueryFollows(str, c3) THEN EndsAt(str, c3 + 1, {"#"}, c4) ELSE c4 = c3
  BY <1>10
<1>12. PICK cut : cut = [n \in 1..4 |-> IF n = 1 THEN c1 ELSE IF n = 2 THEN c2
                                        ELSE IF n = 3 THEN c3 ELSE c4]
  OBVIOUS
<1>13. cut[1] = c1 /\ cut[2] = c2 /\ cut[3] = c3 /\ cut[4] = c4
  BY <1>12
<1>14. cut \in Cuts(str)
  <2>1. c4 \in 0..Len(str) /\ c1 <= c2 /\ c2 <= c3 /\ c3 <= c4
    BY <1>0, <1>4, <1>9
  <2>2. cut \in [1..4 -> 0..Len(str)]
    BY <2>1, <1>4, <1>7, <1>9, <1>12
  <2> QED
    BY <2>1, <2>2, <1>13 DEF Cuts
<1> QED
  BY <1>2, <1>3, <1>6, <1>8, <1>11, <1>13, <1>14 DEF LeftToRight

\* the expression matches it,
LEMMA CutMatches ==
    ASSUME NEW S, NEW str \in Seq(S), NEW cut, LeftToRight(str, cut)
    PROVE  cut \in Matches(str)
PROOF
<1>0. cut \in Cuts(str)
  BY DEF LeftToRight
<1>1. /\ Len(str) \in Nat
      /\ cut[1] \in 0..Len(str) /\ cut[2] \in cut[1]..Len(str)
      /\ cut[3] \in cut[2]..Len(str) /\ cut[4] \in cut[3]..Len(str)
  BY <1>0, CutTypes
<1>2. \/ cut[1] = 0
      \/ /\ cut[1] > 1 /\ str[cut[1]] = ":"
         /\ \A i \in 1 .. cut[1] - 1 : str[i] \notin AfterScheme
  <2>1. PICK e : /\ EndsAt(str, 0, AfterScheme, e)
                 /\ cut[1] = IF e > 0 /\ e < Len(str) /\ str[e + 1] = ":" THEN e + 1 ELSE 0
    BY DEF LeftToRight
  <2> QED
    BY <2>1, <1>1 DEF EndsAt
<1>3. \/ cut[1] = cut[2]
      \/ /\ cut[2] - cut[1] > 1 /\ str[cut[1] + 1] = "/" /\ str[cut[1] + 2] = "/"
         /\ \A i \in cut[1] + 3 .. cut[2] : str[i] \notin AfterHost
  <2>1. CASE HostFollows(str, cut[1])
    <3>1. EndsAt(str, cut[1] + 2, AfterHost, cut[2])
      BY <2>1 DEF LeftToRight
    <3>2. cut[2] - cut[1] > 1 /\ \A i \in cut[1] + 3 .. cut[2] : str[i] \notin AfterHost
      BY <3>1, <1>1 DEF EndsAt
    <3> QED
      BY <3>2, <2>1 DEF HostFollows
  <2>2. CASE ~HostFollows(str, cut[1])
    BY <2>2 DEF LeftToRight
  <2> QED
    BY <2>1, <2>2
<1>4. EndsAt(str, cut[2], {"?", "#"}, cut[3])
  BY DEF LeftToRight
<1>5. /\ \/ cut[3] = cut[4]
         \/ str[cut[3] + 1] = "?" /\ \A i \in cut[3] + 2 .. cut[4] : str[i] \notin {"#"}
      /\ cut[4] = Len(str) \/ str[cut[4] + 1] = "#"
  <2>1. CASE QueryFollows(str, cut[3])
    <3>1. EndsAt(str, cut[3] + 1, {"#"}, cut[4])
      BY <2>1 DEF LeftToRight
    <3>2. /\ \A i \in cut[3] + 2 .. cut[4] : str[i] \notin {"#"}
          /\ cut[4] = Len(str) \/ str[cut[4] + 1] = "#"
      BY <3>1, <1>1 DEF EndsAt
    <3> QED
      BY <3>2, <2>1 DEF QueryFollows
  <2>2. CASE ~QueryFollows(str, cut[3])
    <3>1. cut[4] = cut[3]
      BY <2>2 DEF LeftToRight
    <3>2. cut[3] = Len(str) \/ str[cut[3] + 1] = "#"
      BY <2>2, <1>1, <1>4 DEF EndsAt, QueryFollows
    <3> QED
      BY <3>1, <3>2
  <2> QED
    BY <2>1, <2>2
<1>6. \A i \in cut[2] + 1 .. cut[3] : str[i] \notin {"?", "#"}
  BY <1>4 DEF EndsAt
<1> QED
  BY <1>0, <1>2, <1>3, <1>5, <1>6, MatchingCuts

\* and it comes before every other.
LEMMA CutIsFirst ==
    ASSUME NEW S, NEW str \in Seq(S), NEW cut, LeftToRight(str, cut),
           NEW other \in Matches(str), other # cut
    PROVE  Before(cut, other)
PROOF
<1>0. cut \in Cuts(str) /\ other \in Cuts(str)
  BY DEF LeftToRight, Matches
<1>1. /\ Len(str) \in Nat
      /\ cut[1] \in 0..Len(str) /\ cut[2] \in cut[1]..Len(str)
      /\ cut[3] \in cut[2]..Len(str) /\ cut[4] \in cut[3]..Len(str)
      /\ cut[2] \in 0..Len(str) /\ cut[3] \in 0..Len(str) /\ cut[4] \in 0..Len(str)
  BY <1>0, CutTypes
<1>2. /\ other[1] \in 0..Len(str) /\ other[2] \in other[1]..Len(str)
      /\ other[3] \in other[2]..Len(str) /\ other[4] \in other[3]..Len(str)
      /\ other[2] \in 0..Len(str) /\ other[3] \in 0..Len(str) /\ other[4] \in 0..Len(str)
  BY <1>0, CutTypes
<1>3. /\ \/ other[1] = 0
         \/ /\ other[1] > 1 /\ str[other[1]] = ":"
            /\ \A i \in 1 .. other[1] - 1 : str[i] \notin AfterScheme
      /\ \/ other[1] = other[2]
         \/ /\ other[2] - other[1] > 1
            /\ str[other[1] + 1] = "/" /\ str[other[1] + 2] = "/"
            /\ \A i \in other[1] + 3 .. other[2] : str[i] \notin AfterHost
      /\ \A i \in other[2] + 1 .. other[3] : str[i] \notin {"?", "#"}
      /\ \/ other[3] = other[4]
         \/ /\ str[other[3] + 1] = "?"
            /\ \A i \in other[3] + 2 .. other[4] : str[i] \notin {"#"}
  BY <1>0, MatchingCuts
<1>4. other[1] # cut[1] => cut[1] > other[1]
  <2>1. PICK e : /\ EndsAt(str, 0, AfterScheme, e)
                 /\ cut[1] = IF e > 0 /\ e < Len(str) /\ str[e + 1] = ":" THEN e + 1 ELSE 0
    BY DEF LeftToRight
  <2>2. CASE other[1] = 0
    BY <2>2, <1>1
  <2>3. CASE other[1] # 0
    <3>1. EndsAt(str, 0, AfterScheme, other[1] - 1)
      <4>1. /\ other[1] > 1 /\ str[other[1]] = ":"
            /\ \A i \in 1 .. other[1] - 1 : str[i] \notin AfterScheme
        BY <2>3, <1>3
      <4>2. ":" \in AfterScheme
        BY DEF AfterScheme
      <4>3. other[1] - 1 \in 0..Len(str) /\ (other[1] - 1) + 1 = other[1]
        BY <4>1, <1>2
      <4> QED
        BY <4>1, <4>2, <4>3 DEF EndsAt
    <3>2. e = other[1] - 1
      BY <3>1, <2>1, <1>1, EndIsOne
    <3> QED
      BY <3>2, <2>1, <2>3, <1>1, <1>2, <1>3
  <2> QED
    BY <2>2, <2>3
<1>5. other[1] = cut[1] /\ other[2] # cut[2] => cut[2] > other[2]
  <2> SUFFICES ASSUME other[1] = cut[1], other[2] # cut[2] PROVE cut[2] > other[2]
    OBVIOUS
  <2>1. CASE HostFollows(str, cut[1])
    <3>1. EndsAt(str, cut[1] + 2, AfterHost, cut[2]) /\ cut[1] + 2 \in 0..Len(str)
      BY <2>1, <1>1 DEF LeftToRight, HostFollows
    <3>2. CASE other[2] = cut[1]
      BY <3>1, <3>2, <1>1 DEF EndsAt
    <3>3. CASE other[2] # cut[1]
      <4>1. /\ other[2] \in cut[1] + 2 .. Len(str)
            /\ \A i \in (cut[1] + 2) + 1 .. other[2] : str[i] \notin AfterHost
        BY <3>3, <1>1, <1>2, <1>3
      <4>2. other[2] <= cut[2]
        BY <3>1, <4>1, EndIsLast
      <4> QED
        BY <4>2, <1>1, <1>2
    <3> QED
      BY <3>2, <3>3
  <2>2. CASE ~HostFollows(str, cut[1])
    <3>1. cut[2] = cut[1]
      BY <2>2 DEF LeftToRight
    <3>2. other[2] = other[1]
      BY <2>2, <1>1, <1>2, <1>3 DEF HostFollows
    <3> QED
      BY <3>1, <3>2
  <2> QED
    BY <2>1, <2>2
<1>6. other[2] = cut[2] /\ other[3] # cut[3] => cut[3] > other[3]
  <2> SUFFICES ASSUME other[2] = cut[2], other[3] # cut[3] PROVE cut[3] > other[3]
    OBVIOUS
  <2>1. EndsAt(str, cut[2], {"?", "#"}, cut[3])
    BY DEF LeftToRight
  <2>2. other[3] <= cut[3]
    <3>1. /\ other[3] \in cut[2]..Len(str)
          /\ \A i \in cut[2] + 1 .. other[3] : str[i] \notin {"?", "#"}
      BY <1>2, <1>3
    <3> QED
      BY <3>1, <2>1, <1>1, EndIsLast
  <2> QED
    BY <2>2, <1>1, <1>2
<1>7. other[3] = cut[3] /\ other[4] # cut[4] => cut[4] > other[4]
  <2> SUFFICES ASSUME other[3] = cut[3], other[4] # cut[4] PROVE cut[4] > other[4]
    OBVIOUS
  <2>1. CASE QueryFollows(str, cut[3])
    <3>1. EndsAt(str, cut[3] + 1, {"#"}, cut[4]) /\ cut[3] + 1 \in 0..Len(str)
      BY <2>1, <1>1 DEF LeftToRight, QueryFollows
    <3>2. CASE other[4] = cut[3]
      BY <3>1, <3>2, <1>1 DEF EndsAt
    <3>3. CASE other[4] # cut[3]
      <4>1. /\ other[4] \in cut[3] + 1 .. Len(str)
            /\ \A i \in (cut[3] + 1) + 1 .. other[4] : str[i] \notin {"#"}
        BY <3>3, <1>1, <1>2, <1>3
      <4>2. other[4] <= cut[4]
        BY <3>1, <4>1, EndIsLast
      <4> QED
        BY <4>2, <1>1, <1>2
    <3> QED
      BY <3>2, <3>3
  <2>2. CASE ~QueryFollows(str, cut[3])
    <3>1. cut[4] = cut[3]
      BY <2>2 DEF LeftToRight
    <3>2. other[4] = other[3]
      BY <2>2, <1>1, <1>2, <1>3 DEF QueryFollows
    <3> QED
      BY <3>1, <3>2
  <2> QED
    BY <2>1, <2>2
<1>8. \E n \in 1..4 : cut[n] # other[n]
  BY <1>0 DEF Cuts
<1>9. \E n \in 1..4 : cut[n] # other[n] /\ \A m \in 1 .. n - 1 : cut[m] = other[m]
  <2>1. \A n \in 1..4 : n = 1 \/ n = 2 \/ n = 3 \/ n = 4
    OBVIOUS
  <2>2. CASE cut[1] # other[1]
    BY <2>2
  <2>3. CASE cut[1] = other[1] /\ cut[2] # other[2]
    BY <2>3
  <2>4. CASE cut[1] = other[1] /\ cut[2] = other[2] /\ cut[3] # other[3]
    BY <2>4
  <2>5. CASE cut[1] = other[1] /\ cut[2] = other[2] /\ cut[3] = other[3]
    BY <2>5, <1>8, <2>1
  <2> QED
    BY <2>2, <2>3, <2>4, <2>5
<1>10. PICK n \in 1..4 : cut[n] # other[n] /\ \A m \in 1 .. n - 1 : cut[m] = other[m]
  BY <1>9
<1>11. cut[n] > other[n]
  <2>1. CASE n = 1
    BY <2>1, <1>4, <1>10
  <2>2. CASE n = 2
    BY <2>2, <1>5, <1>10
  <2>3. CASE n = 3
    BY <2>3, <1>6, <1>10
  <2>4. CASE n = 4
    BY <2>4, <1>7, <1>10
  <2> QED
    BY <2>1, <2>2, <2>3, <2>4
<1> QED
  BY <1>10, <1>11 DEF Before

LEMMA MatchIs ==
    ASSUME NEW S, NEW str \in Seq(S), NEW cut, LeftToRight(str, cut)
    PROVE  Match(str) = cut
PROOF
<1>1. cut \in Matches(str) /\ \A other \in Matches(str) \ {cut} : Before(cut, other)
  BY CutMatches, CutIsFirst
<1>2. Match(str) \in Matches(str) /\ \A other \in Matches(str) \ {Match(str)} :
                                        Before(Match(str), other)
  BY <1>1 DEF Match
<1>3. ASSUME NEW a \in Cuts(str), NEW b \in Cuts(str), Before(a, b), Before(b, a) PROVE FALSE
  <2>1. PICK n \in 1..4 : a[n] > b[n] /\ \A m \in 1 .. n - 1 : a[m] = b[m]
    BY <1>3 DEF Before
  <2>2. PICK k \in 1..4 : b[k] > a[k] /\ \A m \in 1 .. k - 1 : b[m] = a[m]
    BY <1>3 DEF Before
  <2>3. a[n] \in Int /\ b[n] \in Int /\ a[k] \in Int /\ b[k] \in Int
    BY DEF Cuts
  <2>4. n \in 1 .. k - 1 \/ k \in 1 .. n - 1 \/ n = k
    OBVIOUS
  <2> QED
    BY <2>1, <2>2, <2>3, <2>4
<1>4. Matches(str) \subseteq Cuts(str)
  BY DEF Matches
<1> QED
  BY <1>1, <1>2, <1>3, <1>4

\* Reading from left to right is cutting from left to right.
LEMMA ReadingCuts ==
    ASSUME NEW S, NEW str \in Seq(S), NEW cut, LeftToRight(str, cut)
    PROVE  LET P(n) == Piece(str, cut, n) IN
           ReadUri(str) = [empty |-> FALSE, uri |-> str, scheme |-> Front(P(1)),
                           host |-> Rest(P(2), 2), path |-> P(3),
                           query |-> Rest(P(4), 1), fragment |-> Rest(P(5), 1)]
PROOF
<1>0. cut \in Cuts(str)
  BY DEF LeftToRight
<1>1. /\ Len(str) \in Nat
      /\ cut[1] \in 0..Len(str) /\ cut[2] \in cut[1]..Len(str)
      /\ cut[3] \in cut[2]..Len(str) /\ cut[4] \in cut[3]..Len(str)
      /\ cut[2] \in 0..Len(str) /\ cut[3] \in 0..Len(str) /\ cut[4] \in 0..Len(str)
      /\ 0 \in 0..Len(str)
  BY <1>0, CutTypes
<1>2. PICK a, b, c, d : a = cut[1] /\ b = cut[2] /\ c = cut[3] /\ d = cut[4]
  OBVIOUS
<1>3. /\ a \in 0..Len(str) /\ b \in a..Len(str) /\ c \in b..Len(str) /\ d \in c..Len(str)
      /\ b \in 0..Len(str) /\ c \in 0..Len(str) /\ d \in 0..Len(str)
      /\ Len(str) \in a..Len(str) /\ Len(str) \in b..Len(str)
      /\ Len(str) \in c..Len(str) /\ Len(str) \in d..Len(str)
  BY <1>1, <1>2
<1>4. /\ Piece(str, cut, 1) = SubSeq(str, 1, a)
      /\ Piece(str, cut, 2) = SubSeq(str, a + 1, b)
      /\ Piece(str, cut, 3) = SubSeq(str, b + 1, c)
      /\ Piece(str, cut, 4) = SubSeq(str, c + 1, d)
      /\ Piece(str, cut, 5) = SubSeq(str, d + 1, Len(str))
  BY <1>2 DEF Piece
<1> DEFINE scheme == SchemeOf(str)
           hier   == IF scheme = <<>> THEN str ELSE Rest(str, Len(scheme) + 1)
           slashes == Len(hier) > 1 /\ hier[1] = "/" /\ hier[2] = "/"
           host   == IF slashes THEN Upto(Rest(hier, 2), {"\\", "/", "?", "#"}) ELSE <<>>
           tail   == IF slashes THEN Rest(hier, 2 + Len(host)) ELSE hier
           path   == Upto(tail, {"?", "#"})
           after  == Rest(tail, Len(path))
           query  == IF after # <<>> /\ after[1] = "?" THEN Upto(Rest(after, 1), {"#"}) ELSE <<>>
           hashed == Rest(after, Len(Upto(after, {"#"})))
<1>5. scheme = Front(SubSeq(str, 1, a)) /\ hier = Rest(str, a)
  <2>1. PICK name : name = Upto(str, AfterScheme)
    OBVIOUS
  <2>2. PICK e : EndsAt(str, 0, AfterScheme, e) /\ name = SubSeq(str, 1, e)
    BY <2>1, UptoOfAll
  <2>3. PICK f : /\ EndsAt(str, 0, AfterScheme, f)
                 /\ a = IF f > 0 /\ f < Len(str) /\ str[f + 1] = ":" THEN f + 1 ELSE 0
    BY <1>2 DEF LeftToRight
  <2>4. e = f
    BY <2>2, <2>3, <1>1, EndIsOne
  <2>5. e \in 0..Len(str) /\ Len(name) = e /\ (name = <<>> <=> e = 0)
    <3>1. e \in 0..Len(str) /\ 0 + 1 = 1 /\ e - 0 = e
      BY <2>2 DEF EndsAt
    <3>2. name \in Seq(S) /\ Len(name) = e - 0
      BY <3>1, <2>2, <1>1, Slice
    <3> QED
      BY <3>1, <3>2
  <2>6. scheme = IF name # <<>> /\ Len(name) < Len(str) /\ str[Len(name) + 1] = ":"
                 THEN name ELSE <<>>
    BY <2>1 DEF SchemeOf, AfterScheme
  <2> HIDE DEF scheme
  <2>7. CASE a = 0
    <3>1. scheme = <<>>
      BY <2>3, <2>4, <2>5, <2>6, <2>7
    <3>2. SubSeq(str, 1, 0) = <<>>
      BY SubSeqEmpty
    <3>3. Rest(str, 0) = str
      BY SubSeqFull DEF Rest
    <3> QED
      BY <3>1, <3>2, <3>3, <2>7, TrimmedNothing
  <2>8. CASE a # 0
    <3>1. a = e + 1 /\ scheme = name /\ name # <<>>
      BY <2>3, <2>4, <2>5, <2>6, <2>8
    <3>2. Front(SubSeq(str, 1, a)) = SubSeq(str, 1, e)
      <4>1. 0 < a /\ a \in 0..Len(str) /\ 0 + 1 = 1 /\ a - 1 = e
        BY <3>1, <2>5, <1>3
      <4>2. Front(SubSeq(str, 0 + 1, a)) = SubSeq(str, 0 + 1, a - 1)
        BY <4>1, <1>1, FrontOf
      <4> QED
        BY <4>1, <4>2
    <3> QED
      BY <3>1, <3>2, <2>2, <2>5
  <2> QED
    BY <2>7, <2>8
<1>6. hier = SubSeq(str, a + 1, Len(str))
  BY <1>5 DEF Rest
<1> HIDE DEF scheme, hier
<1>7. slashes <=> HostFollows(str, a)
  <2>1. /\ Len(hier) = Len(str) - a
        /\ \A i \in 1..(Len(str) - a) : hier[i] = str[a + i]
    BY <1>3, <1>6, Slice
  <2> QED
    BY <2>1, <1>3 DEF HostFollows
<1> HIDE DEF slashes
<1>8. host = Rest(SubSeq(str, a + 1, b), 2) /\ tail = SubSeq(str, b + 1, Len(str))
  <2>1. CASE HostFollows(str, a)
    <3>1. EndsAt(str, a + 2, AfterHost, b) /\ a + 2 \in 0..Len(str)
      BY <2>1, <1>2, <1>3 DEF LeftToRight, HostFollows
    <3>2. Rest(hier, 2) = Rest(str, a + 2)
      <4>1. 2 \in 0..(Len(str) - a)
        BY <3>1, <1>3
      <4>2. Rest(hier, 2) = SubSeq(str, a + 2 + 1, Len(str))
        BY <4>1, <1>3, <1>6, RestOf
      <4> QED
        BY <4>2 DEF Rest
    <3>3. PICK e : EndsAt(str, a + 2, AfterHost, e)
                   /\ Upto(Rest(str, a + 2), AfterHost) = SubSeq(str, a + 2 + 1, e)
      BY <3>1, UptoOfRest
    <3>4. e = b
      BY <3>1, <3>3, EndIsOne
    <3>5. host = SubSeq(str, a + 2 + 1, b)
      BY <3>2, <3>3, <3>4, <2>1, <1>7 DEF AfterHost
    <3>6. b \in a + 2 .. Len(str) /\ 2 \in 0..(b - a)
      BY <3>1, <1>3 DEF EndsAt
    <3>7. Rest(SubSeq(str, a + 1, b), 2) = SubSeq(str, a + 2 + 1, b)
      BY <3>6, <1>3, RestOf
    <3>8. Len(host) = b - (a + 2)
      BY <3>1, <3>5, <3>6, Slice
    <3> HIDE DEF host
    <3>9. PICK n : n = 2 + Len(host)
      OBVIOUS
    <3>10. n \in 0..(Len(str) - a) /\ a + n + 1 = b + 1
      BY <3>6, <3>8, <3>9, <1>3
    <3>11. Rest(hier, n) = SubSeq(str, a + n + 1, Len(str))
      <4>1. Rest(SubSeq(str, a + 1, Len(str)), n) = SubSeq(str, a + n + 1, Len(str))
        BY <3>10, <1>3, RestOf
      <4> QED
        BY <4>1, <1>6
    <3> QED
      BY <3>5, <3>7, <3>9, <3>10, <3>11, <2>1, <1>7
  <2>2. CASE ~HostFollows(str, a)
    <3>1. b = a
      BY <2>2, <1>2 DEF LeftToRight
    <3>2. SubSeq(str, a + 1, b) = <<>>
      BY <3>1, <1>3, SubSeqEmpty
    <3>3. host = <<>> /\ tail = hier
      BY <2>2, <1>7
    <3> QED
      BY <3>1, <3>2, <3>3, <1>6, TrimmedNothing
  <2> QED
    BY <2>1, <2>2
<1> HIDE DEF host, tail
<1>9. path = SubSeq(str, b + 1, c)
  <2>1. tail = Rest(str, b)
    BY <1>8 DEF Rest
  <2>2. PICK e : EndsAt(str, b, {"?", "#"}, e)
                 /\ Upto(Rest(str, b), {"?", "#"}) = SubSeq(str, b + 1, e)
    BY <1>3, UptoOfRest
  <2>3. EndsAt(str, b, {"?", "#"}, c)
    BY <1>2 DEF LeftToRight
  <2>4. e = c
    BY <2>2, <2>3, <1>3, EndIsOne
  <2> QED
    BY <2>1, <2>2, <2>4
<1>10. after = SubSeq(str, c + 1, Len(str))
  <2>1. Len(path) = c - b
    BY <1>3, <1>9, Slice
  <2> HIDE DEF path
  <2>2. PICK n : n = c - b
    OBVIOUS
  <2>3. n \in 0..(Len(str) - b) /\ b + n + 1 = c + 1
    BY <2>2, <1>3
  <2>4. Rest(tail, n) = SubSeq(str, b + n + 1, Len(str))
    <3>1. Rest(SubSeq(str, b + 1, Len(str)), n) = SubSeq(str, b + n + 1, Len(str))
      BY <2>3, <1>3, RestOf
    <3> QED
      BY <3>1, <1>8
  <2> QED
    BY <2>1, <2>2, <2>3, <2>4
<1> HIDE DEF path, after
<1>11. after # <<>> /\ after[1] = "?" <=> QueryFollows(str, c)
  <2>1. /\ after \in Seq(S) /\ Len(after) = Len(str) - c
        /\ \A i \in 1..(Len(str) - c) : after[i] = str[c + i]
    BY <1>3, <1>10, Slice
  <2>2. after # <<>> <=> c < Len(str)
    BY <2>1, <1>3
  <2>3. c < Len(str) => after[1] = str[c + 1]
    BY <2>1, <1>3
  <2> QED
    BY <2>2, <2>3 DEF QueryFollows
<1>12. after = Rest(str, c)
  BY <1>10 DEF Rest
<1>13. query = Rest(SubSeq(str, c + 1, d), 1) /\ EndsAt(str, c, {"#"}, d)
  <2>1. CASE QueryFollows(str, c)
    <3>1. EndsAt(str, c + 1, {"#"}, d) /\ c + 1 \in 0..Len(str)
      BY <2>1, <1>2, <1>3 DEF LeftToRight, QueryFollows
    <3>2. d \in c + 1 .. Len(str) /\ 1 \in 0..(d - c) /\ 1 \in 0..(Len(str) - c)
      BY <3>1, <1>3 DEF EndsAt
    <3>3. Rest(after, 1) = Rest(str, c + 1)
      <4>1. Rest(after, 1) = SubSeq(str, c + 1 + 1, Len(str))
        BY <3>2, <1>3, <1>10, RestOf
      <4> QED
        BY <4>1 DEF Rest
    <3>4. PICK e : EndsAt(str, c + 1, {"#"}, e)
                   /\ Upto(Rest(str, c + 1), {"#"}) = SubSeq(str, c + 1 + 1, e)
      BY <3>1, UptoOfRest
    <3>5. e = d
      BY <3>1, <3>4, EndIsOne
    <3>6. query = SubSeq(str, c + 1 + 1, d)
      BY <3>3, <3>4, <3>5, <2>1, <1>11
    <3>7. Rest(SubSeq(str, c + 1, d), 1) = SubSeq(str, c + 1 + 1, d)
      BY <3>2, <1>3, RestOf
    <3>8. EndsAt(str, c, {"#"}, d)
      BY <3>1, <2>1, <1>3 DEF EndsAt, QueryFollows
    <3> QED
      BY <3>6, <3>7, <3>8
  <2>2. CASE ~QueryFollows(str, c)
    <3>1. d = c
      BY <2>2, <1>2 DEF LeftToRight
    <3>2. SubSeq(str, c + 1, d) = <<>>
      BY <3>1, <1>3, SubSeqEmpty
    <3>3. query = <<>>
      BY <2>2, <1>11
    <3>4. EndsAt(str, b, {"?", "#"}, c)
      BY <1>2 DEF LeftToRight
    <3>5. EndsAt(str, c, {"#"}, d)
      BY <3>1, <3>4, <2>2, <1>3 DEF EndsAt, QueryFollows
    <3> QED
      BY <3>2, <3>3, <3>5, TrimmedNothing
  <2> QED
    BY <2>1, <2>2
<1>14. hashed = SubSeq(str, d + 1, Len(str))
  <2>1. PICK e : EndsAt(str, c, {"#"}, e) /\ Upto(Rest(str, c), {"#"}) = SubSeq(str, c + 1, e)
    BY <1>3, UptoOfRest
  <2>2. e = d
    BY <2>1, <1>13, <1>3, EndIsOne
  <2>3. PICK q : q = Upto(after, {"#"})
    OBVIOUS
  <2>4. q = SubSeq(str, c + 1, d)
    BY <2>1, <2>2, <2>3, <1>12
  <2>5. Len(q) = d - c
    BY <2>4, <1>3, Slice
  <2>6. PICK n : n = d - c
    OBVIOUS
  <2>7. n \in 0..(Len(str) - c) /\ c + n + 1 = d + 1
    BY <2>6, <1>3
  <2>8. Rest(after, n) = SubSeq(str, c + n + 1, Len(str))
    <3>1. Rest(SubSeq(str, c + 1, Len(str)), n) = SubSeq(str, c + n + 1, Len(str))
      BY <2>7, <1>3, RestOf
    <3> QED
      BY <3>1, <1>10
  <2> QED
    BY <2>3, <2>5, <2>6, <2>7, <2>8
<1>15. ReadUri(str) = [empty |-> FALSE, uri |-> str, scheme |-> scheme, host |-> host,
                       path |-> path, query |-> query, fragment |-> Rest(hashed, 1)]
  BY Zenon DEF ReadUri, scheme, hier, slashes, host, tail, path, after
<1> HIDE DEF query, hashed
<1> QED
  BY <1>4, <1>5, <1>8, <1>9, <1>13, <1>14, <1>15

\* The greedy, overlapping groups of the regular expression of Uri::parse read every
\* string from left to right.
THEOREM ParseReads ==
    ASSUME NEW S, NEW str \in Seq(S)
    PROVE  Parse(str) = ReadUri(str)
PROOF
<1>1. PICK cut : LeftToRight(str, cut)
  BY SomeCut
<1>2. Match(str) = cut
  BY <1>1, MatchIs
<1> QED
  BY <1>1, <1>2, ReadingCuts DEF Parse

\* The uri of a request is a sequence of characters, that of a relayed one too.
UrisAreStrings ==
    \A t \in DOMAIN launches : AsString(At(launches[t].asked, "uri")) \in Seq(STRING)

LEMMA UriHandedOn ==
    ASSUME NEW doc, AsString(At(doc, "uri")) \in Seq(STRING), NEW n
    PROVE  AsString(At(LaunchParams(Made(n, doc)), "uri")) \in Seq(STRING)
PROOF
<1>1. PICK i : i = Made(n, doc)
  OBVIOUS
<1>2. i.uri = IF HasKey(doc, "uri") THEN Parse(AsString(At(doc, "uri"))) ELSE NoUri
  BY <1>1 DEF Made, FromJson, FreshIntent
<1>3. PICK params : params = LaunchParams(i)
  OBVIOUS
<1>4. /\ \A k : HasKey(params, k) <=> k \in Kept(i) \cup {"from", "intentId"}
      /\ \A k \in Kept(i) \cup {"intentId"} : At(params, k) = Printed(i, k)
  BY <1>3, Params
<1>5. CASE "uri" \in Kept(i)
  <2>1. ~i.uri.empty
    BY <1>5 DEF Kept, Texts
  <2>2. i.uri = Parse(AsString(At(doc, "uri")))
    BY <2>1, <1>2 DEF NoUri
  <2>3. i.uri.uri = AsString(At(doc, "uri"))
    BY <2>2 DEF Parse
  <2>4. At(params, "uri") = Str(i.uri.uri)
    BY <1>4, <1>5 DEF Printed, Texts
  <2> QED
    BY <2>3, <2>4, <1>1, <1>3 DEF AsString, Str
<1>6. CASE "uri" \notin Kept(i)
  <2>1. ~HasKey(params, "uri")
    BY <1>4, <1>6
  <2>2. AsString(At(params, "uri")) = <<>>
    BY <2>1 DEF At, AsString, Null
  <2>3. AsString(At(params, "uri")) \in Seq(STRING)
    BY <2>2, EmptySeq
  <2> QED
    BY <2>3, <1>1, <1>3
<1> QED
  BY <1>5, <1>6

LEMMA StringsInvariance == Spec => []UrisAreStrings
PROOF
<1>1. Init => UrisAreStrings
  BY DEF Init, UrisAreStrings
<1>2. ASSUME IInv, UrisAreStrings, NEW doc, NEW from, NEW accepted \in BOOLEAN,
             NEW subscribes \in BOOLEAN, Start(doc, from, accepted, subscribes), AsString(At(doc, "uri")) \in Seq(STRING)
      PROVE  UrisAreStrings'
  <2>1. CASE launches' = launches
    BY <2>1, <1>2 DEF UrisAreStrings
  <2>2. CASE launches' # launches
    <3>1. PICK l : launches' = Append(launches, l) /\ l.asked = doc
      BY <2>2, <1>2 DEF Start
    <3>2. \E S : launches \in Seq(S)
      BY <1>2 DEF IInv, IsLog
    <3>3. /\ DOMAIN launches = 1..Len(launches) /\ Len(launches) \in Nat
          /\ DOMAIN Append(launches, l) = 1..Len(launches) + 1
          /\ \A t \in 1..Len(launches) : Append(launches, l)[t] = launches[t]
          /\ Append(launches, l)[Len(launches) + 1] = l
      BY <3>2, Appended
    <3>4. ASSUME NEW t \in DOMAIN launches'
          PROVE  AsString(At(launches'[t].asked, "uri")) \in Seq(STRING)
      <4>1. CASE t \in DOMAIN launches
        BY <4>1, <3>1, <3>3, <1>2 DEF UrisAreStrings
      <4>2. CASE t \notin DOMAIN launches
        <5>1. t = Len(launches) + 1
          BY <4>2, <3>1, <3>3
        <5>2. launches'[t].asked = doc
          BY <5>1, <3>1, <3>3
        <5> QED
          BY <5>2, <1>2
      <4> QED
        BY <4>1, <4>2
    <3> QED
      BY <3>4 DEF UrisAreStrings
  <2> QED
    BY <2>1, <2>2
<1>3. IInv /\ UrisAreStrings /\ [Next]_vars => UrisAreStrings'
  <2> SUFFICES ASSUME IInv, UrisAreStrings, [Next]_vars PROVE UrisAreStrings'
    OBVIOUS
  <2>1. ASSUME NEW doc \in Documents, Ask(doc) PROVE UrisAreStrings'
    BY <2>1, <1>2, UrisAssumption DEF Ask
  <2>2. ASSUME NEW t \in DOMAIN launches, Relay(t) PROVE UrisAreStrings'
    <3>1. PICK n \in 0..s_counter : launches[t].params = LaunchParams(Made(n, launches[t].asked))
      BY DEF IInv, Chained
    <3>2. AsString(At(launches[t].params, "uri")) \in Seq(STRING)
      BY <3>1, UriHandedOn DEF UrisAreStrings
    <3> QED
      BY <3>2, <2>2, <1>2 DEF Relay
  <2>3. CASE UNCHANGED vars
    BY <2>3 DEF vars, UrisAreStrings
  <2>4. ASSUME NEW gone \in SUBSET DOMAIN intents, Remove(gone) PROVE UrisAreStrings'
    BY <2>4 DEF Remove, UrisAreStrings
  <2> QED
    BY <2>1, <2>2, <2>3, <2>4 DEF Next
<1> QED
  BY <1>1, <1>3, Invariance, PTL DEF Spec

\* Whatever the uri of a request, asked for or relayed, the regular expression with its
\* overlapping groups reads it from left to right.
THEOREM ParseReadsLeftToRight == Spec => []ParseReadsTheUri
PROOF
<1>1. UrisAreStrings => ParseReadsTheUri
  <2> SUFFICES ASSUME UrisAreStrings, NEW t \in DOMAIN launches,
                      NEW str, str = AsString(At(launches[t].asked, "uri"))
               PROVE  Parse(str) = ReadUri(str)
    BY DEF ParseReadsTheUri
  <2>1. str \in Seq(STRING)
    BY DEF UrisAreStrings
  <2> QED
    BY <2>1, ParseReads
<1> QED
  BY <1>1, StringsInvariance, PTL
===============================================================================
