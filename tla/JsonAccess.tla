------------------------------- MODULE JsonAccess -------------------------------
(*****************************************************************************)
(* util/JValueUtil: how the service reads a JSON document.  A value is       *)
(* [kind, val]: the val of an object is a function from its keys, that of an *)
(* array a sequence of values, that of a string the sequence of its          *)
(* characters, that of a number an integer.  A number that does not fit an   *)
(* int, a fraction included, is an integer outside Ints.                     *)
(*                                                                           *)
(* Each getValue returns whether it found the value and leaves its last      *)
(* argument as it was, or not: both are the result here, [found, value].     *)
(*****************************************************************************)
EXTENDS Integers, Sequences

CONSTANT Ints   \* the values of an int

ASSUME IntsAssumption == Ints \subseteq Int /\ {-1, 0} \subseteq Ints

Null    == [kind |-> "null", val |-> <<>>]
Num(n)  == [kind |-> "num", val |-> n]
Str(s)  == [kind |-> "str", val |-> s]
Bool(b) == [kind |-> "bool", val |-> b]
Obj(f)  == [kind |-> "obj", val |-> f]

-----------------------------------------------------------------------------
\* JValue::hasKey, operator[] and asString of the library.
HasKey(json, key) == json.kind = "obj" /\ key \in DOMAIN json.val

At(json, key) == IF HasKey(json, key) THEN json.val[key] ELSE Null

AsString(json) == IF json.kind = "str" THEN json.val ELSE <<>>

-----------------------------------------------------------------------------
Found(value) == [found |-> TRUE, value |-> value]
Unfound(old) == [found |-> FALSE, value |-> old]

\* A slip (used by the mutation runs only, like the other operators so marked).
ClearedFirst(json, key, type, old) ==
    LET item == At(json, key) IN
    IF ~HasKey(json, key) \/ type \notin {"any", item.kind}
    THEN Unfound(IF type = "num" THEN 0 ELSE old)
    ELSE CASE type = "any"                            -> Found(item)
           [] type = "num" /\ item.val \notin Ints    -> Unfound(0)
           [] OTHER                                   -> Found(item.val)

\* getValue with one key; `type` tells the overloads for JValue ("any"), string,
\* int and bool apart.  The first takes a null too.
GetValue(json, key, type, old) ==
    LET item == At(json, key) IN
    IF ~HasKey(json, key) \/ type \notin {"any", item.kind}
    THEN Unfound(old)
    ELSE CASE type = "any"                            -> Found(item)
           [] type = "num" /\ item.val \notin Ints    -> Unfound(0)
           [] OTHER                                   -> Found(item.val)

\* A slip.
SubKeyOfTheWhole(json, mainKey, subKey, type, old) ==
    IF At(json, mainKey).kind = "obj"
    THEN GetValue(json, subKey, type, old)
    ELSE Unfound(old)

\* getValue with two and with three keys.
GetValue2(json, mainKey, subKey, type, old) ==
    IF At(json, mainKey).kind = "obj"
    THEN GetValue(At(json, mainKey), subKey, type, old)
    ELSE Unfound(old)

GetValue3(json, firstKey, secondKey, thirdKey, type, old) ==
    IF At(json, firstKey).kind = "obj"
    THEN GetValue2(At(json, firstKey), secondKey, thirdKey, type, old)
    ELSE Unfound(old)

\* JValueUtil::hasKey; "" stands for a key that is not given.
HasKeys(json, firstKey, secondKey, thirdKey) ==
    /\ HasKey(json, firstKey)
    /\ secondKey # "" => HasKey(At(json, firstKey), secondKey)
    /\ thirdKey # ""  => HasKey(At(At(json, firstKey), secondKey), thirdKey)
===============================================================================
