----------------------------- MODULE MCIntentRelay -----------------------------
(*****************************************************************************)
(* An instance of IntentRelay for TLC: requests with fields of right and     *)
(* wrong types, with a URI or without.                                       *)
(*****************************************************************************)
EXTENDS IntentRelay

\* As if an int had five bits.
MCInts == -16..15

\* An action, and whatever else.
Doc(f) == Obj([k \in {"action"} \cup DOMAIN f |-> IF k = "action" THEN Str(<<"v">>) ELSE f[k]])

\* What the fields are together is of no account, so each request tries several.
MCDocuments ==
    {Doc([uri |-> Str(<<"a", ":", "/", "/", "b">>), extra |-> Obj([scheme |-> Num(3)])]),
     Doc([uri |-> Str(<<"/", "/", "b", "\\">>), intentId |-> Num(2), result |-> Str(<<"r">>)]),
     Doc([uri |-> Str(<<"/", "?", "#">>), intentId |-> Num(99), extra |-> Bool(TRUE)]),
     Doc([uri |-> Str(<<"a", "\\", ":">>), intentId |-> Str(<<"1">>), extra |-> Null]),
     Obj([uri |-> Num(3), name |-> Str(<<"n">>), intentId |-> Num(-1), extra |-> Str(<<"x">>)]),
     Null}
===============================================================================
