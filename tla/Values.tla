------------------------------- MODULE Values -------------------------------
(***************************************************************************)
(* The values that YAML and JSON hold, <<is, has>>: what a value is, and   *)
(* what it holds; a number has twice its value, so that there are halves,  *)
(* a list a sequence and an object a function.  Then the checks of values  *)
(* that the validators of definitions are made of, and what of them a      *)
(* field of a Go structure takes.                                          *)
(***************************************************************************)
EXTENDS Integers, Sequences, Functions

Null == <<"null", "">>
Absent == <<"absent", "">>
Text(s) == <<"text", s>>
Number(n) == <<"number", 2 * n>>
Half == <<"number", 1>>
Boolean(b) == <<"boolean", b>>
List(s) == <<"list", s>>
Object(f) == <<"object", f>>

\* VALID_HTTP_METHODS, which items and steps share.
Methods == {"GET", "POST", "PUT", "DELETE", "PATCH", "HEAD", "OPTIONS"}

Get(item, key) == IF key \in DOMAIN item THEN item[key] ELSE Absent

-----------------------------------------------------------------------------
(* As TypeScript looks at them.                                            *)

IsText(v) == v[1] = "text"
IsFullText(v) == IsText(v) /\ v[2] # ""
IsOneOf(v, S) == IsText(v) /\ v[2] \in S
IsWhole(v) == v[1] = "number" /\ v[2] % 2 = 0
IsInteger(v, lo, hi) == IsWhole(v) /\ v[2] \div 2 \in lo..hi
IsNatural(v) == IsWhole(v) /\ v[2] >= 0
IsObject(v) == v[1] = "object"
IsListOf(v, Is(_)) == v[1] = "list" /\ \A i \in DOMAIN v[2] : Is(v[2][i])
Field(v, key) == IF v[1] = "object" THEN Get(v[2], key) ELSE Absent
Given(v, key) == Field(v, key) # Absent
MayBe(v, Is(_)) == v[1] = "absent" \/ Is(v)

\* The keys among these whose values are not as they should be.
Wrong(item, keys, Is(_)) == {k \in keys : ~Is(Get(item, k))}

-----------------------------------------------------------------------------
(* As Go decodes them: a key that is missing or null is left at its zero.  *)

GoNone(v) == v[1] \in {"absent", "null"}
GoText(v) == GoNone(v) \/ IsText(v)
GoInt(v) == GoNone(v) \/ IsWhole(v)
GoBool(v) == GoNone(v) \/ v[1] = "boolean"
GoMap(v) == GoNone(v) \/ IsObject(v)
GoMapOf(v, Is(_)) == GoNone(v) \/ (IsObject(v) /\ \A k \in DOMAIN v[2] : Is(v[2][k]))
GoListOf(v, Is(_)) == GoNone(v) \/ IsListOf(v, Is)

=============================================================================
