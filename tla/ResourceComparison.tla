-------------------------- MODULE ResourceComparison --------------------------
(***************************************************************************)
(* internal/controller/rules/resource_comparison.go: which of two values   *)
(* of a field is the larger.  A value is a record: t is its JSON type, n   *)
(* its number, and u what follows the number in a string (a unit of        *)
(* resource.Quantity, a spelling the normalisation knows, or a word).      *)
(***************************************************************************)
EXTENDS Integers

Str(number, unit) == [t |-> "str", n |-> number, u |-> unit]
Word(w) == Str(0, w)
Num(number) == [t |-> "num", n |-> number, u |-> ""]
Bool(b) == [t |-> "bool", n |-> IF b THEN 1 ELSE 0, u |-> ""]
EmptyStruct == [t |-> "struct", n |-> 0, u |-> ""]

(***************************************************************************)
(* External: the suffixes resource.ParseQuantity accepts, each with its    *)
(* value in thousandths as <<millions, rest>>, so that products stay small *)
(***************************************************************************)
Unit ==
    [m |-> <<0, 1>>, one |-> <<0, 1000>>, k |-> <<1, 0>>, Ki |-> <<1, 24000>>,
     M |-> <<1000, 0>>, Mi |-> <<1048, 576000>>, G |-> <<1000000, 0>>, Gi |-> <<1073741, 824000>>]

normalizeResourceQuantity(v) ==
    CASE v.u = "kB" -> [v EXCEPT !.u = "k"]
      [] v.u = "MB" -> [v EXCEPT !.u = "M"]
      [] v.u = "GB" -> [v EXCEPT !.u = "G"]
      [] OTHER -> v

\* The value as fmt's %v prints it: a number has no unit, true, false and {}
\* are words.
AsString(v) ==
    CASE v.t = "num" -> Str(v.n, "one")
      [] v.t = "bool" -> Word(IF v.n = 1 THEN "true" ELSE "false")
      [] v.t = "struct" -> Word("{}")
      [] OTHER -> v

Parses(v) == normalizeResourceQuantity(AsString(v)).u \in DOMAIN Unit

\* The value of a string, in millions of thousandths and the rest.
ParseQuantity(s) ==
    <<s.n * Unit[s.u][1] + (s.n * Unit[s.u][2]) \div 1000000, (s.n * Unit[s.u][2]) % 1000000>>
Quantity(v) == ParseQuantity(normalizeResourceQuantity(AsString(v)))

\* quantityA.Cmp(quantityB) > 0
Greater(p, q) == p[1] > q[1] \/ (p[1] = q[1] /\ p[2] > q[2])
Exceeds(a, b) == Greater(Quantity(a), Quantity(b))

\* Results are <<larger, smaller>>.
Ordered(aIsLarger, a, b) == IF aIsLarger THEN <<a, b>> ELSE <<b, a>>

profileSize == [small |-> 1, medium |-> 2, large |-> 3]

\* Two strings; when they cannot be compared the caller prefers b, the user's.
resourceStringComparison(a, b) ==
    Ordered(CASE a.u \in DOMAIN profileSize ->
                    b.u \in DOMAIN profileSize /\ profileSize[a.u] > profileSize[b.u]
              [] Parses(a) /\ Parses(b) -> Exceeds(a, b)
              [] OTHER -> Parses(a),
            a, b)

\* A string against another type, both as strings: the one that parses wins.
MixedComparison(a, b) ==
    IF ~Parses(a) /\ ~Parses(b)
    THEN LET r == resourceStringComparison(a, AsString(b))
         IN  IF r[1] = a THEN <<a, b>> ELSE <<b, a>>
    ELSE Ordered(Parses(a) /\ (~Parses(b) \/ Exceeds(a, b)), a, b)

\* A number: as quantities, or as floats where a text that is no number is 0.
NumericComparison(a, b) ==
    Ordered(IF Parses(b) THEN Exceeds(a, b) ELSE a.n > 0, a, b)

\* Against true, false counts as the larger; a bool is only met by a bool.
BoolComparison(a, b) == Ordered(a.n = 0 /\ b.n = 1, a, b)

ResourceComparison(a, b) ==
    CASE a.t = "str" /\ b.t = "str" -> resourceStringComparison(a, b)
      [] a.t = "str" /\ b.t # "str" -> MixedComparison(a, b)
      [] a.t = "num" -> NumericComparison(a, b)
      [] a.t = "bool" /\ b.t = "bool" -> BoolComparison(a, b)
      [] a.t = "struct" -> <<a, a>>

Large(a, b) == ResourceComparison(a, b)[1]
Small(a, b) == ResourceComparison(a, b)[2]
=============================================================================
