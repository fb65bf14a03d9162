---------------------------- MODULE AddressRange ----------------------------
(***************************************************************************)
(* checkRange (src/utils/checkRange.ts), the permitted-address check the   *)
(* server's handlers run before calling a model, and the reading of spec   *)
(* section 4.5 it is checked against.                                      *)
(*                                                                         *)
(* A range is [kind, rs]: kind "undefined" (no range configured), "single" *)
(* (a [lo, hi] pair, rs = <<lo, hi>> as its only element) or "list" (an   *)
(* array of pairs, rs = its elements, possibly none).  The points are the  *)
(* address, or the array of addresses, the handler passes.                 *)
(***************************************************************************)
EXTENDS Integers, Sequences

Undefined      == [kind |-> "undefined", rs |-> << >>]
Single(lo, hi) == [kind |-> "single", rs |-> << <<lo, hi>> >>]
List(rs)       == [kind |-> "list", rs |-> rs]

\* Mutant: the upper bound compared with < instead of <=.
WithinOpenTop(points, i) == \A n \in points : i[1] <= n /\ n < i[2]

\* Every point lies in the interval i: n >= i[0] && n <= i[1].
Within(points, i) == \A n \in points : i[1] <= n /\ n <= i[2]

\* checkRange(value, range) as written: a single pair with lo >= hi, and
\* an empty list, accept everything; a pair with lo >= hi inside a list
\* is skipped.
CheckRange(points, r) ==
    CASE r.kind = "single" ->
            r.rs[1][1] < r.rs[1][2] => Within(points, r.rs[1])
      [] r.kind = "list" /\ r.rs # << >> ->
            \E j \in DOMAIN r.rs : r.rs[j][1] < r.rs[j][2] /\ Within(points, r.rs[j])
      [] OTHER -> TRUE

\* Spec section 4.5: no range accepts all, a single interval accepts the
\* points it contains, a list accepts the points some interval contains.
SpecInRange(points, r) ==
    CASE r.kind = "undefined" -> TRUE
      [] r.kind = "single"    -> points \subseteq r.rs[1][1]..r.rs[1][2]
      [] OTHER                -> \E j \in DOMAIN r.rs : points \subseteq r.rs[j][1]..r.rs[j][2]

\* The configurations spec section 4.5 calls valid: every interval has
\* lo < hi, and a list has at least one.
WellFormed(r) ==
    /\ \A j \in DOMAIN r.rs : r.rs[j][1] < r.rs[j][2]
    /\ r.kind = "list" => r.rs # << >>
=============================================================================
