-------------------------------- MODULE Rates --------------------------------
(***************************************************************************)
(* The rates of the evaluation as fractions of integers, with a positive   *)
(* denominator, and the order in which a list of them is ranked.           *)
(***************************************************************************)
EXTENDS Integers, Sequences

(* n / d, or 0 where there is nothing to divide by.                         *)
Fraction(n, d) == IF d = 0 THEN <<0, 1>> ELSE <<n, d>>
Whole(n) == <<n, 1>>
Negated(f) == <<-f[1], f[2]>>

Below(f, g) == f[1] * g[2] < g[1] * f[2]

(* Keys compared like the tuples of max(..., key = ...).                    *)
Less(a, b) ==
  \E i \in DOMAIN a :
    /\ Below(a[i], b[i])
    /\ \A j \in 1..(i - 1) : ~Below(a[j], b[j]) /\ ~Below(b[j], a[j])

Best(key) == CHOOSE t \in DOMAIN key : \A u \in DOMAIN key : ~Less(key[t], key[u])
=============================================================================
