----------------------------- MODULE Fractions -----------------------------
(* Exact non-negative fractions for the layouts, which the code computes   *)
(* in floating point: <<n, d>> in lowest terms, d > 0.                     *)
EXTENDS Integers, Sequences

LOCAL Gcd[a \in Nat, b \in Nat] == IF b = 0 THEN a ELSE Gcd[b, a % b]

Frac(n, d) == LET g == Gcd[n, d] IN <<n \div g, d \div g>>
Whole(n) == <<n, 1>>
Zero == Whole(0)

\* The factors are reduced crosswise first, which keeps the numbers small.
Times(a, b) == LET g == Gcd[a[1], b[2]]
                   h == Gcd[b[1], a[2]]
               IN IF a[1] = 0 \/ b[1] = 0 THEN Zero
                  ELSE <<(a[1] \div g) * (b[1] \div h), (a[2] \div h) * (b[2] \div g)>>
Over(a, b) == Times(a, <<b[2], b[1]>>)
Plus(a, b) == LET g == Gcd[a[2], b[2]]
              IN Frac(a[1] * (b[2] \div g) + b[1] * (a[2] \div g), a[2] * (b[2] \div g))
\* a - b, cut off at 0.
Minus(a, b) == LET g == Gcd[a[2], b[2]]
                   n == a[1] * (b[2] \div g) - b[1] * (a[2] \div g)
               IN IF n <= 0 THEN Zero ELSE Frac(n, a[2] * (b[2] \div g))
Leq(a, b) == a[1] * b[2] <= b[1] * a[2]
Less(a, b) == ~ Leq(b, a)
Least(a, b) == IF Leq(a, b) THEN a ELSE b
Most(a, b) == IF Leq(a, b) THEN b ELSE a
=============================================================================
