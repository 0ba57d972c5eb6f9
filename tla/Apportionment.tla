--------------------------- MODULE Apportionment ---------------------------
(***************************************************************************)
(* Exact weight arithmetic: canonical ratios and the largest-remainder     *)
(* apportionment of a selection space. A weight vector is a function from  *)
(* member identities (natural numbers, whose order is the canonical member *)
(* order) to natural numbers. The widths of the machine integers are left  *)
(* out: every sum and product of the code is checked in 128 bits and the   *)
(* configured limits keep them far below it.                               *)
(***************************************************************************)
EXTENDS Naturals, FiniteSets, Functions

AllZero(w) == \A m \in DOMAIN w : w[m] = 0

\* Faulty: the least non-zero weight is taken for the common divisor.
LeastWeight(w) == CHOOSE b \in Range(w) \ {0} : \A v \in Range(w) \ {0} : b <= v

\* gcd_of_weights: the greatest common divisor of the non-zero weights.
Gcd(w) ==
  LET Divides(d) == \A m \in DOMAIN w : w[m] % d = 0
      bound      == CHOOSE b \in Range(w) : b # 0
  IN  CHOOSE d \in 1..bound : Divides(d) /\ \A e \in (d + 1)..bound : ~Divides(e)

\* Faulty: the weights stay as declared.
Undivided(w) == w

\* canonicalize_weights, for a vector that is not all zero.
Canonical(w) == LET d == Gcd(w) IN [m \in DOMAIN w |-> w[m] \div d]

\* Faulty: of two equal remainders the larger identity is seated first.
AheadLargest(rest, m) == {n \in DOMAIN rest : rest[n] > rest[m] \/ (rest[n] = rest[m] /\ n > m)}

\* The members seated before m when the leftover seats are given out.
Ahead(rest, m) == {n \in DOMAIN rest : rest[n] > rest[m] \/ (rest[n] = rest[m] /\ n < m)}

\* apportion: every member receives the floor of its exact share, and the
\* leftover seats go to the largest remainders, ties to the smaller identity.
\* Each leftover seat goes to a member with a remainder.
Apportion(space, w) ==
  LET c        == Canonical(w)
      total    == SumFunction(c)
      floor    == [m \in DOMAIN w |-> (space * c[m]) \div total]
      rest     == [m \in DOMAIN w |-> (space * c[m]) % total]
      leftover == space - SumFunction(floor)
      extra(m) == rest[m] # 0 /\ Cardinality(Ahead(rest, m)) < leftover
  IN  [m \in DOMAIN w |-> floor[m] + IF extra(m) THEN 1 ELSE 0]
=============================================================================
