------------------------------ MODULE Counting ------------------------------
(***************************************************************************)
(* Sums that a proof can follow: a sum of naturals is the number of its    *)
(* cells, one for each unit of each term, so that the facts about finite   *)
(* sets are all it needs.                                                  *)
(***************************************************************************)
EXTENDS Naturals, Sequences, FiniteSets

\* The sum of n over its domain, counted one by one.
Cells(n) == UNION {{x} \X (1 .. n[x]) : x \in DOMAIN n}
Total(n) == Cardinality(Cells(n))

\* What the elements of s weigh together.
Weight(s, w) == Total([n \in DOMAIN s |-> w[s[n]]])

\* How often x stands in s.
Occurs(x, s) == Cardinality({n \in DOMAIN s : s[n] = x})

Bit(b) == IF b THEN 1 ELSE 0

=============================================================================
