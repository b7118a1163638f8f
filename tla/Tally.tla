------------------------------- MODULE Tally -------------------------------
(***************************************************************************)
(* The sum of a function with natural values, as the size of a set: x is   *)
(* there f[x] times.  It is what SumFunction of the community modules      *)
(* computes; as a set it can be reasoned about for every domain.           *)
(***************************************************************************)
EXTENDS Integers, FiniteSets

Units(f) == UNION {{x} \X (1..f[x]) : x \in DOMAIN f}
Tally(f) == Cardinality(Units(f))
=============================================================================
