-------------------------------- MODULE Points --------------------------------
(***************************************************************************)
(* Totals of point counts.  The Go code adds int64 amounts in loops over   *)
(* the seats; a total is written here as the number of single points, so   *)
(* that the provers can reason about it with the theorems on finite sets.  *)
(***************************************************************************)
EXTENDS Integers, FiniteSets

\* The points counted by f: f[x] of them for every x of its domain.
Units(f) == UNION {{x} \X (1..f[x]) : x \in DOMAIN f}

Total(f) == Cardinality(Units(f))

Lesser(a, b) == IF a <= b THEN a ELSE b

Greater(a, b) == IF a >= b THEN a ELSE b

AtMostOne(S) == \A s, t \in S : s = t
=============================================================================
