-------------------------------- MODULE Sums --------------------------------
(***************************************************************************)
(* Sums of naturals over a finite set, by counting: a function f stands    *)
(* for f[x] units of each x, and its sum is the number of all units.       *)
(* Counting needs no recursion, so the laws of sums (Sums_proofs) follow   *)
(* from those of Cardinality, for every finite set.                        *)
(***************************************************************************)
EXTENDS Naturals, FiniteSets

Units(f) == UNION {{x} \X (1..f[x]) : x \in DOMAIN f}
SumOf(f) == Cardinality(Units(f))
=============================================================================
