-------------------------------- MODULE Sums --------------------------------
(***************************************************************************)
(* Sums of quantities, counted unit by unit.  The sum of a function into   *)
(* Nat is the number of pairs <<x, i>> with i \in 1..g[x]; this form needs  *)
(* no recursion, so that facts about it can be proved (SumsProofs).         *)
(***************************************************************************)
EXTENDS Integers, FiniteSets

Units(g) == UNION {{x} \X (1 .. g[x]) : x \in DOMAIN g}

SumOver(g) == Cardinality(Units(g))

MaxOf(S) == CHOOSE m \in S : \A n \in S : n =< m
=============================================================================
