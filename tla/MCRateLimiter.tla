--------------------------- MODULE MCRateLimiter ---------------------------
(* Instances of RateLimiter for TLC.                                         *)
EXTENDS RateLimiter, TLC

(* The general budget is the larger one, as in the configuration. *)
WideBudget == [l \in Limits |-> IF l = "general" THEN 2 ELSE 1]
TightBudget == [l \in Limits |-> 1]

LimiterSymmetry == Permutations(Requests) \cup Permutations(Instances)
=============================================================================
