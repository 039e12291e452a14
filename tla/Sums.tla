--------------------------------- MODULE Sums ---------------------------------
(***************************************************************************)
(* The sum of a function's values over a finite set of its arguments: what *)
(* a loop that adds or subtracts counters one by one comes to.             *)
(***************************************************************************)
EXTENDS FiniteSetsExt

SumOver(f, S) == MapThenSumSet(LAMBDA x : f[x], S)
=============================================================================
