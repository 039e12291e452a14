---------------------------- MODULE MCConfiguration ----------------------------
(* Configuration for TLC: intervals up to 3 in 4 bits, up to 2 threads;    *)
(* numbers on both sides of every limit, the least and the greatest one.   *)
EXTENDS Configuration

MCNumbers == {-8, -1, 0, 1, 2, 3, 4, 7}
MCLists == {<<"a">>, <<"b", "", "a">>, <<"">>}
MCWords == {"CONTROL", "REPORT", "E2AP_PROC_ONLY", "E2SM_PROC_ONLY", "control"}
MCOptions == <<"first option", "second option">>
=============================================================================
