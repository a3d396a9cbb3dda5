--------------------------- MODULE MCBenchHarness ---------------------------
(* A small instance of BenchHarness for TLC.                               *)
EXTENDS BenchHarness

(* Two of the three scenarios that echo, one of those that send, in the    *)
(* order of _TCP_SCENARIOS; two columns for each of the other matrices.    *)
MCScenarios ==
    [bench |-> <<"case", "case">>,
     tcp   |-> <<"echo", "echo", "sink">>,
     http  |-> <<"http", "http">>]
=============================================================================
