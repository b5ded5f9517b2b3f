----------------------------- MODULE MCRoutePanel ------------------------------
(* RoutePanel on small instances: each host has a file name of its own.    *)
EXTENDS RoutePanel, TLC

Generated == [h \in Hosts |-> <<"file", h>>]
Files == {Generated[h] : h \in Hosts}
Interchangeable == Permutations(Hosts)
================================================================================
