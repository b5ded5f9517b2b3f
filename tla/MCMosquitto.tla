------------------------------ MODULE MCMosquitto ------------------------------
(* Small instances of Mosquitto                                            *)
EXTENDS Mosquitto, TLC

CONSTANTS p1, p2, u1, u2, w1, w2

Sym == Permutations({u1, u2}) \cup Permutations({w1, w2})
MCPorts == {p1, p2}
MCUsers == {u1, u2}
MCPasswords == {w1, w2}
================================================================================
