---------------------------- MODULE MCWireGuardPage ----------------------------
(* WireGuardPage with two peers on the first tunnel and none on the second.*)
(* The names and the keys are interchangeable together, First being so.    *)
EXTENDS WireGuardPage, TLC

CONSTANTS w0, w1, a, b, k1, k2
Start == w0 :> (a :> k1 @@ b :> k2) @@ w1 :> (a :> None @@ b :> None)
Homes == k1 :> w0 @@ k2 :> w0
NamesOrNone == Names \cup {None}
Interchangeable ==
    {p \in Permutations({a, b, k1, k2}) : \A n \in Names : p[n] \in Names /\ Start[w0][p[n]] = p[Start[w0][n]]}
================================================================================
