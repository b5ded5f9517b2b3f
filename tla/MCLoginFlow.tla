------------------------------ MODULE MCLoginFlow ------------------------------
(* LoginFlow on small instances.                                           *)
EXTENDS LoginFlow, TLC

Interchangeable ==
    Permutations(Users) \cup Permutations(Secrets) \cup Permutations(Codes)
        \cup Permutations(Pendings) \cup Permutations(Slots)
================================================================================
