---------------------------- MODULE MCRefreshTokens ----------------------------
(* RefreshTokens on a small instance: two users, three families and enough *)
(* tokens for a family to be rotated twice beside another one.             *)
EXTENDS RefreshTokens, TLC

Interchangeable ==
    Permutations(Users) \cup Permutations(Tokens) \cup Permutations(Families)
================================================================================
