---------------------------- MODULE MCBrowserSession ----------------------------
(* BrowserSession on small instances; RefreshTokens is extended by another *)
(* MC module, which evaluates its assumption.                              *)
EXTENDS BrowserSession, TLC

Interchangeable ==
    Permutations(Tabs) \cup Permutations(Tokens) \cup Permutations(Families)
        \cup Permutations(Slots)
================================================================================
