------------------------------ MODULE MCNginxPage ------------------------------
(* NginxPage on small instances.                                           *)
EXTENDS NginxPage, TLC

Interchangeable == Permutations(Sites)
================================================================================
