----------------------------- MODULE MCNginxSites ------------------------------
(* NginxSites on small instances: two sites, contents of which one is bad. *)
EXTENDS NginxSites, TLC

CONSTANTS good1, good2, bad
AllContents == {good1, good2, bad}
BadOnes == {bad}

Interchangeable == Permutations(Sites) \cup Permutations({good1, good2})
================================================================================
