----------------------------- MODULE MCActionQueue -----------------------------
(* ActionQueue with three applies to one configuration.                    *)
EXTENDS ActionQueue, TLC

NoTimeouts == {}
KilledOnly == {"killed"}
RefusedOnly == {"refused"}
AnyTimeout == {"refused", "killed"}

Interchangeable == Permutations(Requests)
================================================================================
