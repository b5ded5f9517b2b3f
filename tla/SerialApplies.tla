----------------------------- MODULE SerialApplies -----------------------------
(***************************************************************************)
(* What the apply queue is for: mutating applies take effect one at a      *)
(* time, each decided on the configuration it then changes, and none after *)
(* it was reported.  An apply that fails leaves no trace, with one         *)
(* exception; one that is reported as done is done, and what is done is    *)
(* reported so, with another exception.                                    *)
(***************************************************************************)
CONSTANTS Requests, Original

VARIABLES
    content,    \* the configuration: the request that wrote it, or Original
    outcome,    \* outcome[r]: "none" yet, "done", "undone", or "left": its
                \*   content is there, but it did not get to its end
    basis,      \* basis[r]: the content r was decided on
    verdict     \* verdict[r]: what was reported, "none" yet

vars == <<content, outcome, basis, verdict>>

Init ==
    /\ content = Original
    /\ outcome = [r \in Requests |-> "none"]
    /\ basis = [r \in Requests |-> Original]
    /\ verdict = [r \in Requests |-> "none"]

TakeEffect(r, how) ==
    /\ outcome[r] = "none"
    /\ verdict[r] = "none"
    /\ outcome' = [outcome EXCEPT ![r] = how]
    /\ basis' = [basis EXCEPT ![r] = content]
    /\ UNCHANGED verdict

Succeed(r) == TakeEffect(r, "done") /\ content' = r

Fail(r) == TakeEffect(r, "undone") /\ UNCHANGED content

(* The first exception: a valid configuration that could not be activated, *)
(* or one that was cut off before it was validated, stays.                 *)
Leave(r) == TakeEffect(r, "left") /\ content' = r

(* Failure is reported of an apply that is given up before it has begun,   *)
(* and also of a change that is done, when reading it back fails: the      *)
(* second exception.                                                       *)
Report(r, what) ==
    /\ verdict[r] = "none"
    /\ what = "success" => outcome[r] = "done"
    /\ verdict' = [verdict EXCEPT ![r] = what]
    /\ UNCHANGED <<content, outcome, basis>>

Next ==
    \E r \in Requests :
        Succeed(r) \/ Fail(r) \/ Leave(r) \/ Report(r, "success") \/ Report(r, "failure")

Spec == Init /\ [][Next]_vars
================================================================================
