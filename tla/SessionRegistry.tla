---------------------------- MODULE SessionRegistry ----------------------------
(***************************************************************************)
(* What the session store of backend/src/auth/jwt.js promises, with the    *)
(* tokens left out.  A session is opened by a completed login, belongs to  *)
(* one user for as long as it exists, and once ended is never open again,  *)
(* whichever of the ways to end it was taken.  RefreshTokens implements    *)
(* this specification with families of rotating tokens.                    *)
(***************************************************************************)
CONSTANTS Users, Sessions, NoUser

VARIABLES
    status,     \* status[s]: "unused", "open" or "ended"
    owner       \* owner[s]: the user session s was opened for, or NoUser

vars == <<status, owner>>

Init ==
    /\ status = [s \in Sessions |-> "unused"]
    /\ owner = [s \in Sessions |-> NoUser]

(* issueSessionForUser, called at the end of both second-factor routes.    *)
Open(s, u) ==
    /\ status[s] = "unused"
    /\ status' = [status EXCEPT ![s] = "open"]
    /\ owner' = [owner EXCEPT ![s] = u]

(* One session ends: it was logged out, a used token of it came back, or   *)
(* the process died between the two statements of a rotation.              *)
EndOne(s) ==
    /\ status[s] = "open"
    /\ status' = [status EXCEPT ![s] = "ended"]
    /\ UNCHANGED owner

(* revokeAllSessionsForUser: exactly the open sessions of u end.           *)
EndAllOf(u) ==
    /\ status' = [s \in Sessions |->
                    IF status[s] = "open" /\ owner[s] = u THEN "ended" ELSE status[s]]
    /\ UNCHANGED owner

Next ==
    \/ \E s \in Sessions, u \in Users : Open(s, u)
    \/ \E s \in Sessions : EndOne(s)
    \/ \E u \in Users : EndAllOf(u)

Spec == Init /\ [][Next]_vars
================================================================================
