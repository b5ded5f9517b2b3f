----------------------------- MODULE RefreshTokens -----------------------------
(***************************************************************************)
(* The refresh_tokens table and the functions of backend/src/auth/jwt.js   *)
(* that write it.                                                          *)
(*                                                                         *)
(* A login opens a family of tokens; each refresh revokes the presented    *)
(* token and inserts its successor in the same family.  A token that is    *)
(* already revoked when it comes back ends its whole family.  Node runs    *)
(* each of these functions without a break (better-sqlite3 is              *)
(* synchronous), but a rotation is two SQL statements outside any          *)
(* transaction, so the process can die between them: rotation is two       *)
(* actions, and no other handler runs while `rotating' is set.             *)
(*                                                                         *)
(* Rows are never deleted: no code removes a user or a token, so the "User *)
(* no longer exists" branch of rotateRefreshToken has no state to run in.  *)
(* JWT signatures and token hashes are abstracted: a token is its jti.     *)
(***************************************************************************)
CONSTANTS
    Users,
    Tokens,     \* the jtis crypto.randomUUID() may return, each only once
    Families,   \* the family ids, likewise
    None        \* SQL NULL / "no token"

(* A row of refresh_tokens: what of it the functions below read or write.  *)
Row == [user : Users, family : Families, revoked : BOOLEAN]

ASSUME NoneIsDistinct == None \notin Tokens \cup Users \cup Row

VARIABLES
    row,        \* row[j]: the refresh_tokens row of jti j, or None
    expired,    \* tokens past the `exp' of their JWT (and expires_at of their row)
    rotating,   \* the token revoked by a rotation whose INSERT is still to come, or None
    parent,     \* history: parent[j] is the token whose rotation issued j, or None
    reused      \* history: families for which "Refresh token reuse detected" was thrown

vars == <<row, expired, rotating, parent, reused>>

TypeOK ==
    /\ row \in [Tokens -> Row \cup {None}]
    /\ expired \subseteq Tokens
    /\ rotating \in Tokens \cup {None}
    /\ parent \in [Tokens -> Tokens \cup {None}]
    /\ reused \subseteq Families

Issued == {j \in Tokens : row[j] # None}
Live == {j \in Issued : ~row[j].revoked}
MembersOf(f) == {j \in Issued : row[j].family = f}
LiveIn(f) == MembersOf(f) \cap Live
Idle == rotating = None

Init ==
    /\ row = [j \in Tokens |-> None]
    /\ expired = {}
    /\ rotating = None
    /\ parent = [j \in Tokens |-> None]
    /\ reused = {}

--------------------------------------------------------------------------------
(* UPDATE refresh_tokens SET revoked_at = now WHERE jti IN S               *)
(* AND revoked_at IS NULL                                                  *)
Revoke(S) ==
    row' = [j \in Tokens |-> IF j \in S \cap Issued THEN [row[j] EXCEPT !.revoked = TRUE]
                                                    ELSE row[j]]

(* persistAndSignRefresh: the INSERT of a row for a new jti.               *)
Insert(j, u, f) ==
    row' = [row EXCEPT ![j] = [user |-> u, family |-> f, revoked |-> FALSE]]

(* issueRefreshToken, at the end of a login: a new jti in a new family.    *)
IssueRefreshToken(j, u, f) ==
    /\ Idle
    /\ j \notin Issued
    /\ MembersOf(f) = {}
    /\ Insert(j, u, f)
    /\ UNCHANGED <<expired, rotating, parent, reused>>

(* rotateRefreshToken up to its UPDATE: the presented token is known,      *)
(* unexpired and not revoked; it is revoked now.                           *)
RotateRevokeForgotten(j) ==
    /\ Idle
    /\ j \in Live \ expired
    /\ rotating' = j
    /\ UNCHANGED <<row, expired, parent, reused>>

RotateRevokeNoRevokedCheck(j) ==
    /\ Idle
    /\ j \in Issued \ expired
    /\ Revoke({j})
    /\ rotating' = j
    /\ UNCHANGED <<expired, parent, reused>>

RotateRevoke(j) ==
    /\ Idle
    /\ j \in Live \ expired
    /\ Revoke({j})
    /\ rotating' = j
    /\ UNCHANGED <<expired, parent, reused>>

(* ... and its INSERT: the successor joins the family of the old token.    *)
RotateInsert(j) ==
    /\ ~Idle
    /\ j \notin Issued
    /\ Insert(j, row[rotating].user, row[rotating].family)
    /\ parent' = [parent EXCEPT ![j] = rotating]
    /\ rotating' = None
    /\ UNCHANGED <<expired, reused>>

(* rotateRefreshToken when the presented token was revoked before: "kill   *)
(* the whole family".  jwt.verify has already refused an expired token,    *)
(* so an expired one never gets this far.                                  *)
RotateReusedOneOnly(j) ==
    /\ Idle
    /\ j \in (Issued \ Live) \ expired
    /\ Revoke({j})
    /\ reused' = reused \cup {row[j].family}
    /\ UNCHANGED <<expired, rotating, parent>>

RotateReused(j) ==
    /\ Idle
    /\ j \in (Issued \ Live) \ expired
    /\ Revoke(MembersOf(row[j].family))
    /\ reused' = reused \cup {row[j].family}
    /\ UNCHANGED <<expired, rotating, parent>>

(* revokeRefreshToken, from /logout: only the presented token, expired or  *)
(* not (ignoreExpiration), and nothing when it was revoked before.         *)
RevokeRefreshToken(j) ==
    /\ Idle
    /\ j \in Issued
    /\ Revoke({j})
    /\ UNCHANGED <<expired, rotating, parent, reused>>

(* revokeAllSessionsForUser, from /logout-all.                             *)
RevokeAllSessionsOfEverybody(u) ==
    /\ Idle
    /\ Revoke(Issued)
    /\ UNCHANGED <<expired, rotating, parent, reused>>

RevokeAllSessionsForUser(u) ==
    /\ Idle
    /\ Revoke({j \in Issued : row[j].user = u})
    /\ UNCHANGED <<expired, rotating, parent, reused>>

(* REFRESH_TOKEN_TTL passes.  All tokens live equally long, so a token     *)
(* never outlives its successor.                                           *)
Expire(j) ==
    /\ j \in Issued \ expired
    /\ parent[j] # None => parent[j] \in expired
    /\ expired' = expired \cup {j}
    /\ UNCHANGED <<row, rotating, parent, reused>>

(* The process dies between the UPDATE and the INSERT of a rotation; the   *)
(* revocation is committed, the successor is never issued.                 *)
Crash ==
    /\ ~Idle
    /\ rotating' = None
    /\ UNCHANGED <<row, expired, parent, reused>>

Next ==
    \/ \E j \in Tokens, u \in Users, f \in Families : IssueRefreshToken(j, u, f)
    \/ \E j \in Tokens : RotateRevoke(j)
    \/ \E j \in Tokens : RotateInsert(j)
    \/ \E j \in Tokens : RotateReused(j)
    \/ \E j \in Tokens : RevokeRefreshToken(j)
    \/ \E u \in Users : RevokeAllSessionsForUser(u)
    \/ \E j \in Tokens : Expire(j)
    \/ Crash

Spec == Init /\ [][Next]_vars

--------------------------------------------------------------------------------
(* A rotation in flight belongs to the family of the token it revoked.     *)
RotatingIn(f) == ~Idle /\ row[rotating].family = f

(* A family never has two tokens that would both be accepted, and none at  *)
(* all while one of its tokens is being rotated: the hand-over of          *)
(* rotateRefreshToken (jwt.js:71-77) never leaves two usable tokens.       *)
OneLiveTokenPerFamily ==
    /\ \A i, j \in Live : row[i].family = row[j].family => i = j
    /\ ~Idle => LiveIn(row[rotating].family) = {}

(* A family is a chain: a token is rotated into at most one successor,     *)
(* which keeps its family and its user, and is itself used up.  This is    *)
(* what makes a second presentation of a token evidence of a copy          *)
(* (jwt.js:59-66).                                                         *)
RotationIsAChain ==
    /\ \A i, j \in Issued : parent[i] = parent[j] /\ parent[i] # None => i = j
    /\ \A j \in Issued : parent[j] # None =>
          /\ parent[j] \in Issued \ Live
          /\ row[parent[j]].family = row[j].family
          /\ row[parent[j]].user = row[j].user

(* Once reuse was detected in a family no token of it is accepted again,   *)
(* also not one that a rotation was about to hand out (jwt.js:59-66).      *)
ReuseEndsFamily ==
    \A f \in reused : LiveIn(f) = {} /\ ~RotatingIn(f)

(* What the three invariants rest on, beside each other: a rotation in     *)
(* flight has used up a token that has no successor yet, only rows have    *)
(* parents, the tokens of a family have one user, and reuse is detected    *)
(* only in families that exist.                                            *)
Bookkeeping ==
    /\ ~Idle => /\ rotating \in Issued \ Live
               /\ \A j \in Tokens : parent[j] # rotating
    /\ \A j \in Tokens \ Issued : parent[j] = None
    /\ \A i, j \in Issued : row[i].family = row[j].family => row[i].user = row[j].user
    /\ \A f \in reused : MembersOf(f) # {}

IInv ==
    /\ TypeOK
    /\ Bookkeeping
    /\ OneLiveTokenPerFamily
    /\ RotationIsAChain
    /\ ReuseEndsFamily

(* The sessions of the abstract store: a family that has a usable token,   *)
(* or is about to get one, is open.                                        *)
StatusOf(f) ==
    IF MembersOf(f) = {} THEN "unused"
    ELSE IF LiveIn(f) # {} \/ RotatingIn(f) THEN "open" ELSE "ended"

OwnerOf(f) ==
    IF MembersOf(f) = {} THEN None
    ELSE CHOOSE u \in Users : \E j \in MembersOf(f) : row[j].user = u

Registry ==
    INSTANCE SessionRegistry
        WITH Sessions <- Families, NoUser <- None,
             status <- [f \in Families |-> StatusOf(f)],
             owner <- [f \in Families |-> OwnerOf(f)]

(* The token store implements the session store: an ended session is never *)
(* open again, a session keeps its user, /logout-all ends the sessions of  *)
(* its user and no other (jwt.js:107-112).                                 *)
ImplementsRegistry == Registry!Spec
================================================================================
