----------------------------- MODULE SessionProofs -----------------------------
(***************************************************************************)
(* Proofs about RefreshTokens and BrowserSession for any number of users,  *)
(* tokens, families and tabs.  First the server alone: IInv is its         *)
(* inductive invariant, and every action but Expire and Crash writes `row' *)
(* through Revoke or Insert, whose effects are the first two lemmas.  Then *)
(* the browser and the server together, from the line that says so:        *)
(* BrowserInv is the inductive invariant, on top of IInv.                  *)
(***************************************************************************)
EXTENDS BrowserSession, FiniteSetTheorems, TLAPS

(* Revoking a set of tokens issues nothing, leaves owners and families     *)
(* alone, and takes exactly those tokens out of the live ones.             *)
LEMMA RevokeEffect ==
    ASSUME TypeOK, NEW S, Revoke(S)
    PROVE  /\ row' \in [Tokens -> Row \cup {None}]
           /\ Issued' = Issued
           /\ Live' = Live \ S
           /\ \A j \in Issued : row[j].user = row'[j].user /\ row[j].family = row'[j].family
<1>1. ASSUME NEW j \in Tokens
      PROVE  /\ row'[j] \in Row \cup {None}
             /\ j \in Issued <=> j \in Issued'
             /\ j \in Issued => /\ row'[j].user = row[j].user
                                /\ row'[j].family = row[j].family
                                /\ row'[j].revoked = (row[j].revoked \/ j \in S)
  <2>1. row[j] \in Row \cup {None}
    BY DEF TypeOK
  <2>2. CASE j \in S \cap Issued
    <3>1. row[j] \in Row
      BY <2>1, <2>2 DEF Issued
    <3>2. row'[j] = [row[j] EXCEPT !.revoked = TRUE]
      BY <2>2 DEF Revoke
    <3>3. QED
      BY <3>1, <3>2, <2>2, NoneIsDistinct DEF Row, Issued
  <2>3. CASE j \notin S \cap Issued
    <3>1. row'[j] = row[j]
      BY <2>3 DEF Revoke
    <3>2. QED
      BY <2>1, <2>3, <3>1 DEF Row, Issued
  <2>4. QED
    BY <2>2, <2>3
<1>2. row' \in [Tokens -> Row \cup {None}]
  BY <1>1 DEF Revoke
<1>3. Issued' = Issued
  BY <1>1 DEF Issued
<1>4. Live' = Live \ S
  BY <1>1, <1>3 DEF Live, Issued
<1>5. QED
  BY <1>1, <1>2, <1>3, <1>4 DEF Issued

(* Inserting a fresh token adds it, live, and touches no other row.        *)
LEMMA InsertEffect ==
    ASSUME TypeOK, NEW j \in Tokens, NEW u \in Users, NEW f \in Families,
           j \notin Issued, Insert(j, u, f)
    PROVE  /\ row' \in [Tokens -> Row \cup {None}]
           /\ Issued' = Issued \cup {j}
           /\ Live' = Live \cup {j}
           /\ row'[j].user = u /\ row'[j].family = f
           /\ \A i \in Issued : row'[i] = row[i]
<1>1. /\ row'[j] = [user |-> u, family |-> f, revoked |-> FALSE]
      /\ \A i \in Tokens \ {j} : row'[i] = row[i]
  BY DEF Insert, TypeOK
<1>2. row'[j] \in Row
  BY <1>1 DEF Row
<1>3. row'[j] # None
  BY <1>2, NoneIsDistinct
<1>4. row' \in [Tokens -> Row \cup {None}]
  BY <1>2 DEF Insert, TypeOK
<1>5. Issued' = Issued \cup {j}
  BY <1>1, <1>3 DEF Issued
<1>6. Live' = Live \cup {j}
  BY <1>1, <1>5 DEF Live, Issued
<1>7. QED
  BY <1>1, <1>4, <1>5, <1>6 DEF Issued

--------------------------------------------------------------------------------
LEMMA InitIInv == Init => IInv
BY NoneIsDistinct
   DEF Init, IInv, TypeOK, Bookkeeping, OneLiveTokenPerFamily, RotationIsAChain,
       ReuseEndsFamily, Issued, Live, MembersOf, LiveIn, RotatingIn, Idle

(* A login: the new family has no other token, so nothing can clash.       *)
LEMMA IssueKeepsIInv ==
    ASSUME IInv, NEW j \in Tokens, NEW u \in Users, NEW f \in Families,
           IssueRefreshToken(j, u, f)
    PROVE  IInv'
<1>1. /\ row' \in [Tokens -> Row \cup {None}]
      /\ Issued' = Issued \cup {j}
      /\ Live' = Live \cup {j}
      /\ row'[j].user = u /\ row'[j].family = f
      /\ \A i \in Issued : row'[i] = row[i]
  BY InsertEffect DEF IInv, IssueRefreshToken
<1>2. /\ UNCHANGED <<expired, rotating, parent, reused>> /\ Idle /\ j \notin Issued
      /\ \A i \in Issued : row[i].family # f
  BY DEF IssueRefreshToken, MembersOf
<1>3. Issued \subseteq Tokens /\ Live \subseteq Issued
  BY DEF Issued, Live
<1>4. TypeOK'
  BY <1>1, <1>2 DEF IInv, TypeOK
<1>5. Bookkeeping'
  BY <1>1, <1>2, <1>3 DEF IInv, Bookkeeping, Idle, MembersOf
<1>6. OneLiveTokenPerFamily'
  BY <1>1, <1>2, <1>3 DEF IInv, OneLiveTokenPerFamily, Idle
<1>7. RotationIsAChain'
  BY <1>1, <1>2, <1>3 DEF IInv, RotationIsAChain, Bookkeeping, TypeOK
<1>8. ReuseEndsFamily'
  <2>1. \A g \in reused : g # f
    BY <1>2, <1>3 DEF IInv, Bookkeeping, MembersOf
  <2>2. QED
    BY <1>1, <1>2, <1>3, <2>1
       DEF IInv, ReuseEndsFamily, LiveIn, MembersOf, RotatingIn, Idle
<1>9. QED
  BY <1>4, <1>5, <1>6, <1>7, <1>8 DEF IInv

(* Revoking any set of tokens while no rotation is in flight.              *)
LEMMA RevokeKeepsIInv ==
    ASSUME IInv, NEW S, Revoke(S), Idle,
           UNCHANGED <<expired, rotating, parent>>,
           reused' = reused \/ \E f \in Families : /\ reused' = reused \cup {f}
                                                  /\ MembersOf(f) # {}
                                                  /\ LiveIn(f) \subseteq S
    PROVE  IInv'
<1>1. /\ row' \in [Tokens -> Row \cup {None}]
      /\ Issued' = Issued
      /\ Live' = Live \ S
      /\ \A i \in Issued : row[i].user = row'[i].user /\ row[i].family = row'[i].family
  BY RevokeEffect DEF IInv
<1>2. Issued \subseteq Tokens /\ Live \subseteq Issued
  BY DEF Issued, Live
<1>3. TypeOK'
  BY <1>1 DEF IInv, TypeOK
<1>4. Bookkeeping'
  BY <1>1, <1>2 DEF IInv, Bookkeeping, Idle, MembersOf
<1>5. OneLiveTokenPerFamily'
  BY <1>1, <1>2 DEF IInv, OneLiveTokenPerFamily, Idle
<1>6. RotationIsAChain'
  BY <1>1, <1>2 DEF IInv, RotationIsAChain, TypeOK
<1>7. ReuseEndsFamily'
  BY <1>1, <1>2 DEF IInv, ReuseEndsFamily, LiveIn, MembersOf, RotatingIn, Idle
<1>8. QED
  BY <1>3, <1>4, <1>5, <1>6, <1>7 DEF IInv

(* The first half of a rotation: the family's only live token is used up,  *)
(* and it has no successor, for a token with one is not live.              *)
LEMMA RotateRevokeKeepsIInv ==
    ASSUME IInv, NEW j \in Tokens, RotateRevoke(j)
    PROVE  IInv'
<1>1. /\ row' \in [Tokens -> Row \cup {None}]
      /\ Issued' = Issued
      /\ Live' = Live \ {j}
      /\ \A i \in Issued : row[i].user = row'[i].user /\ row[i].family = row'[i].family
  BY RevokeEffect DEF IInv, RotateRevoke
<1>2. Idle /\ j \in Live /\ rotating' = j /\ UNCHANGED <<expired, parent, reused>>
  BY DEF RotateRevoke
<1>3. Issued \subseteq Tokens /\ Live \subseteq Issued /\ j # None
  BY NoneIsDistinct DEF Issued, Live
<1>4. \A i \in Tokens : parent[i] # j
  BY <1>2, <1>3 DEF IInv, Bookkeeping, RotationIsAChain
<1>5. TypeOK'
  BY <1>1, <1>2 DEF IInv, TypeOK
<1>6. Bookkeeping'
  BY <1>1, <1>2, <1>3, <1>4 DEF IInv, Bookkeeping, Idle, MembersOf
<1>7. OneLiveTokenPerFamily'
  BY <1>1, <1>2, <1>3 DEF IInv, OneLiveTokenPerFamily, Idle, LiveIn, MembersOf
<1>8. RotationIsAChain'
  BY <1>1, <1>2, <1>3 DEF IInv, RotationIsAChain, TypeOK
<1>9. ReuseEndsFamily'
  BY <1>1, <1>2, <1>3 DEF IInv, ReuseEndsFamily, LiveIn, MembersOf, RotatingIn, Idle
<1>10. QED
  BY <1>5, <1>6, <1>7, <1>8, <1>9 DEF IInv

(* The second half: the successor is the family's one live token and the   *)
(* only child of the token it replaces.                                    *)
LEMMA RotateInsertKeepsIInv ==
    ASSUME IInv, NEW j \in Tokens, RotateInsert(j)
    PROVE  IInv'
<1> DEFINE f == row[rotating].family
           u == row[rotating].user
<1>1. /\ ~Idle /\ rotating \in Issued \ Live /\ j \notin Issued
      /\ rotating' = None /\ UNCHANGED <<expired, reused>>
      /\ Insert(j, u, f)
  BY DEF IInv, Bookkeeping, RotateInsert
<1>2. u \in Users /\ f \in Families
  BY <1>1 DEF IInv, TypeOK, Issued, Row
<1>3. /\ row' \in [Tokens -> Row \cup {None}]
      /\ Issued' = Issued \cup {j}
      /\ Live' = Live \cup {j}
      /\ row'[j].user = u /\ row'[j].family = f
      /\ \A i \in Issued : row'[i] = row[i]
  BY <1>1, <1>2, InsertEffect DEF IInv
<1>4. Issued \subseteq Tokens /\ Live \subseteq Issued /\ rotating \in Tokens
  BY <1>1 DEF Issued, Live
<1>5. /\ parent' \in [Tokens -> Tokens \cup {None}]
      /\ parent'[j] = rotating
      /\ \A i \in Tokens \ {j} : parent'[i] = parent[i]
  BY <1>4 DEF IInv, TypeOK, RotateInsert
<1>6. TypeOK'
  BY <1>1, <1>3, <1>5 DEF IInv, TypeOK
<1>7. Bookkeeping'
  BY <1>1, <1>3, <1>4, <1>5 DEF IInv, Bookkeeping, Idle, MembersOf
<1>8. OneLiveTokenPerFamily'
  BY <1>1, <1>3, <1>4 DEF IInv, OneLiveTokenPerFamily, Idle, LiveIn, MembersOf
<1>9. RotationIsAChain'
  <2>1. \A i \in Tokens : parent[i] # rotating
    BY <1>1 DEF IInv, Bookkeeping
  <2>2. QED
    BY <1>1, <1>3, <1>4, <1>5, <2>1 DEF IInv, RotationIsAChain, TypeOK
<1>10. ReuseEndsFamily'
  <2>1. f \notin reused
    BY <1>1 DEF IInv, ReuseEndsFamily, RotatingIn
  <2>2. QED
    BY <1>1, <1>3, <1>4, <2>1
       DEF IInv, ReuseEndsFamily, LiveIn, MembersOf, RotatingIn, Idle
<1>11. QED
  BY <1>6, <1>7, <1>8, <1>9, <1>10 DEF IInv

LEMMA StepKeepsIInv == IInv /\ [Next]_vars => IInv'
<1> SUFFICES ASSUME IInv, [Next]_vars PROVE IInv'
  OBVIOUS
<1> USE DEF IInv
<1>1. ASSUME NEW j \in Tokens, NEW u \in Users, NEW f \in Families,
             IssueRefreshToken(j, u, f)
      PROVE  IInv'
  BY <1>1, IssueKeepsIInv
<1>2. ASSUME NEW j \in Tokens, RotateRevoke(j) PROVE IInv'
  BY <1>2, RotateRevokeKeepsIInv
<1>3. ASSUME NEW j \in Tokens, RotateInsert(j) PROVE IInv'
  BY <1>3, RotateInsertKeepsIInv
<1>4. ASSUME NEW j \in Tokens, RotateReused(j) PROVE IInv'
  <2>1. /\ row[j].family \in Families
        /\ j \in MembersOf(row[j].family)
        /\ LiveIn(row[j].family) \subseteq MembersOf(row[j].family)
    BY <1>4 DEF RotateReused, Issued, TypeOK, Row, MembersOf, LiveIn
  <2>2. QED
    BY <1>4, <2>1, RevokeKeepsIInv DEF RotateReused
<1>5. ASSUME NEW j \in Tokens, RevokeRefreshToken(j) PROVE IInv'
  BY <1>5, RevokeKeepsIInv DEF RevokeRefreshToken
<1>6. ASSUME NEW u \in Users, RevokeAllSessionsForUser(u) PROVE IInv'
  BY <1>6, RevokeKeepsIInv DEF RevokeAllSessionsForUser
<1>7. ASSUME NEW j \in Tokens, Expire(j) PROVE IInv'
  BY <1>7
     DEF Expire, TypeOK, Bookkeeping, OneLiveTokenPerFamily, RotationIsAChain,
         ReuseEndsFamily, Issued, Live, MembersOf, LiveIn, RotatingIn, Idle
<1>8. CASE Crash
  BY <1>8
     DEF Crash, TypeOK, Bookkeeping, OneLiveTokenPerFamily, RotationIsAChain,
         ReuseEndsFamily, Issued, Live, MembersOf, LiveIn, RotatingIn, Idle
<1>9. CASE UNCHANGED vars
  BY <1>9
     DEF vars, TypeOK, Bookkeeping, OneLiveTokenPerFamily, RotationIsAChain,
         ReuseEndsFamily, Issued, Live, MembersOf, LiveIn, RotatingIn, Idle
<1>10. QED
  BY <1>1, <1>2, <1>3, <1>4, <1>5, <1>6, <1>7, <1>8, <1>9 DEF Next

(* The whole inductive invariant holds of every state jwt.js can reach.    *)
THEOREM InvariantHolds == Spec => []IInv
<1>1. Init => IInv
  BY InitIInv
<1>2. IInv /\ [Next]_vars => IInv'
  BY StepKeepsIInv
<1>3. QED
  BY <1>1, <1>2, PTL DEF Spec

(* The table keeps its types, for every number of users and tokens.        *)
THEOREM TypeCorrect == Spec => []TypeOK
<1>1. IInv => TypeOK
  BY DEF IInv
<1>2. QED
  BY <1>1, InvariantHolds, PTL

(* Whatever order logins, refreshes, replays, logouts, expiries and        *)
(* crashes come in, a family never has two usable tokens.                  *)
THEOREM OneLiveToken == Spec => []OneLiveTokenPerFamily
<1>1. IInv => OneLiveTokenPerFamily
  BY DEF IInv
<1>2. QED
  BY <1>1, InvariantHolds, PTL

(* Every family is a chain of rotations.                                   *)
THEOREM RotationChain == Spec => []RotationIsAChain
<1>1. IInv => RotationIsAChain
  BY DEF IInv
<1>2. QED
  BY <1>1, InvariantHolds, PTL

(* A family in which reuse was detected stays unusable.                    *)
THEOREM ReuseEnds == Spec => []ReuseEndsFamily
<1>1. IInv => ReuseEndsFamily
  BY DEF IInv
<1>2. QED
  BY <1>1, InvariantHolds, PTL

--------------------------------------------------------------------------------
(* The abstract owner of a family is the user of any of its tokens.        *)
OwnersAgree == \A j \in Issued : OwnerOf(row[j].family) = row[j].user

LEMMA OwnerIsUser == IInv => OwnersAgree
<1> SUFFICES ASSUME IInv, NEW j \in Issued
             PROVE  OwnerOf(row[j].family) = row[j].user
  BY DEF OwnersAgree
<1> DEFINE f == row[j].family
           IsUser(u) == \E i \in MembersOf(f) : row[i].user = u
<1>1. j \in MembersOf(f) /\ row[j].user \in Users
  BY DEF MembersOf, IInv, TypeOK, Issued, Row
<1>2. \A u \in Users : IsUser(u) <=> u = row[j].user
  BY <1>1 DEF IInv, Bookkeeping, MembersOf
<1>3. OwnerOf(f) = CHOOSE u \in Users : IsUser(u)
  BY <1>1 DEF OwnerOf
<1> HIDE DEF IsUser
<1>4. QED
  BY <1>1, <1>2, <1>3

(* A step that keeps the users and families of the issued tokens, and      *)
(* issues new ones only into families that exist, changes no owner.        *)
LEMMA OwnersKept ==
    ASSUME OwnersAgree, OwnersAgree', Issued \subseteq Issued',
           \A j \in Issued : row'[j].user = row[j].user /\ row'[j].family = row[j].family,
           \A j \in Issued' : MembersOf(row'[j].family) # {},
           NEW f \in Families
    PROVE  OwnerOf(f)' = OwnerOf(f) /\ (MembersOf(f)' = {} <=> MembersOf(f) = {})
<1>1. CASE MembersOf(f) = {}
  BY <1>1 DEF OwnerOf, MembersOf
<1>2. ASSUME NEW j \in MembersOf(f)
      PROVE  OwnerOf(f)' = OwnerOf(f) /\ MembersOf(f)' # {}
  <2>1. j \in Issued /\ j \in Issued' /\ row[j].family = f /\ row'[j].family = f
    BY <1>2 DEF MembersOf
  <2>2. OwnerOf(f) = row[j].user
    BY <2>1 DEF OwnersAgree
  <2>3. OwnerOf(f)' = row'[j].user
    BY <2>1 DEF OwnersAgree
  <2>4. QED
    BY <2>1, <2>2, <2>3 DEF MembersOf
<1>3. QED
  BY <1>1, <1>2

LEMMA OwnersAgreeLater == IInv' => OwnersAgree'
BY OwnerIsUser, PTL

(* An abstract step is known from what happens to each family.             *)
LEMMA StutterStep ==
    ASSUME \A f \in Families : StatusOf(f)' = StatusOf(f) /\ OwnerOf(f)' = OwnerOf(f)
    PROVE  UNCHANGED Registry!vars
BY DEF Registry!vars

LEMMA EndOneStep ==
    ASSUME NEW s \in Families, StatusOf(s) = "open", StatusOf(s)' = "ended",
           \A f \in Families \ {s} : StatusOf(f)' = StatusOf(f),
           \A f \in Families : OwnerOf(f)' = OwnerOf(f)
    PROVE  Registry!Next
<1>1. Registry!EndOne(s)
  BY DEF Registry!EndOne
<1>2. QED
  BY <1>1 DEF Registry!Next

(* What a revocation of S does to the families, no rotation in flight.     *)
LEMMA RevokeAbstractly ==
    ASSUME IInv, IInv', Idle, UNCHANGED rotating, NEW S, Revoke(S)
    PROVE  /\ \A f \in Families : OwnerOf(f)' = OwnerOf(f)
           /\ \A f \in Families :
                 StatusOf(f)' = IF StatusOf(f) = "open" /\ LiveIn(f) \subseteq S
                                THEN "ended" ELSE StatusOf(f)
<1>1. /\ Issued' = Issued /\ Live' = Live \ S
      /\ \A j \in Issued : row'[j].user = row[j].user /\ row'[j].family = row[j].family
  BY RevokeEffect DEF IInv
<1>2. \A j \in Issued' : MembersOf(row'[j].family) # {}
  BY <1>1 DEF MembersOf
<1>3. OwnersAgree /\ OwnersAgree'
  BY OwnerIsUser, OwnersAgreeLater
<1>4. \A f \in Families : OwnerOf(f)' = OwnerOf(f)
  BY <1>1, <1>2, <1>3, OwnersKept
<1>5. \A f \in Families : MembersOf(f)' = MembersOf(f) /\ LiveIn(f)' = LiveIn(f) \ S
  BY <1>1 DEF MembersOf, LiveIn
<1>6. \A f \in Families : ~RotatingIn(f) /\ ~RotatingIn(f)'
  BY DEF RotatingIn, Idle
<1>7. QED
  BY <1>4, <1>5, <1>6 DEF StatusOf, LiveIn

LEMMA StepRefines == IInv /\ IInv' /\ [Next]_vars => [Registry!Next]_(Registry!vars)
<1> SUFFICES ASSUME IInv, IInv', [Next]_vars
             PROVE  Registry!Next \/ UNCHANGED Registry!vars
  OBVIOUS
<1>a. OwnersAgree /\ OwnersAgree'
  BY OwnerIsUser, OwnersAgreeLater
<1>b. Issued \subseteq Tokens /\ Live \subseteq Issued
  BY DEF Issued, Live
<1>1. ASSUME NEW j \in Tokens, NEW u \in Users, NEW f \in Families,
             IssueRefreshToken(j, u, f)
      PROVE  Registry!Next
  <2>1. /\ Issued' = Issued \cup {j} /\ Live' = Live \cup {j}
        /\ row'[j].user = u /\ row'[j].family = f
        /\ \A i \in Issued : row'[i] = row[i]
        /\ j \notin Issued /\ MembersOf(f) = {} /\ Idle /\ Idle'
    BY <1>1, InsertEffect DEF IInv, IssueRefreshToken, Idle
  <2>2. \A g \in Families \ {f} : StatusOf(g)' = StatusOf(g) /\ MembersOf(g)' = MembersOf(g)
    BY <2>1, <1>b DEF StatusOf, MembersOf, LiveIn, RotatingIn
  <2>3. StatusOf(f) = "unused" /\ StatusOf(f)' = "open"
    BY <2>1 DEF StatusOf, MembersOf, LiveIn
  <2>4. OwnerOf(f)' = u
    BY <1>a, <2>1 DEF OwnersAgree
  <2>5. \A g \in Families \ {f} : OwnerOf(g)' = OwnerOf(g)
    <3>1. ASSUME NEW g \in Families \ {f}, NEW i \in MembersOf(g)
          PROVE  OwnerOf(g)' = OwnerOf(g)
      BY <1>a, <2>1, <3>1 DEF OwnersAgree, MembersOf
    <3>2. ASSUME NEW g \in Families \ {f}, MembersOf(g) = {}
          PROVE  OwnerOf(g)' = OwnerOf(g)
      BY <2>2, <3>2 DEF OwnerOf
    <3>3. QED
      BY <3>1, <3>2
  <2>6. Registry!Open(f, u)
    BY <2>2, <2>3, <2>4, <2>5 DEF Registry!Open
  <2>7. QED
    BY <2>6 DEF Registry!Next
<1>2. ASSUME NEW j \in Tokens, RotateRevoke(j) PROVE UNCHANGED Registry!vars
  <2>1. /\ Issued' = Issued /\ Live' = Live \ {j}
        /\ \A i \in Issued : row'[i].user = row[i].user /\ row'[i].family = row[i].family
        /\ Idle /\ j \in Live /\ rotating' = j /\ j # None
    BY <1>2, RevokeEffect, NoneIsDistinct DEF IInv, RotateRevoke
  <2>2. \A i \in Issued' : MembersOf(row'[i].family) # {}
    BY <2>1 DEF MembersOf
  <2>3. \A f \in Families : OwnerOf(f)' = OwnerOf(f)
    BY <1>a, <2>1, <2>2, OwnersKept
  <2>4. \A f \in Families : StatusOf(f)' = StatusOf(f)
    BY <2>1, <1>b DEF StatusOf, MembersOf, LiveIn, RotatingIn, Idle
  <2>5. QED
    BY <2>3, <2>4, StutterStep
<1>3. ASSUME NEW j \in Tokens, RotateInsert(j) PROVE UNCHANGED Registry!vars
  <2>1. ~Idle /\ rotating \in Issued /\ j \notin Issued /\ rotating' = None
    BY <1>3 DEF RotateInsert, IInv, Bookkeeping
  <2>2. row[rotating].user \in Users /\ row[rotating].family \in Families
    BY <2>1 DEF IInv, TypeOK, Issued, Row
  <2>3. /\ Issued' = Issued \cup {j} /\ Live' = Live \cup {j}
        /\ row'[j].family = row[rotating].family
        /\ \A i \in Issued : row'[i] = row[i]
    BY <1>3, <2>1, <2>2, InsertEffect DEF IInv, RotateInsert
  <2>4. \A i \in Issued' : MembersOf(row'[i].family) # {}
    BY <2>1, <2>3 DEF MembersOf
  <2>5. \A f \in Families : OwnerOf(f)' = OwnerOf(f)
    BY <1>a, <2>3, <2>4, OwnersKept
  <2>6. \A f \in Families : StatusOf(f)' = StatusOf(f)
    BY <2>1, <2>3, <1>b DEF StatusOf, MembersOf, LiveIn, RotatingIn, Idle
  <2>7. QED
    BY <2>5, <2>6, StutterStep
<1>4. ASSUME NEW j \in Tokens, RotateReused(j)
      PROVE  Registry!Next \/ UNCHANGED Registry!vars
  <2> DEFINE f == row[j].family
  <2>1. f \in Families
    BY <1>4 DEF RotateReused, IInv, TypeOK, Issued, Row
  <2>2. /\ \A g \in Families : OwnerOf(g)' = OwnerOf(g)
        /\ \A g \in Families :
              StatusOf(g)' = IF StatusOf(g) = "open" /\ LiveIn(g) \subseteq MembersOf(f)
                             THEN "ended" ELSE StatusOf(g)
    BY <1>4, RevokeAbstractly DEF RotateReused
  <2>3. LiveIn(f) \subseteq MembersOf(f)
    BY DEF LiveIn
  <2>4. \A g \in Families \ {f} : StatusOf(g)' = StatusOf(g)
    BY <1>4, <2>2 DEF StatusOf, LiveIn, MembersOf, RotatingIn, RotateReused
  <2>5. CASE StatusOf(f) = "open"
    BY <2>1, <2>2, <2>3, <2>4, <2>5, EndOneStep
  <2>6. CASE StatusOf(f) # "open"
    BY <2>2, <2>4, <2>6, StutterStep
  <2>7. QED
    BY <2>5, <2>6
<1>5. ASSUME NEW j \in Tokens, RevokeRefreshToken(j)
      PROVE  Registry!Next \/ UNCHANGED Registry!vars
  <2>1. PICK f \in Families : f = row[j].family /\ Idle /\ j \in Issued
    BY <1>5 DEF RevokeRefreshToken, IInv, TypeOK, Issued, Row
  <2>2. /\ \A g \in Families : OwnerOf(g)' = OwnerOf(g)
        /\ \A g \in Families :
              StatusOf(g)' = IF StatusOf(g) = "open" /\ LiveIn(g) \subseteq {j}
                             THEN "ended" ELSE StatusOf(g)
    BY <1>5, RevokeAbstractly DEF RevokeRefreshToken
  <2>3. \A g \in Families \ {f} : StatusOf(g)' = StatusOf(g)
    BY <2>1, <2>2 DEF StatusOf, LiveIn, MembersOf, RotatingIn
  <2>4. CASE j \in Live
    <3>1. LiveIn(f) = {j}
      BY <2>1, <2>4, <1>b DEF IInv, OneLiveTokenPerFamily, LiveIn, MembersOf
    <3>2. StatusOf(f) = "open"
      BY <3>1 DEF StatusOf, LiveIn
    <3>3. QED
      BY <2>1, <2>2, <2>3, <3>1, <3>2, EndOneStep
  <2>5. CASE j \notin Live
    <3>1. StatusOf(f)' = StatusOf(f)
      BY <2>1, <2>2, <2>5 DEF StatusOf, LiveIn, RotatingIn
    <3>2. QED
      BY <2>2, <2>3, <3>1, StutterStep
  <2>6. QED
    BY <2>4, <2>5
<1>6. ASSUME NEW u \in Users, RevokeAllSessionsForUser(u) PROVE Registry!Next
  <2> DEFINE S == {j \in Issued : row[j].user = u}
  <2>1. /\ Idle
        /\ \A g \in Families : OwnerOf(g)' = OwnerOf(g)
        /\ \A g \in Families :
              StatusOf(g)' = IF StatusOf(g) = "open" /\ LiveIn(g) \subseteq S
                             THEN "ended" ELSE StatusOf(g)
    BY <1>6, RevokeAbstractly DEF RevokeAllSessionsForUser
  <2>2. \A g \in Families : StatusOf(g) = "open" =>
            (LiveIn(g) \subseteq S <=> OwnerOf(g) = u)
    BY <1>a, <2>1, <1>b DEF OwnersAgree, StatusOf, LiveIn, MembersOf, RotatingIn
  <2>3. Registry!EndAllOf(u)
    BY <2>1, <2>2 DEF Registry!EndAllOf
  <2>4. QED
    BY <2>3 DEF Registry!Next
<1>7. ASSUME NEW j \in Tokens, Expire(j) PROVE UNCHANGED Registry!vars
  BY <1>7, StutterStep
     DEF Expire, StatusOf, OwnerOf, MembersOf, LiveIn, Live, Issued, RotatingIn, Idle
<1>8. CASE Crash
  <2>1. PICK s \in Families : /\ s = row[rotating].family /\ rotating \in Issued
                             /\ ~Idle /\ Idle' /\ UNCHANGED row
    BY <1>8 DEF Crash, Idle, IInv, Bookkeeping, TypeOK, Issued, Row
  <2>2. \A f \in Families : /\ MembersOf(f)' = MembersOf(f) /\ LiveIn(f)' = LiveIn(f)
                            /\ OwnerOf(f)' = OwnerOf(f)
    BY <2>1 DEF MembersOf, LiveIn, Live, Issued, OwnerOf
  <2>3. LiveIn(s) = {} /\ MembersOf(s) # {}
    BY <2>1 DEF IInv, OneLiveTokenPerFamily, MembersOf
  <2>4. StatusOf(s) = "open" /\ StatusOf(s)' = "ended"
    BY <2>1, <2>2, <2>3 DEF StatusOf, RotatingIn
  <2>5. \A f \in Families \ {s} : StatusOf(f)' = StatusOf(f)
    BY <2>1, <2>2 DEF StatusOf, RotatingIn, Idle
  <2>6. QED
    BY <2>1, <2>2, <2>4, <2>5, EndOneStep
<1>9. CASE UNCHANGED vars
  BY <1>9, StutterStep
     DEF vars, StatusOf, OwnerOf, MembersOf, LiveIn, Live, Issued, RotatingIn, Idle
<1>10. QED
  BY <1>1, <1>2, <1>3, <1>4, <1>5, <1>6, <1>7, <1>8, <1>9 DEF Next

(* The token table implements the session store: sessions end once and for *)
(* all, keep their user, and /logout-all ends exactly its user's sessions. *)
THEOREM Refinement == Spec => ImplementsRegistry
<1>1. Init => Registry!Init
  BY DEF Init, Registry!Init, StatusOf, OwnerOf, MembersOf, Issued
<1>2. IInv /\ IInv' /\ [Next]_vars => [Registry!Next]_(Registry!vars)
  BY StepRefines
<1>3. QED
  BY <1>1, <1>2, InvariantHolds, PTL DEF Spec, ImplementsRegistry, Registry!Spec

(***************************************************************************)
(* The browser and the server together.                                    *)
(***************************************************************************)
(* A family is sound while nothing happened to it that the properties name *)
(* as an exception.                                                        *)
Sound == Families \ (hurt \cup raced)

(* What a call under way can look like, by its kind and stage.             *)
CallIsMeant(s) ==
    /\ call[s].token \in Issued \cup {None}
    /\ call[s].sets \in Issued \cup {None, NoChange, Clear}
    /\ call[s].sets = None <=> call[s].stage # "answered"
    /\ call[s].kind = "login" =>
          call[s].token = None /\ call[s].stage # "rotating" /\ call[s].sets \in Tokens \cup {None}
    /\ call[s].kind = "logout" => call[s].stage # "rotating" /\ call[s].sets \notin Tokens
    /\ call[s].kind = "refresh" /\ call[s].sets \in Tokens =>
          call[s].token # None /\ parent[call[s].sets] = call[s].token
    /\ call[s].stage = "rotating" => ~Idle /\ rotating = call[s].token
    /\ call[s].token = None /\ call[s].kind # "login" => call[s].sets \in {None, NoChange}
    /\ call[s].sets = NoChange => call[s].token = None

CallsAreMeant ==
    /\ cookie \in Issued \cup {None}
    /\ \A s \in UnderWay : CallIsMeant(s)
    /\ \A s, t \in UnderWay :
          call[s].stage = "rotating" /\ call[t].stage = "rotating" => s = t

(* The token of a login is in nobody else's hands before it is delivered.  *)
LoginsAreAlone ==
    \A s \in UnderWay : call[s].kind = "login" =>
        /\ Concerns(s) \cap FamilyOf(cookie) = {}
        /\ \A t \in UnderWay \ {s} : Concerns(t) \cap Concerns(s) = {}

(* The histories have noted what they are to note of the calls under way.  *)
CallsAreNoted ==
    /\ \A s, t \in UnderWay : s # t => Concerns(s) \cap Concerns(t) \subseteq raced
    /\ \A s \in UnderWay :
          /\ call[s].kind = "logout" => Concerns(s) \subseteq loggedOut
          /\ call[s].kind = "refresh" /\ ~call[s].page => Concerns(s) \subseteq hurt

(* The jar, a call under way and the server agree on where the family is.  *)
InStep(s) ==
    \/ call[s].kind = "login" /\ call[s].sets \in Live
    \/ /\ call[s].kind # "login" /\ call[s].token = cookie
       /\ \/ call[s].stage = "sent" /\ call[s].token \in Live
          \/ call[s].stage = "rotating"
          \/ call[s].sets \in Live
          \/ call[s].sets = Clear /\ call[s].kind = "refresh" /\ call[s].token \in Live \cap expired
          \/ /\ call[s].sets = Clear /\ call[s].kind = "logout"
             /\ LiveIn(row[call[s].token].family) = {}

CallsInStep == \A s \in UnderWay : Concerns(s) \cap Sound # {} => InStep(s)

CookieInStep ==
    \A f \in FamilyOf(cookie) \cap Sound : f \notin ConcernsOf(UnderWay) => cookie \in Live

(* A logout that was sent is under way, or the family is over.             *)
LogoutSent(f) ==
    \E s \in UnderWay : call[s].kind = "logout" /\ call[s].stage = "sent" /\ f \in Concerns(s)

LogoutsTakeEffect ==
    \A f \in loggedOut :
        /\ MembersOf(f) # {}
        /\ f \in Sound => (LiveIn(f) = {} /\ ~RotatingIn(f)) \/ LogoutSent(f)

BrowserInv ==
    /\ BrowserTypeOK
    /\ IInv
    /\ CallsAreMeant
    /\ LoginsAreAlone
    /\ CallsAreNoted
    /\ CallsInStep
    /\ CookieInStep
    /\ LogoutsTakeEffect
    /\ ReuseHasACause
    /\ NoStrandedSession
    /\ TabRacesOnlyWhenLoggingOut

--------------------------------------------------------------------------------
(* The store is not disturbed by the browser: every step of the two is one *)
(* of the store, or none.                                                  *)
LEMMA BrowserStepIsAStoreStep ==
    ASSUME BrowserTypeOK, [BrowserNext]_browserVars
    PROVE  [Next]_vars
<1>1. ASSUME NEW s \in UnderWay, Serve(s) PROVE [Next]_vars
  <2>1. call[s] \in Call /\ user \in Users
    BY OneBrowser DEF BrowserTypeOK, UnderWay
  <2>2. CASE ServeLogin(s)
    BY <2>1, <2>2 DEF ServeLogin, Next
  <2>3. CASE RefuseCsrf(s)
    BY <2>3 DEF RefuseCsrf
  <2>4. CASE ServeRefresh(s)
    BY <2>1, <2>4 DEF ServeRefresh, Next, Call
  <2>5. CASE FinishRefresh(s)
    BY <2>5 DEF FinishRefresh, Next
  <2>6. CASE RefuseReused(s)
    BY <2>1, <2>6 DEF RefuseReused, Next, Call
  <2>7. CASE RefuseExpired(s)
    BY <2>7 DEF RefuseExpired
  <2>8. CASE ServeLogout(s)
    BY <2>1, <2>8 DEF ServeLogout, Next, Call
  <2>9. QED
    BY <1>1, <2>2, <2>3, <2>4, <2>5, <2>6, <2>7, <2>8 DEF Serve
<1>2. ASSUME NEW t \in Tabs, SendLogin(t) \/ SendRefresh(t) \/ SendLogout(t) \/ Reload(t)
      PROVE  UNCHANGED vars
  BY <1>2 DEF SendLogin, SendRefresh, SendLogout, Reload, Send
<1>3. ASSUME NEW s \in UnderWay, Deliver(s) \/ Lose(s) \/ Discard(s) PROVE UNCHANGED vars
  BY <1>3 DEF Deliver, Lose, Discard
<1>4. ASSUME NEW j \in Tokens, TokenExpires(j) PROVE Next
  BY <1>4 DEF TokenExpires, Next
<1>5. CASE CrashDuringRotation
  BY <1>5 DEF CrashDuringRotation, Next
<1>6. CASE UNCHANGED browserVars
  BY <1>6 DEF browserVars
<1>7. QED
  BY <1>1, <1>2, <1>3, <1>4, <1>5, <1>6 DEF BrowserNext

(* Rows are only added, and keep their family.                             *)
RowsKept ==
    /\ Issued \subseteq Issued'
    /\ \A j \in Issued : row'[j].family = row[j].family

LEMMA StoreStepKeepsRows ==
    ASSUME IInv, [Next]_vars
    PROVE  RowsKept
<1> USE DEF RowsKept
<1>1. ASSUME NEW j \in Tokens, NEW u \in Users, NEW f \in Families, IssueRefreshToken(j, u, f)
      PROVE  RowsKept
  BY <1>1, InsertEffect DEF IssueRefreshToken, IInv
<1>2. ASSUME NEW j \in Tokens, RotateInsert(j) PROVE RowsKept
  <2>1. rotating \in Issued
    BY <1>2 DEF RotateInsert, IInv, Bookkeeping
  <2>2. row[rotating].user \in Users /\ row[rotating].family \in Families
    BY <2>1 DEF IInv, TypeOK, Issued, Row
  <2>3. QED
    BY <1>2, <2>2, InsertEffect DEF RotateInsert, IInv
<1>3. ASSUME NEW S, Revoke(S) PROVE RowsKept
  BY <1>3, RevokeEffect DEF IInv
<1>4. ASSUME UNCHANGED row PROVE RowsKept
  BY <1>4 DEF Issued
<1>5. CASE UNCHANGED vars
  BY <1>4, <1>5 DEF vars
<1>6. ASSUME NEW j \in Tokens,
             RotateRevoke(j) \/ RotateReused(j) \/ RevokeRefreshToken(j)
      PROVE  RowsKept
  BY <1>3, <1>6 DEF RotateRevoke, RotateReused, RevokeRefreshToken
<1>7. ASSUME NEW u \in Users, RevokeAllSessionsForUser(u) PROVE RowsKept
  BY <1>3, <1>7 DEF RevokeAllSessionsForUser
<1>8. ASSUME NEW j \in Tokens, Expire(j) PROVE RowsKept
  BY <1>4, <1>8 DEF Expire
<1>9. CASE Crash
  BY <1>4, <1>9 DEF Crash
<1>10. QED
  BY <1>1, <1>2, <1>5, <1>6, <1>7, <1>8, <1>9 DEF Next

--------------------------------------------------------------------------------
(* What FamilyOf and Concerns are, and that they stay.                     *)
LEMMA FamilyOfFacts ==
    ASSUME TypeOK
    PROVE  /\ \A j \in Issued : FamilyOf(j) = {row[j].family} /\ row[j].family \in Families
                                /\ row[j].user \in Users
           /\ \A j \in {None, NoChange, Clear} : FamilyOf(j) = {}
           /\ Issued \subseteq Tokens /\ None \notin Tokens
           /\ NoChange \notin Tokens /\ Clear \notin Tokens
           /\ None # Clear /\ None # NoChange /\ Clear # NoChange
<1>1. \A j \in Issued : row[j] \in Row
  BY DEF TypeOK, Issued
<1>2. /\ None \notin Tokens /\ NoChange \notin Tokens /\ Clear \notin Tokens
      /\ None # Clear /\ None # NoChange
  BY NoneIsDistinct, OneBrowser
<1>3. Clear # NoChange
  BY DEF Clear, NoChange
<1>4. QED
  BY <1>1, <1>2, <1>3 DEF FamilyOf, Issued, Row

LEMMA FamilyOfStays ==
    ASSUME TypeOK, RowsKept, NEW j \in Issued \cup {None, NoChange, Clear}
    PROVE  FamilyOf(j)' = FamilyOf(j)
<1>1. j \in Tokens <=> j \in Issued
  BY FamilyOfFacts
<1>2. QED
  BY <1>1 DEF FamilyOf, RowsKept

LEMMA ConcernsStay ==
    ASSUME TypeOK, RowsKept, NEW s \in UnderWay, CallIsMeant(s),
           call'[s].token = call[s].token, call'[s].sets = call[s].sets
    PROVE  Concerns(s)' = Concerns(s)
<1>1. FamilyOf(call[s].token)' = FamilyOf(call[s].token)
  <2>1. FamilyOf(call[s].token)' = IF call'[s].token \in Tokens THEN {row'[call'[s].token].family} ELSE {}
    BY DEF FamilyOf
  <2>2. call[s].token \in Tokens => call[s].token \in Issued
    BY FamilyOfFacts DEF CallIsMeant
  <2>3. QED
    BY <2>1, <2>2 DEF FamilyOf, RowsKept
<1>2. FamilyOf(call[s].sets)' = FamilyOf(call[s].sets)
  <2>1. FamilyOf(call[s].sets)' = IF call'[s].sets \in Tokens THEN {row'[call'[s].sets].family} ELSE {}
    BY DEF FamilyOf
  <2>2. call[s].sets \in Tokens => call[s].sets \in Issued
    BY FamilyOfFacts DEF CallIsMeant
  <2>3. QED
    BY <2>1, <2>2 DEF FamilyOf, RowsKept
<1>3. QED
  BY <1>1, <1>2 DEF Concerns

(* A call is of one family.                                                *)
LEMMA OfOneFamily ==
    ASSUME IInv, NEW s \in UnderWay, call[s] \in Call, CallIsMeant(s)
    PROVE  /\ call[s].token \in Issued => Concerns(s) = {row[call[s].token].family}
           /\ call[s].sets \in Issued => Concerns(s) = {row[call[s].sets].family}
           /\ call[s].token \notin Issued /\ call[s].sets \notin Issued => Concerns(s) = {}
           /\ \A f, g \in Concerns(s) : f = g
<1> USE FamilyOfFacts DEF Concerns, CallIsMeant
<1>1. TypeOK
  BY DEF IInv
<1>2. CASE call[s].token \in Issued /\ call[s].sets \in Issued
  <2>1. call[s].kind = "refresh"
    BY <1>1, <1>2 DEF Call, Kinds
  <2>2. row[call[s].token].family = row[call[s].sets].family
    BY <1>1, <1>2, <2>1 DEF IInv, RotationIsAChain
  <2>3. QED
    BY <1>1, <1>2, <2>2
<1>3. CASE call[s].token \in Issued /\ call[s].sets \notin Issued
  BY <1>1, <1>3
<1>4. CASE call[s].token \notin Issued /\ call[s].sets \in Issued
  BY <1>1, <1>4
<1>5. CASE call[s].token \notin Issued /\ call[s].sets \notin Issued
  BY <1>1, <1>5
<1>6. QED
  BY <1>2, <1>3, <1>4, <1>5

--------------------------------------------------------------------------------
(* Where the jar goes when an answer is applied.                           *)
LEMMA CookieAfterFacts ==
    ASSUME IInv, CallsAreMeant, NEW s \in UnderWay, call[s] \in Call, call[s].stage = "answered"
    PROVE  /\ call[s].sets \in Issued => CookieAfter(s) = call[s].sets
           /\ call[s].sets = Clear => CookieAfter(s) = None
           /\ call[s].sets = NoChange => CookieAfter(s) = cookie
           /\ call[s].sets \in Issued \cup {Clear, NoChange}
           /\ CookieAfter(s) \in Issued \cup {None}
<1>1. TypeOK /\ CallIsMeant(s) /\ cookie \in Issued \cup {None}
  BY DEF IInv, CallsAreMeant
<1>2. call[s].sets \in Issued \cup {Clear, NoChange}
  BY <1>1 DEF CallIsMeant
<1>3. QED
  BY <1>1, <1>2, FamilyOfFacts DEF CookieAfter

(* A call ends: its answer is applied, or its family is noted as hurt.     *)
LEMMA EndKeepsInv ==
    ASSUME BrowserInv, IInv', NEW s \in UnderWay,
           call' = [call EXCEPT ![s] = None],
           UNCHANGED <<row, expired, parent, reused, raced, tabRaced, loggedOut>>,
           rotating' = IF call[s].stage = "rotating" THEN None ELSE rotating,
           access' \in [Tabs -> BOOLEAN], shows' \in [Tabs -> {"loading", "login", "console"}],
           hurt \subseteq hurt', hurt' \subseteq Families,
           \/ cookie' = cookie
           \/ /\ cookie' = CookieAfter(s) /\ call[s].stage = "answered"
              /\ Overwritten(s) \subseteq hurt',
           \/ Concerns(s) \subseteq hurt'
           \/ cookie' = CookieAfter(s) /\ call[s].stage = "answered"
    PROVE  BrowserInv'
<1>1. /\ BrowserTypeOK /\ IInv /\ TypeOK /\ CallsAreMeant /\ LoginsAreAlone /\ CallsAreNoted
      /\ CallsInStep /\ CookieInStep /\ LogoutsTakeEffect /\ ReuseHasACause
      /\ NoStrandedSession /\ TabRacesOnlyWhenLoggingOut
  BY DEF BrowserInv, BrowserTypeOK
<1>2. /\ UnderWay' = UnderWay \ {s}
      /\ \A t \in UnderWay' : call'[t] = call[t] /\ t \in UnderWay
      /\ \A t \in UnderWay : call[t] \in Call /\ CallIsMeant(t)
  BY <1>1 DEF BrowserTypeOK, UnderWay, CallsAreMeant
<1>3. /\ RowsKept /\ Issued' = Issued /\ Live' = Live
      /\ \A f : MembersOf(f)' = MembersOf(f) /\ LiveIn(f)' = LiveIn(f)
      /\ \A f : RotatingIn(f)' => RotatingIn(f)
  BY <1>1, FamilyOfFacts DEF RowsKept, Issued, Live, MembersOf, LiveIn, RotatingIn, Idle
<1>4. \A t \in UnderWay' : Concerns(t)' = Concerns(t)
  BY <1>1, <1>2, <1>3, ConcernsStay
<1>5. Sound' \subseteq Sound /\ (Sound' \cap hurt' = {}) /\ (Sound' \cap raced = {})
  BY DEF Sound
<1>6. /\ cookie' \in Issued \cup {None}
      /\ FamilyOf(cookie)' \subseteq FamilyOf(cookie) \cup Concerns(s)
      /\ cookie' # cookie => FamilyOf(cookie)' \subseteq Concerns(s)
      /\ cookie' # cookie => FamilyOf(cookie) \subseteq hurt' \cup Concerns(s)
      /\ cookie' # cookie => call[s].stage = "answered" /\ cookie' = CookieAfter(s)
  <2>1. CASE cookie' = cookie
    BY <1>1, <2>1 DEF CallsAreMeant, FamilyOf
  <2>2. CASE cookie' # cookie
    <3>1. /\ cookie' = CookieAfter(s) /\ call[s].stage = "answered"
          /\ FamilyOf(cookie) \subseteq hurt' \cup Concerns(s)
      BY <2>2 DEF Overwritten
    <3>2. /\ cookie' \in Issued \cup {None}
          /\ cookie' = call[s].sets \/ cookie' = None
      BY <1>1, <1>2, <2>2, <3>1, CookieAfterFacts
    <3>3. FamilyOf(cookie)' = FamilyOf(cookie')
      BY DEF FamilyOf
    <3>4. FamilyOf(cookie') \subseteq Concerns(s)
      BY <1>1, <3>2, FamilyOfFacts DEF Concerns
    <3>5. QED
      BY <2>2, <3>1, <3>2, <3>3, <3>4
  <2>3. QED
    BY <2>1, <2>2
<1>7. (* a sound family that the call is of has got its answer *)
      ASSUME NEW f \in Concerns(s), f \in Sound'
      PROVE  /\ call[s].stage = "answered" /\ cookie' = CookieAfter(s) /\ InStep(s)
             /\ call[s].kind = "login" => f \notin FamilyOf(cookie) /\ call[s].sets \in Live
             /\ call[s].kind # "login" =>
                   /\ call[s].token = cookie /\ cookie \in Issued /\ row[cookie].family = f
                   /\ call[s].sets \in Live \/ call[s].sets = Clear
  <2>1. call[s].stage = "answered" /\ cookie' = CookieAfter(s) /\ InStep(s)
    BY <1>1, <1>5, <1>7 DEF CallsInStep
  <2>2. call[s].kind = "login" => f \notin FamilyOf(cookie) /\ call[s].sets \in Live
    BY <1>1, <1>7, <2>1 DEF LoginsAreAlone, InStep
  <2>3. ASSUME call[s].kind # "login"
        PROVE  /\ call[s].token = cookie /\ cookie \in Issued /\ row[cookie].family = f
               /\ call[s].sets \in Live \/ call[s].sets = Clear
    <3>1. call[s].token \in Issued
      BY <1>1, <1>2, <1>7, <2>3, OfOneFamily, FamilyOfFacts DEF CallIsMeant
    <3>2. QED
      BY <1>1, <1>2, <1>7, <2>1, <2>3, <3>1, OfOneFamily DEF InStep
  <2>4. QED
    BY <2>1, <2>2, <2>3
<1>8. BrowserTypeOK'
  BY <1>1, <1>6, <1>3, FamilyOfFacts DEF BrowserTypeOK, UnderWay, IInv
<1>9. CallsAreMeant'
  <2>1. ASSUME NEW t \in UnderWay' PROVE CallIsMeant(t)'
    <3>1. call[t].stage = "rotating" => call[s].stage # "rotating"
      BY <1>1, <1>2, <2>1 DEF CallsAreMeant
    <3>2. QED
      BY <1>2, <1>3, <2>1, <3>1 DEF CallIsMeant, Idle
  <2>2. QED
    BY <1>1, <1>2, <1>3, <1>6, <2>1 DEF CallsAreMeant
<1>10. LoginsAreAlone'
  BY <1>1, <1>2, <1>4, <1>6 DEF LoginsAreAlone
<1>11. CallsAreNoted'
  BY <1>1, <1>2, <1>4 DEF CallsAreNoted
<1>12. CallsInStep'
  <2>1. ASSUME NEW t \in UnderWay', NEW f \in Concerns(t), f \in Sound' PROVE InStep(t)'
    <3>1. InStep(t) /\ f \notin Concerns(s) /\ t # s
      BY <1>1, <1>2, <1>5, <2>1 DEF CallsInStep, CallsAreNoted
    <3>2. CASE call[t].kind = "login"
      BY <1>2, <1>3, <2>1, <3>1, <3>2 DEF InStep
    <3>3. CASE call[t].kind # "login"
      <4>1. call[t].token \in Issued
        BY <1>1, <1>2, <2>1, <3>3, OfOneFamily, FamilyOfFacts DEF CallIsMeant
      <4>2. f \in FamilyOf(cookie)
        BY <1>1, <1>2, <2>1, <3>1, <3>3, <4>1, OfOneFamily, FamilyOfFacts DEF InStep
      <4>3. cookie' = cookie
        BY <1>5, <1>6, <2>1, <3>1, <4>2
      <4>4. QED
        BY <1>2, <1>3, <2>1, <3>1, <3>3, <4>3 DEF InStep
    <3>4. QED
      BY <3>2, <3>3
  <2>2. QED
    BY <1>4, <2>1 DEF CallsInStep
<1>13. CookieInStep'
  <2>1. ASSUME NEW f \in FamilyOf(cookie)', f \in Sound', f \notin ConcernsOf(UnderWay)'
        PROVE  cookie' \in Live
    <3>1. \A t \in UnderWay \ {s} : f \notin Concerns(t)
      BY <1>2, <1>4, <2>1 DEF ConcernsOf
    <3>2. CASE f \notin Concerns(s)
      BY <1>1, <1>5, <1>6, <2>1, <3>1, <3>2 DEF CookieInStep, ConcernsOf
    <3>3. CASE f \in Concerns(s)
      <4>1. cookie' = None \/ call[s].sets \in Live
        BY <1>1, <1>2, <1>7, <2>1, <3>3, CookieAfterFacts
      <4>2. cookie' # None
        BY <1>1, <2>1, FamilyOfFacts DEF FamilyOf
      <4>3. cookie' = call[s].sets
        BY <1>1, <1>2, <1>7, <2>1, <3>3, <4>1, <4>2, CookieAfterFacts DEF Live
      <4>4. QED
        BY <4>1, <4>2, <4>3
    <3>4. QED
      BY <3>2, <3>3
  <2>2. QED
    BY <1>3, <2>1 DEF CookieInStep
<1>14. LogoutsTakeEffect'
  <2>1. ASSUME NEW f \in loggedOut, f \in Sound', LogoutSent(f) PROVE LogoutSent(f)'
    <3>1. PICK t \in UnderWay : call[t].kind = "logout" /\ call[t].stage = "sent" /\ f \in Concerns(t)
      BY <2>1 DEF LogoutSent
    <3>2. t # s
      BY <1>7, <2>1, <3>1
    <3>3. QED
      BY <1>2, <1>4, <3>1, <3>2 DEF LogoutSent
  <2>2. QED
    BY <1>1, <1>3, <1>5, <2>1 DEF LogoutsTakeEffect
<1>15. ReuseHasACause'
  BY <1>1 DEF ReuseHasACause
<1>16. NoStrandedSession'
  <2>1. ASSUME NEW j \in Live, j \notin expired, row[j].family \in Sound'
        PROVE  cookie' = j \/ \E t \in UnderWay' : call'[t].sets = j
    <3>1. j \in Issued /\ row[j].family \in Sound
      BY <1>5, <2>1 DEF Live
    <3>2. CASE cookie = j /\ cookie' # cookie
      <4>1. row[j].family \in Concerns(s)
        BY <1>1, <1>5, <1>6, <2>1, <3>1, <3>2, FamilyOfFacts
      <4>2. /\ call[s].stage = "answered" /\ cookie' = CookieAfter(s) /\ InStep(s)
            /\ call[s].kind # "login" /\ call[s].token = j
            /\ call[s].sets \in Live \/ call[s].sets = Clear
        BY <1>1, <1>7, <2>1, <3>1, <3>2, <4>1, FamilyOfFacts
      <4>3. CASE call[s].sets \in Live
        <5>1. row[call[s].sets].family = row[j].family
          BY <1>1, <1>2, <4>1, <4>3, OfOneFamily DEF Live
        <5>2. call[s].sets = j
          BY <1>1, <2>1, <4>3, <5>1 DEF IInv, OneLiveTokenPerFamily
        <5>3. QED
          BY <1>1, <1>2, <3>1, <4>2, <5>2, CookieAfterFacts
      <4>4. CASE call[s].sets = Clear /\ call[s].sets \notin Live
        <5>1. j \notin LiveIn(row[j].family)
          BY <2>1, <4>2, <4>4, <1>2 DEF InStep, CallIsMeant
        <5>2. QED
          BY <2>1, <3>1, <5>1 DEF LiveIn, MembersOf
      <4>5. QED
        BY <4>2, <4>3, <4>4
    <3>3. CASE \E t \in UnderWay : call[t].sets = j
      <4>1. PICK t \in UnderWay : call[t].sets = j
        BY <3>3
      <4>2. CASE t # s
        BY <1>2, <4>1, <4>2
      <4>3. CASE t = s
        <5>1. row[j].family \in Concerns(s)
          BY <1>1, <1>2, <3>1, <4>1, <4>3, OfOneFamily
        <5>2. QED
          BY <1>1, <1>2, <1>7, <2>1, <3>1, <4>1, <4>3, <5>1, CookieAfterFacts
      <4>4. QED
        BY <4>2, <4>3
    <3>4. cookie = j \/ \E t \in UnderWay : call[t].sets = j
      BY <1>1, <1>5, <2>1 DEF NoStrandedSession, Sound
    <3>5. QED
      BY <3>2, <3>3, <3>4
  <2>2. \A j \in Live : row[j].family \in Families
    BY <1>1, FamilyOfFacts DEF Live
  <2>3. QED
    BY <1>3, <2>1, <2>2 DEF NoStrandedSession, Sound
<1>17. TabRacesOnlyWhenLoggingOut'
  BY <1>1 DEF TabRacesOnlyWhenLoggingOut
<1>18. QED
  BY <1>8, <1>9, <1>10, <1>11, <1>12, <1>13, <1>14, <1>15, <1>16, <1>17 DEF BrowserInv

--------------------------------------------------------------------------------
(* A call is sent with the cookie of the moment, or without one.           *)
LEMMA SendKeepsInv ==
    ASSUME BrowserInv, IInv', NEW t \in Tabs, NEW kind \in Kinds, NEW token \in {None, cookie},
           Send(t, kind, token),
           kind = "login" => token = None,
           kind = "refresh" => ~Waiting(t, {"refresh"}),
           loggedOut' = IF kind = "logout" THEN loggedOut \cup FamilyOf(token) ELSE loggedOut
    PROVE  BrowserInv'
<1>1. /\ BrowserTypeOK /\ IInv /\ TypeOK /\ CallsAreMeant /\ LoginsAreAlone /\ CallsAreNoted
      /\ CallsInStep /\ CookieInStep /\ LogoutsTakeEffect /\ ReuseHasACause
      /\ NoStrandedSession /\ TabRacesOnlyWhenLoggingOut
  BY DEF BrowserInv, BrowserTypeOK
<1>2. PICK s \in Slots \ UnderWay :
        call' = [call EXCEPT ![s] = [tab |-> t, kind |-> kind, token |-> token,
                                     stage |-> "sent", page |-> TRUE, sets |-> None]]
  BY DEF Send
<1>3. /\ UNCHANGED <<vars, cookie, tabVars, hurt>>
      /\ raced' = raced \cup (FamilyOf(token) \cap ConcernsOf(UnderWay))
      /\ tabRaced' = tabRaced \cup
            (FamilyOf(token) \cap ConcernsOf({r \in UnderWay : call[r].tab = t}))
  BY DEF Send
<1>4. /\ token \in Issued \cup {None}
      /\ token \in Issued => token = cookie /\ FamilyOf(token) = {row[token].family}
      /\ token = None => FamilyOf(token) = {}
      /\ FamilyOf(token) \subseteq Families
  BY <1>1, FamilyOfFacts DEF CallsAreMeant
<1>5. call'[s] \in Call
  BY <1>1, <1>2, <1>4, FamilyOfFacts DEF BrowserTypeOK, Call
<1>6. /\ UnderWay' = UnderWay \cup {s}
      /\ \A r \in UnderWay : call'[r] = call[r] /\ call[r] \in Call /\ CallIsMeant(r) /\ r # s
      /\ call'[s].kind = kind /\ call'[s].token = token /\ call'[s].stage = "sent"
      /\ call'[s].page = TRUE /\ call'[s].sets = None
  BY <1>1, <1>2, <1>5, OneBrowser DEF BrowserTypeOK, UnderWay, CallsAreMeant
<1>7. /\ RowsKept /\ Issued' = Issued /\ Live' = Live /\ FamilyOf(cookie)' = FamilyOf(cookie)
      /\ \A f : MembersOf(f)' = MembersOf(f) /\ LiveIn(f)' = LiveIn(f)
      /\ \A f : RotatingIn(f)' <=> RotatingIn(f)
  BY <1>3 DEF vars, RowsKept, Issued, Live, MembersOf, LiveIn, RotatingIn, Idle, FamilyOf
<1>8. \A r \in UnderWay : Concerns(r)' = Concerns(r)
  BY <1>1, <1>6, <1>7, ConcernsStay
<1>9. Concerns(s)' = FamilyOf(token)
  <2>1. Concerns(s)' = FamilyOf(token)' \cup FamilyOf(None)'
    BY <1>6 DEF Concerns, FamilyOf
  <2>2. QED
    BY <1>1, <1>4, <1>7, <2>1, FamilyOfFacts, FamilyOfStays
<1>10. Sound' \subseteq Sound /\ Sound' \cap raced' = {}
  BY <1>3 DEF Sound
<1>11. BrowserTypeOK'
  <2>1. call' \in [Slots -> Call \cup {None}]
    BY <1>1, <1>2, <1>5 DEF BrowserTypeOK
  <2>2. raced' \subseteq Families /\ tabRaced' \subseteq Families /\ loggedOut' \subseteq Families
    BY <1>1, <1>3, <1>4 DEF BrowserTypeOK
  <2>3. QED
    BY <1>1, <1>3, <2>1, <2>2 DEF BrowserTypeOK, TypeOK, vars, tabVars
<1>12. CallsAreMeant'
  <2>1. CallIsMeant(s)'
    BY <1>1, <1>4, <1>6, <1>7, FamilyOfFacts DEF CallIsMeant
  <2>2. ASSUME NEW r \in UnderWay PROVE CallIsMeant(r)'
    BY <1>3, <1>6, <1>7, <2>2 DEF CallIsMeant, Idle, vars
  <2>3. QED
    BY <1>1, <1>3, <1>6, <1>7, <2>1, <2>2 DEF CallsAreMeant
<1>13. LoginsAreAlone'
  BY <1>1, <1>4, <1>6, <1>7, <1>8, <1>9 DEF LoginsAreAlone
<1>14. CallsAreNoted'
  <2>1. \A r \in UnderWay : Concerns(r) \cap FamilyOf(token) \subseteq raced'
    BY <1>3 DEF ConcernsOf
  <2>2. QED
    BY <1>1, <1>3, <1>6, <1>8, <1>9, <2>1 DEF CallsAreNoted
<1>15. CallsInStep'
  <2>1. ASSUME NEW f \in FamilyOf(token), f \in Sound' PROVE InStep(s)'
    <3>1. f \notin ConcernsOf(UnderWay)
      BY <1>3, <1>10, <2>1
    <3>2. token = cookie /\ cookie \in Live
      BY <1>1, <1>4, <1>10, <2>1, <3>1 DEF CookieInStep
    <3>3. kind # "login"
      BY <1>4, <2>1
    <3>4. QED
      BY <1>3, <1>6, <1>7, <3>2, <3>3 DEF InStep
  <2>2. ASSUME NEW r \in UnderWay, Concerns(r) \cap Sound' # {} PROVE InStep(r)'
    <3>1. InStep(r)
      BY <1>1, <1>10, <2>2 DEF CallsInStep
    <3>2. QED
      BY <1>3, <1>6, <1>7, <2>2, <3>1 DEF InStep, vars
  <2>3. QED
    BY <1>6, <1>8, <1>9, <2>1, <2>2 DEF CallsInStep
<1>16. CookieInStep'
  <2>1. ConcernsOf(UnderWay) \subseteq ConcernsOf(UnderWay)'
    BY <1>6, <1>8 DEF ConcernsOf
  <2>2. QED
    BY <1>1, <1>3, <1>7, <1>10, <2>1 DEF CookieInStep
<1>17. LogoutsTakeEffect'
  <2>1. \A f : LogoutSent(f) => LogoutSent(f)'
    BY <1>6, <1>8 DEF LogoutSent
  <2>2. ASSUME NEW f \in FamilyOf(token), kind = "logout"
        PROVE  MembersOf(f) # {} /\ LogoutSent(f)'
    BY <1>4, <1>6, <1>9, <2>2 DEF LogoutSent, MembersOf
  <2>3. QED
    BY <1>1, <1>7, <1>10, <2>1, <2>2 DEF LogoutsTakeEffect
<1>18. ReuseHasACause'
  BY <1>1, <1>3 DEF ReuseHasACause, vars
<1>19. NoStrandedSession'
  <2>1. ASSUME NEW j \in Live, \E r \in UnderWay : call[r].sets = j
        PROVE  \E r \in UnderWay' : call'[r].sets = j
    BY <1>6, <2>1
  <2>2. QED
    BY <1>1, <1>3, <1>7, <2>1 DEF NoStrandedSession, vars
<1>20. TabRacesOnlyWhenLoggingOut'
  <2>1. ASSUME NEW r \in UnderWay, call[r].tab = t, NEW f \in FamilyOf(token) \cap Concerns(r)
        PROVE  f \in hurt \cup loggedOut'
    <3>1. f \in FamilyOf(cookie) /\ kind # "login"
      BY <1>4, <2>1
    <3>2. CASE call[r].kind = "login"
      BY <1>1, <2>1, <3>1, <3>2 DEF LoginsAreAlone
    <3>3. CASE call[r].kind = "logout"
      BY <1>1, <2>1, <3>3 DEF CallsAreNoted
    <3>4. CASE call[r].kind = "refresh" /\ kind = "refresh"
      <4>1. ~call[r].page
        BY <2>1, <3>4 DEF Waiting
      <4>2. QED
        BY <1>1, <2>1, <3>4, <4>1 DEF CallsAreNoted
    <3>5. CASE kind = "logout"
      BY <2>1, <3>5
    <3>6. QED
      BY <1>6, <3>1, <3>2, <3>3, <3>4, <3>5 DEF Call, Kinds
  <2>2. QED
    BY <1>1, <1>3, <2>1 DEF TabRacesOnlyWhenLoggingOut, ConcernsOf
<1>21. QED
  BY <1>11, <1>12, <1>13, <1>14, <1>15, <1>16, <1>17, <1>18, <1>19, <1>20 DEF BrowserInv

--------------------------------------------------------------------------------
(* A step of a handler touches only the family its call is of, which for a *)
(* login is a new one.  The four facts on Concerns(s) and Live say so; the *)
(* rest says how the call itself is left.                                  *)
LEMMA ServeKeepsInv ==
    ASSUME BrowserInv, IInv', RowsKept, NEW s \in UnderWay,
           Idle \/ call[s].stage = "rotating", call[s].stage # "answered",
           call' \in [Slots -> Call \cup {None}], call'[s] \in Call,
           \A t \in Slots \ {s} : call'[t] = call[t],
           call'[s].kind = call[s].kind, call'[s].token = call[s].token,
           call'[s].page = call[s].page,
           UNCHANGED <<expired, cookie, tabVars, history>>,
           \A j \in Issued : parent'[j] = parent[j],
           reused' \subseteq hurt \cup raced,
           CallIsMeant(s)',
           \/ Concerns(s)' = Concerns(s)
           \/ /\ Concerns(s) = {}
              /\ Concerns(s)' \cap (FamilyOf(cookie) \cup loggedOut) = {}
              /\ \A t \in UnderWay \ {s} : Concerns(s)' \cap Concerns(t) = {}
              /\ call[s].kind = "login",
           \A j \in Issued' : row'[j].family \notin Concerns(s)' =>
              j \in Issued /\ (j \in Live' <=> j \in Live),
           \A j \in Live' \ Live : call'[s].sets = j,
           \A f \in Families : RotatingIn(f)' => RotatingIn(f) \/ f \in Concerns(s)',
           Concerns(s)' \cap Sound # {} => InStep(s)',
           \A f \in Concerns(s) \cap Sound \cap loggedOut : LiveIn(f)' = {} /\ ~RotatingIn(f)'
    PROVE  BrowserInv'
<1>1. /\ BrowserTypeOK /\ IInv /\ TypeOK /\ CallsAreMeant /\ LoginsAreAlone /\ CallsAreNoted
      /\ CallsInStep /\ CookieInStep /\ LogoutsTakeEffect /\ ReuseHasACause
      /\ NoStrandedSession /\ TabRacesOnlyWhenLoggingOut
  BY DEF BrowserInv, BrowserTypeOK
<1>2. /\ UNCHANGED <<expired, cookie, access, shows, hurt, raced, tabRaced, loggedOut>>
      /\ Sound' = Sound
  BY DEF tabVars, history, Sound
<1>3. /\ UnderWay' = UnderWay
      /\ \A t \in UnderWay : call[t] \in Call /\ CallIsMeant(t) /\ call'[t].kind = call[t].kind
      /\ \A t \in UnderWay \ {s} : call'[t] = call[t]
  BY <1>1, OneBrowser DEF BrowserTypeOK, UnderWay, CallsAreMeant
<1>4. \A t \in UnderWay \ {s} : Concerns(t)' = Concerns(t)
  BY <1>1, <1>3, ConcernsStay
<1>5. /\ FamilyOf(cookie)' = FamilyOf(cookie)
      /\ cookie \in Tokens => cookie \in Issued
  BY <1>1, <1>2, FamilyOfFacts DEF CallsAreMeant, FamilyOf, RowsKept
<1>6. \A t \in UnderWay \ {s} : call[t].stage # "rotating"
  BY <1>1, <1>3 DEF CallIsMeant, CallsAreMeant
<1>7. Concerns(s) \subseteq Concerns(s)'
  OBVIOUS
<1>8. \A f \in Families \ Concerns(s)' : LiveIn(f)' = LiveIn(f)
  <2>1. ASSUME NEW f \in Families, f \notin Concerns(s)', NEW j
        PROVE  j \in LiveIn(f)' <=> j \in LiveIn(f)
    BY <2>1 DEF LiveIn, MembersOf, RowsKept, Live
  <2>2. QED
    BY <2>1
<1>9. BrowserTypeOK'
  BY <1>1, <1>2 DEF BrowserTypeOK, IInv
<1>10. CallsAreMeant'
  <2>1. ASSUME NEW t \in UnderWay, t # s PROVE CallIsMeant(t)'
    <3>1. CallIsMeant(t) /\ call'[t] = call[t] /\ call[t].stage # "rotating"
      BY <1>3, <1>6, <2>1
    <3>2. call[t].sets \in Tokens => call[t].sets \in Issued
      BY <1>1, <3>1, FamilyOfFacts DEF CallIsMeant
    <3>3. QED
      BY <3>1, <3>2 DEF CallIsMeant, RowsKept
  <2>2. QED
    BY <1>1, <1>2, <1>3, <1>6, <2>1 DEF CallsAreMeant, RowsKept
<1>11. LoginsAreAlone'
  BY <1>1, <1>3, <1>4, <1>5 DEF LoginsAreAlone
<1>12. CallsAreNoted'
  <2>1. ASSUME NEW t \in UnderWay, NEW r \in UnderWay, t # r
        PROVE  Concerns(t)' \cap Concerns(r)' \subseteq raced
    BY <1>1, <1>4, <2>1 DEF CallsAreNoted
  <2>2. ASSUME NEW t \in UnderWay
        PROVE  /\ call'[t].kind = "logout" => Concerns(t)' \subseteq loggedOut
               /\ call'[t].kind = "refresh" /\ ~call'[t].page => Concerns(t)' \subseteq hurt
    BY <1>1, <1>3, <1>4, <2>2 DEF CallsAreNoted
  <2>3. QED
    BY <1>2, <1>3, <2>1, <2>2 DEF CallsAreNoted
<1>13. (* the family of another call is not the one of this call *)
       \A t \in UnderWay \ {s} : \A f \in Concerns(t) \cap Sound : f \notin Concerns(s)'
  BY <1>1 DEF CallsAreNoted, Sound
<1>14. CallsInStep'
  <2>1. ASSUME NEW t \in UnderWay, t # s, NEW f \in Concerns(t), f \in Sound
        PROVE  InStep(t)'
    <3>1. InStep(t) /\ f \notin Concerns(s)' /\ f \in Families
      BY <1>1, <1>13, <2>1 DEF CallsInStep, Sound
    <3>2. /\ call[t].token \in Issued => row[call[t].token].family = f
          /\ call[t].sets \in Issued => row[call[t].sets].family = f
      BY <1>1, <1>3, <2>1, OfOneFamily
    <3>3. /\ call[t].token \in Live => call[t].token \in Live'
          /\ call[t].sets \in Live => call[t].sets \in Live'
      BY <3>1, <3>2 DEF Live, RowsKept
    <3>4. CASE call[t].kind = "login"
      BY <1>3, <2>1, <3>1, <3>3, <3>4 DEF InStep
    <3>5. CASE call[t].kind # "login"
      <4>1. call[t].token \in Issued
        BY <1>1, <1>3, <2>1, <3>5, OfOneFamily, FamilyOfFacts DEF CallIsMeant
      <4>2. LiveIn(row[call[t].token].family)' = LiveIn(row[call[t].token].family)
        <5>1. call'[t] = call[t] /\ row'[call[t].token].family = f
          BY <1>3, <2>1, <3>2, <4>1 DEF RowsKept
        <5>2. LiveIn(row[call[t].token].family)' = LiveIn(f)'
          BY <5>1 DEF LiveIn, MembersOf
        <5>3. QED
          BY <1>8, <3>1, <3>2, <4>1, <5>2
      <4>3. QED
        BY <1>2, <1>3, <2>1, <3>1, <3>3, <3>5, <4>2 DEF InStep
    <3>6. QED
      BY <3>4, <3>5
  <2>2. QED
    BY <1>2, <1>3, <1>4, <2>1 DEF CallsInStep
<1>15. CookieInStep'
  <2>1. ASSUME NEW f \in FamilyOf(cookie), f \in Sound, f \notin ConcernsOf(UnderWay)'
        PROVE  cookie \in Live'
    <3>1. f \notin Concerns(s)' /\ f \notin ConcernsOf(UnderWay)
      BY <1>3, <1>4, <1>7, <2>1 DEF ConcernsOf
    <3>2. cookie \in Live /\ row[cookie].family = f
      BY <1>1, <1>5, <2>1, <3>1 DEF CookieInStep, FamilyOf
    <3>3. QED
      BY <3>1, <3>2 DEF Live, RowsKept
  <2>2. QED
    BY <1>2, <1>5, <2>1 DEF CookieInStep
<1>16. LogoutsTakeEffect'
  <2>1. ASSUME NEW f \in loggedOut PROVE MembersOf(f)' # {}
    BY <1>1, <2>1 DEF LogoutsTakeEffect, MembersOf, RowsKept
  <2>2. ASSUME NEW f \in loggedOut, f \in Sound
        PROVE  (LiveIn(f)' = {} /\ ~RotatingIn(f)') \/ LogoutSent(f)'
    <3>1. CASE f \in Concerns(s)'
      BY <2>2, <3>1
    <3>2. CASE f \notin Concerns(s)' /\ LogoutSent(f)
      <4>1. PICK t \in UnderWay : call[t].kind = "logout" /\ call[t].stage = "sent" /\ f \in Concerns(t)
        BY <3>2 DEF LogoutSent
      <4>2. t # s
        BY <1>7, <3>2, <4>1
      <4>3. QED
        BY <1>3, <1>4, <4>1, <4>2 DEF LogoutSent
    <3>3. CASE f \notin Concerns(s)' /\ LiveIn(f) = {} /\ ~RotatingIn(f)
      BY <1>8, <2>2, <3>3 DEF Sound
    <3>4. QED
      BY <1>1, <2>2, <3>1, <3>2, <3>3 DEF LogoutsTakeEffect
  <2>3. QED
    BY <1>2, <2>1, <2>2 DEF LogoutsTakeEffect
<1>17. ReuseHasACause'
  BY <1>2 DEF ReuseHasACause
<1>18. NoStrandedSession'
  <2>1. ASSUME NEW j \in Live', j \notin expired, row'[j].family \in Sound
        PROVE  cookie = j \/ \E t \in UnderWay : call'[t].sets = j
    <3>1. CASE j \in Live
      <4>1. row[j].family \in Sound /\ j # None
        BY <1>1, <2>1, <3>1, FamilyOfFacts DEF RowsKept, Live
      <4>2. cookie = j \/ \E t \in UnderWay : call[t].sets = j
        BY <1>1, <2>1, <3>1, <4>1 DEF NoStrandedSession, Sound
      <4>3. ASSUME NEW t \in UnderWay, call[t].sets = j PROVE call'[t].sets = j
        BY <1>3, <4>1, <4>3 DEF CallIsMeant
      <4>4. QED
        BY <4>2, <4>3
    <3>2. CASE j \notin Live
      BY <2>1, <3>2
    <3>3. QED
      BY <3>1, <3>2
  <2>2. \A j \in Live' : row'[j].family \in Families
    <3>1. TypeOK'
      BY DEF IInv
    <3>2. QED
      BY <3>1 DEF TypeOK, Live, Issued, Row
  <2>3. QED
    BY <1>2, <1>3, <2>1, <2>2 DEF NoStrandedSession, Sound
<1>19. TabRacesOnlyWhenLoggingOut'
  BY <1>1, <1>2 DEF TabRacesOnlyWhenLoggingOut
<1>20. QED
  BY <1>9, <1>10, <1>11, <1>12, <1>14, <1>15, <1>16, <1>17, <1>18, <1>19 DEF BrowserInv

--------------------------------------------------------------------------------
LEMMA AnswerEffect ==
    ASSUME call \in [Slots -> Call \cup {None}], NEW s \in UnderWay,
           NEW x \in Tokens \cup {NoChange, Clear}, Answer(s, x)
    PROVE  /\ call' \in [Slots -> Call \cup {None}] /\ call'[s] \in Call
           /\ call'[s].kind = call[s].kind /\ call'[s].token = call[s].token
           /\ call'[s].page = call[s].page /\ call'[s].tab = call[s].tab
           /\ call'[s].stage = "answered" /\ call'[s].sets = x
           /\ \A t \in Slots \ {s} : call'[t] = call[t]
<1>1. call[s] \in Call /\ s \in Slots
  BY DEF UnderWay
<1>2. call'[s] = [call[s] EXCEPT !.stage = "answered", !.sets = x]
  BY <1>1 DEF Answer
<1>3. call'[s] \in Call
  BY <1>1, <1>2 DEF Call
<1>4. /\ call' \in [Slots -> Call \cup {None}]
      /\ \A t \in Slots \ {s} : call'[t] = call[t]
  BY <1>1, <1>2, <1>3 DEF Answer
<1>5. QED
  BY <1>1, <1>2, <1>3, <1>4 DEF Call

(* Of a sound family that was logged out, only the logout itself finds     *)
(* anything that is still alive.                                           *)
LEMMA OnlyTheLogoutRemains ==
    ASSUME BrowserInv, NEW s \in UnderWay, call[s].kind # "logout",
           NEW f \in Concerns(s) \cap Sound \cap loggedOut
    PROVE  LiveIn(f) = {} /\ ~RotatingIn(f)
<1>1. ~LogoutSent(f)
  BY DEF LogoutSent, BrowserInv, CallsAreNoted, Sound
<1>2. QED
  BY <1>1 DEF BrowserInv, LogoutsTakeEffect

(* What the handlers may rely on of a call that was sent.                  *)
LEMMA SentFacts ==
    ASSUME BrowserInv, NEW s \in UnderWay, call[s].stage \in {"sent", "rotating"}
    PROVE  /\ TypeOK /\ IInv /\ call \in [Slots -> Call \cup {None}]
           /\ call[s] \in Call /\ CallIsMeant(s) /\ call[s].sets = None
           /\ call[s].token \in Issued \cup {None}
           /\ Concerns(s) = FamilyOf(call[s].token)
           /\ call[s].token \in Issued => Concerns(s) = {row[call[s].token].family}
           /\ call[s].kind # "login" /\ Concerns(s) \cap Sound # {} =>
                 /\ call[s].token = cookie
                 /\ call[s].stage = "sent" => call[s].token \in Live
<1>1. /\ TypeOK /\ IInv /\ call \in [Slots -> Call \cup {None}]
      /\ call[s] \in Call /\ CallIsMeant(s)
  BY DEF BrowserInv, BrowserTypeOK, UnderWay, CallsAreMeant
<1>2. /\ call[s].sets = None /\ call[s].token \in Issued \cup {None}
  BY <1>1 DEF CallIsMeant
<1>3. /\ Concerns(s) = FamilyOf(call[s].token)
      /\ call[s].token \in Issued => Concerns(s) = {row[call[s].token].family}
  BY <1>1, <1>2, FamilyOfFacts DEF Concerns
<1>4. ASSUME call[s].kind # "login", Concerns(s) \cap Sound # {}
      PROVE  /\ call[s].token = cookie
             /\ call[s].stage = "sent" => call[s].token \in Live
  <2>1. InStep(s)
    BY <1>4 DEF BrowserInv, CallsInStep
  <2>2. None \notin Live /\ None # Clear
    BY <1>1, FamilyOfFacts DEF Live
  <2>3. QED
    BY <1>2, <1>4, <2>1, <2>2 DEF InStep
<1>5. QED
  BY <1>1, <1>2, <1>3, <1>4

LEMMA ServeLoginKeepsInv ==
    ASSUME BrowserInv, IInv', RowsKept, NEW s \in UnderWay, ServeLogin(s)
    PROVE  BrowserInv'
<1>1. PICK j \in Tokens, f \in Families : IssueRefreshToken(j, user, f) /\ Answer(s, j)
  BY DEF ServeLogin
<1>2. /\ call[s].kind = "login" /\ call[s].stage = "sent"
      /\ UNCHANGED <<cookie, tabVars, history, expired, rotating, parent, reused>>
      /\ Idle /\ j \notin Issued /\ MembersOf(f) = {}
  BY <1>1 DEF ServeLogin, IssueRefreshToken
<1>3. /\ TypeOK /\ IInv /\ call \in [Slots -> Call \cup {None}] /\ CallIsMeant(s)
      /\ call[s].token = None /\ Concerns(s) = {}
  BY <1>2, SentFacts, FamilyOfFacts DEF CallIsMeant
<1>4. /\ Issued' = Issued \cup {j} /\ Live' = Live \cup {j}
      /\ row'[j].family = f /\ \A i \in Issued : row'[i] = row[i]
  BY <1>1, <1>3, InsertEffect, OneBrowser DEF IssueRefreshToken
<1>5. /\ call' \in [Slots -> Call \cup {None}] /\ call'[s] \in Call
      /\ call'[s].kind = "login" /\ call'[s].token = None
      /\ call'[s].page = call[s].page /\ call'[s].stage = "answered" /\ call'[s].sets = j
      /\ \A t \in Slots \ {s} : call'[t] = call[t]
  BY <1>1, <1>2, <1>3, AnswerEffect
<1>6. Concerns(s)' = {f}
  BY <1>3, <1>4, <1>5, FamilyOfFacts DEF Concerns, FamilyOf
<1>7. f \notin FamilyOf(cookie) /\ f \notin loggedOut
  BY <1>2, <1>3, FamilyOfFacts
     DEF MembersOf, BrowserInv, CallsAreMeant, LogoutsTakeEffect
<1>8. ASSUME NEW t \in UnderWay \ {s} PROVE f \notin Concerns(t)
  <2>1. CallIsMeant(t)
    BY <1>8 DEF BrowserInv, CallsAreMeant
  <2>2. QED
    BY <1>2, <1>3, <2>1, FamilyOfFacts DEF Concerns, MembersOf, CallIsMeant
<1>9. CallIsMeant(s)'
  BY <1>3, <1>4, <1>5, FamilyOfFacts DEF CallIsMeant
<1>10. InStep(s)'
  BY <1>4, <1>5 DEF InStep
<1>11. \A g \in Families : RotatingIn(g)' => RotatingIn(g)
  BY <1>2 DEF RotatingIn, Idle
<1>12. reused' \subseteq hurt \cup raced
  BY <1>2 DEF BrowserInv, ReuseHasACause
<1>13. \A i \in Issued' : row'[i].family \notin Concerns(s)' =>
          i \in Issued /\ (i \in Live' <=> i \in Live)
  BY <1>4, <1>6
<1>14. QED
  BY <1>2, <1>3, <1>4, <1>5, <1>6, <1>7, <1>8, <1>9, <1>10, <1>11, <1>12, <1>13, ServeKeepsInv

(* An answer that changes no row.                                          *)
LEMMA RefuseKeepsInv ==
    ASSUME BrowserInv, IInv', RowsKept, NEW s \in UnderWay, RefuseCsrf(s) \/ RefuseExpired(s)
    PROVE  BrowserInv'
<1>1. PICK x \in {NoChange, Clear} :
        /\ Answer(s, x)
        /\ x = NoChange => call[s].token = None
        /\ x = Clear => call[s].kind = "refresh" /\ call[s].token \in expired
  BY DEF RefuseCsrf, RefuseExpired, NoChange, Clear
<1>2. /\ call[s].kind \in {"refresh", "logout"} /\ call[s].stage = "sent" /\ Idle
      /\ UNCHANGED <<vars, cookie, tabVars, history>>
  BY DEF RefuseCsrf, RefuseExpired
<1>3. /\ TypeOK /\ call \in [Slots -> Call \cup {None}] /\ CallIsMeant(s)
      /\ Concerns(s) = FamilyOf(call[s].token) /\ call[s].token \in Issued \cup {None}
  BY <1>2, SentFacts
<1>4. /\ call' \in [Slots -> Call \cup {None}] /\ call'[s] \in Call
      /\ call'[s].kind = call[s].kind /\ call'[s].token = call[s].token
      /\ call'[s].page = call[s].page /\ call'[s].stage = "answered" /\ call'[s].sets = x
      /\ \A t \in Slots \ {s} : call'[t] = call[t]
  BY <1>1, <1>3, AnswerEffect
<1>5. Issued' = Issued /\ Live' = Live /\ \A f : RotatingIn(f)' <=> RotatingIn(f)
  BY <1>2 DEF vars, Issued, Live, RotatingIn, Idle
<1>6. Concerns(s)' = Concerns(s)
  <2>1. FamilyOf(call[s].token)' = FamilyOf(call[s].token)
    BY <1>2, <1>4 DEF vars, FamilyOf
  <2>2. FamilyOf(call[s].sets)' = {}
    BY <1>3, <1>4, FamilyOfFacts DEF FamilyOf
  <2>3. QED
    BY <1>3, <2>1, <2>2 DEF Concerns
<1>7. CallIsMeant(s)'
  <2>1. x = Clear => call[s].token # None
    BY <1>1, <1>3, FamilyOfFacts DEF TypeOK
  <2>2. QED
    BY <1>1, <1>2, <1>3, <1>4, <1>5, <2>1, FamilyOfFacts DEF CallIsMeant
<1>8. ASSUME Concerns(s) \cap Sound # {} PROVE InStep(s)'
  <2>1. call[s].token = cookie /\ call[s].token \in Live
    BY <1>2, <1>8, SentFacts
  <2>2. x = Clear
    BY <1>1, <1>3, <1>8, FamilyOfFacts
  <2>3. QED
    BY <1>1, <1>2, <1>4, <1>5, <2>1, <2>2 DEF InStep, vars
<1>9. ASSUME NEW f \in Concerns(s) \cap Sound \cap loggedOut
      PROVE  LiveIn(f)' = {} /\ ~RotatingIn(f)'
  <2>1. x = Clear
    BY <1>1, <1>3, <1>9, FamilyOfFacts
  <2>2. LiveIn(f) = {} /\ ~RotatingIn(f)
    BY <1>1, <1>9, <2>1, OnlyTheLogoutRemains
  <2>3. QED
    BY <1>2, <1>5, <2>2 DEF vars, LiveIn, MembersOf
<1>10. reused' \subseteq hurt \cup raced
  BY <1>2 DEF BrowserInv, ReuseHasACause, vars
<1>11. QED
  BY <1>2, <1>3, <1>4, <1>5, <1>6, <1>7, <1>8, <1>9, <1>10, ServeKeepsInv DEF vars

(* A handler revokes the presented token, or its whole family.             *)
LEMMA RevokeOfCall ==
    ASSUME BrowserInv, NEW s \in UnderWay, call[s].stage = "sent", call[s].token \in Issued,
           NEW S, Revoke(S), S \subseteq MembersOf(row[call[s].token].family)
    PROVE  /\ Issued' = Issued /\ Live' = Live \ S
           /\ \A j \in Issued : row'[j].family = row[j].family
           /\ \A j \in Issued' : row'[j].family \notin Concerns(s) =>
                 j \in Issued /\ (j \in Live' <=> j \in Live)
<1>1. TypeOK /\ Concerns(s) = {row[call[s].token].family}
  BY SentFacts
<1>2. /\ Issued' = Issued /\ Live' = Live \ S
      /\ \A j \in Issued : row'[j].family = row[j].family
  BY <1>1, RevokeEffect
<1>3. QED
  BY <1>1, <1>2 DEF MembersOf

LEMMA ServeRefreshKeepsInv ==
    ASSUME BrowserInv, IInv', RowsKept, NEW s \in UnderWay, ServeRefresh(s)
    PROVE  BrowserInv'
<1> DEFINE j == call[s].token
<1>1. /\ call[s].kind = "refresh" /\ call[s].stage = "sent" /\ Idle /\ j \in Live /\ j \in Issued
      /\ Revoke({j}) /\ rotating' = j
      /\ UNCHANGED <<expired, parent, reused, cookie, tabVars, history>>
      /\ call' = [call EXCEPT ![s].stage = "rotating"]
  BY DEF ServeRefresh, RotateRevoke, Live
<1>2. /\ TypeOK /\ IInv /\ call \in [Slots -> Call \cup {None}] /\ call[s] \in Call /\ CallIsMeant(s)
      /\ call[s].sets = None /\ Concerns(s) = {row[j].family} /\ Concerns(s) = FamilyOf(j)
  BY <1>1, SentFacts
<1>3. /\ Issued' = Issued /\ Live' = Live \ {j} /\ row'[j].family = row[j].family
      /\ \A i \in Issued' : row'[i].family \notin Concerns(s) =>
            i \in Issued /\ (i \in Live' <=> i \in Live)
  BY <1>1, RevokeOfCall DEF MembersOf
<1>4. /\ call'[s] = [call[s] EXCEPT !.stage = "rotating"] /\ call'[s] \in Call
      /\ call' \in [Slots -> Call \cup {None}]
      /\ \A t \in Slots \ {s} : call'[t] = call[t]
  BY <1>1, <1>2 DEF UnderWay, Call
<1>5. /\ call'[s].kind = "refresh" /\ call'[s].token = j /\ call'[s].page = call[s].page
      /\ call'[s].stage = "rotating" /\ call'[s].sets = None
  BY <1>1, <1>2, <1>4 DEF Call
<1>6. Concerns(s)' = Concerns(s)
  BY <1>1, <1>2, <1>5, ConcernsStay DEF IInv
<1>7. CallIsMeant(s)'
  BY <1>1, <1>2, <1>3, <1>5, FamilyOfFacts DEF CallIsMeant, Idle
<1>8. \A f \in Families : RotatingIn(f)' => f \in Concerns(s)
  BY <1>1, <1>2, <1>3 DEF RotatingIn
<1>9. Concerns(s) \cap Sound # {} => InStep(s)'
  <2>1. Concerns(s) \cap Sound # {} => j = cookie
    BY <1>1, SentFacts
  <2>2. QED
    BY <1>1, <1>5, <2>1 DEF InStep
<1>10. \A f \in Concerns(s) \cap Sound \cap loggedOut : FALSE
  BY <1>1, <1>2, OnlyTheLogoutRemains DEF LiveIn, MembersOf
<1>11. reused' \subseteq hurt \cup raced
  BY <1>1 DEF BrowserInv, ReuseHasACause
<1>12. QED
  BY <1>1, <1>3, <1>4, <1>5, <1>6, <1>7, <1>8, <1>9, <1>10, <1>11, ServeKeepsInv

LEMMA FinishRefreshKeepsInv ==
    ASSUME BrowserInv, IInv', RowsKept, NEW s \in UnderWay, FinishRefresh(s)
    PROVE  BrowserInv'
<1>1. PICK j \in Tokens : RotateInsert(j) /\ Answer(s, j)
  BY DEF FinishRefresh
<1>2. /\ call[s].stage = "rotating" /\ ~Idle /\ j \notin Issued /\ rotating' = None
      /\ UNCHANGED <<expired, reused, cookie, tabVars, history>>
  BY <1>1 DEF FinishRefresh, RotateInsert
<1>3. /\ TypeOK /\ IInv /\ call \in [Slots -> Call \cup {None}] /\ call[s] \in Call /\ CallIsMeant(s)
      /\ rotating = call[s].token /\ rotating \in Issued /\ call[s].kind = "refresh"
      /\ Concerns(s) = {row[rotating].family}
  BY <1>2, SentFacts, FamilyOfFacts DEF CallIsMeant, Idle, Call, Kinds
<1>4. /\ Issued' = Issued \cup {j} /\ Live' = Live \cup {j}
      /\ row'[j].family = row[rotating].family /\ \A i \in Issued : row'[i] = row[i]
  BY <1>1, <1>2, <1>3, InsertEffect, FamilyOfFacts DEF RotateInsert
<1>5. /\ call' \in [Slots -> Call \cup {None}] /\ call'[s] \in Call
      /\ call'[s].kind = "refresh" /\ call'[s].token = rotating
      /\ call'[s].page = call[s].page /\ call'[s].stage = "answered" /\ call'[s].sets = j
      /\ \A t \in Slots \ {s} : call'[t] = call[t]
  BY <1>1, <1>3, AnswerEffect
<1>6. parent'[j] = rotating /\ \A i \in Issued : parent'[i] = parent[i]
  BY <1>1, <1>2, <1>3 DEF RotateInsert, TypeOK
<1>7. Concerns(s)' = Concerns(s)
  BY <1>3, <1>4, <1>5, FamilyOfFacts DEF Concerns, FamilyOf
<1>8. CallIsMeant(s)'
  BY <1>3, <1>4, <1>5, <1>6, FamilyOfFacts DEF CallIsMeant
<1>9. \A i \in Issued' : row'[i].family \notin Concerns(s) =>
         i \in Issued /\ (i \in Live' <=> i \in Live)
  BY <1>3, <1>4
<1>10. \A f \in Families : ~RotatingIn(f)'
  BY <1>2 DEF RotatingIn, Idle
<1>11. Concerns(s) \cap Sound # {} => InStep(s)'
  <2>1. Concerns(s) \cap Sound # {} => call[s].token = cookie
    BY <1>2, <1>3, SentFacts
  <2>2. QED
    BY <1>2, <1>3, <1>4, <1>5, <2>1 DEF InStep
<1>12. \A f \in Concerns(s) \cap Sound \cap loggedOut : FALSE
  BY <1>2, <1>3, OnlyTheLogoutRemains DEF RotatingIn
<1>13. reused' \subseteq hurt \cup raced
  BY <1>2 DEF BrowserInv, ReuseHasACause
<1>14. QED
  BY <1>2, <1>3, <1>4, <1>5, <1>6, <1>7, <1>8, <1>9, <1>10, <1>11, <1>12, <1>13, ServeKeepsInv

(* Reuse: the family of a sound call is not one of a used token.           *)
LEMMA RefuseReusedKeepsInv ==
    ASSUME BrowserInv, IInv', RowsKept, NEW s \in UnderWay, RefuseReused(s)
    PROVE  BrowserInv'
<1> DEFINE j == call[s].token
<1>1. /\ call[s].kind = "refresh" /\ call[s].stage = "sent" /\ Idle
      /\ j \in Issued /\ j \notin Live /\ Revoke(MembersOf(row[j].family))
      /\ UNCHANGED <<expired, rotating, parent, cookie, tabVars, history>>
      /\ reused' = reused \cup {row[j].family} /\ Answer(s, Clear)
  BY DEF RefuseReused, RotateReused
<1>2. /\ TypeOK /\ IInv /\ call \in [Slots -> Call \cup {None}] /\ CallIsMeant(s)
      /\ Concerns(s) = {row[j].family} /\ Concerns(s) = FamilyOf(j) /\ j # None
  BY <1>1, SentFacts, FamilyOfFacts
<1>3. /\ Issued' = Issued /\ Live' = Live \ MembersOf(row[j].family)
      /\ row'[j].family = row[j].family
      /\ \A i \in Issued' : row'[i].family \notin Concerns(s) =>
            i \in Issued /\ (i \in Live' <=> i \in Live)
  BY <1>1, RevokeOfCall
<1>4. /\ call' \in [Slots -> Call \cup {None}] /\ call'[s] \in Call
      /\ call'[s].kind = "refresh" /\ call'[s].token = j
      /\ call'[s].page = call[s].page /\ call'[s].stage = "answered" /\ call'[s].sets = Clear
      /\ \A t \in Slots \ {s} : call'[t] = call[t]
  BY <1>1, <1>2, AnswerEffect
<1>5. Concerns(s)' = Concerns(s)
  BY <1>1, <1>2, <1>3, <1>4, FamilyOfFacts DEF Concerns, FamilyOf
<1>6. CallIsMeant(s)'
  BY <1>1, <1>2, <1>3, <1>4, FamilyOfFacts DEF CallIsMeant
<1>7. Concerns(s) \cap Sound = {}
  BY <1>1, SentFacts
<1>8. reused' \subseteq hurt \cup raced
  BY <1>1, <1>2, <1>7, FamilyOfFacts DEF BrowserInv, ReuseHasACause, Sound
<1>9. \A f \in Families : ~RotatingIn(f)'
  BY <1>1 DEF RotatingIn, Idle
<1>10. QED
  BY <1>1, <1>3, <1>4, <1>5, <1>6, <1>7, <1>8, <1>9, ServeKeepsInv

(* A logout takes the last living token of a sound family.                 *)
LEMMA ServeLogoutKeepsInv ==
    ASSUME BrowserInv, IInv', RowsKept, NEW s \in UnderWay, ServeLogout(s)
    PROVE  BrowserInv'
<1> DEFINE j == call[s].token
<1>1. /\ call[s].kind = "logout" /\ call[s].stage = "sent" /\ Idle /\ j \in Issued
      /\ Revoke({j}) /\ Answer(s, Clear)
      /\ UNCHANGED <<expired, rotating, parent, reused, cookie, tabVars, history>>
  BY DEF ServeLogout, RevokeRefreshToken
<1>2. /\ TypeOK /\ IInv /\ call \in [Slots -> Call \cup {None}] /\ CallIsMeant(s)
      /\ Concerns(s) = {row[j].family} /\ j # None
  BY <1>1, SentFacts, FamilyOfFacts
<1>3. /\ Issued' = Issued /\ Live' = Live \ {j} /\ row'[j].family = row[j].family
      /\ \A i \in Issued : row'[i].family = row[i].family
      /\ \A i \in Issued' : row'[i].family \notin Concerns(s) =>
            i \in Issued /\ (i \in Live' <=> i \in Live)
  BY <1>1, RevokeOfCall DEF MembersOf
<1>4. /\ call' \in [Slots -> Call \cup {None}] /\ call'[s] \in Call
      /\ call'[s].kind = "logout" /\ call'[s].token = j
      /\ call'[s].page = call[s].page /\ call'[s].stage = "answered" /\ call'[s].sets = Clear
      /\ \A t \in Slots \ {s} : call'[t] = call[t]
  BY <1>1, <1>2, AnswerEffect
<1>5. Concerns(s)' = Concerns(s)
  BY <1>1, <1>2, <1>3, <1>4, FamilyOfFacts DEF Concerns, FamilyOf
<1>6. CallIsMeant(s)'
  BY <1>1, <1>2, <1>3, <1>4, FamilyOfFacts DEF CallIsMeant
<1>7. \A f \in Families : ~RotatingIn(f)'
  BY <1>1 DEF RotatingIn, Idle
<1>8. ASSUME Concerns(s) \cap Sound # {}
      PROVE  j = cookie /\ LiveIn(row[j].family)' = {}
  <2>1. j = cookie /\ j \in Live
    BY <1>1, <1>8, SentFacts
  <2>2. \A i \in Live : row[i].family = row[j].family => i = j
    BY <1>2, <2>1 DEF IInv, OneLiveTokenPerFamily
  <2>3. \A i \in Live' : row'[i].family # row[j].family
    BY <1>3, <2>2 DEF Live
  <2>4. LiveIn(row[j].family)' = {}
    <3>1. row'[call'[s].token].family = row[j].family
      BY <1>3, <1>4
    <3>2. QED
      BY <2>3, <3>1 DEF LiveIn, MembersOf
  <2>5. QED
    BY <2>1, <2>4
<1>9. Concerns(s) \cap Sound # {} => InStep(s)'
  BY <1>1, <1>4, <1>8 DEF InStep
<1>10. \A f \in Concerns(s) \cap Sound : LiveIn(f)' = {}
  <2>1. ASSUME NEW f \in Concerns(s) \cap Sound PROVE LiveIn(f)' = {}
    <3>1. f = row'[call'[s].token].family
      BY <1>2, <1>3, <1>4, <2>1
    <3>2. QED
      BY <1>8, <2>1, <3>1 DEF LiveIn, MembersOf
  <2>2. QED
    BY <2>1
<1>11. reused' \subseteq hurt \cup raced
  BY <1>1 DEF BrowserInv, ReuseHasACause
<1>12. QED
  BY <1>1, <1>3, <1>4, <1>5, <1>6, <1>7, <1>9, <1>10, <1>11, ServeKeepsInv DEF Sound

--------------------------------------------------------------------------------
(* A page is gone: nobody waits for its calls, and their families are      *)
(* noted, which is all that the properties ask.                            *)
LEMMA ReloadKeepsInv ==
    ASSUME BrowserInv, IInv', NEW t \in Tabs, Reload(t)
    PROVE  BrowserInv'
<1> DEFINE mine == {s \in UnderWay : call[s].tab = t}
<1>1. /\ BrowserTypeOK /\ IInv /\ TypeOK /\ CallsAreMeant /\ LoginsAreAlone /\ CallsAreNoted
      /\ CallsInStep /\ CookieInStep /\ LogoutsTakeEffect /\ ReuseHasACause
      /\ NoStrandedSession /\ TabRacesOnlyWhenLoggingOut
  BY DEF BrowserInv, BrowserTypeOK
<1>2. /\ UNCHANGED <<row, expired, rotating, parent, reused, cookie, raced, tabRaced, loggedOut>>
      /\ call' = [s \in Slots |-> IF s \in mine THEN [call[s] EXCEPT !.page = FALSE] ELSE call[s]]
      /\ hurt' = hurt \cup ConcernsOf(mine)
      /\ access' = [access EXCEPT ![t] = FALSE] /\ shows' = [shows EXCEPT ![t] = "loading"]
  BY DEF Reload, vars
<1>3. ASSUME NEW s \in UnderWay
      PROVE  /\ call[s] \in Call /\ call'[s] \in Call /\ CallIsMeant(s) /\ s \in Slots
             /\ call'[s].kind = call[s].kind /\ call'[s].token = call[s].token
             /\ call'[s].stage = call[s].stage /\ call'[s].sets = call[s].sets
             /\ s \notin mine => call'[s] = call[s]
  BY <1>1, <1>2, <1>3 DEF BrowserTypeOK, UnderWay, Call, CallsAreMeant
<1>4. call' \in [Slots -> Call \cup {None}] /\ UnderWay' = UnderWay
  <2>1. \A s \in Slots \ UnderWay : call'[s] = None
    BY <1>2 DEF UnderWay
  <2>2. UnderWay' = UnderWay
    BY <1>3, <2>1, OneBrowser DEF UnderWay
  <2>3. QED
    BY <1>2, <1>3, <2>1, <2>2
<1>5. /\ RowsKept /\ Issued' = Issued /\ Live' = Live /\ FamilyOf(cookie)' = FamilyOf(cookie)
      /\ \A f : MembersOf(f)' = MembersOf(f) /\ LiveIn(f)' = LiveIn(f)
      /\ \A f : RotatingIn(f)' <=> RotatingIn(f)
  BY <1>2 DEF RowsKept, Issued, Live, MembersOf, LiveIn, RotatingIn, Idle, FamilyOf
<1>6. \A s \in UnderWay : Concerns(s)' = Concerns(s)
  BY <1>1, <1>3, <1>5, ConcernsStay
<1>7. Sound' \subseteq Sound /\ ConcernsOf(UnderWay)' = ConcernsOf(UnderWay)
  BY <1>2, <1>4, <1>6 DEF Sound, ConcernsOf
<1>8. BrowserTypeOK'
  <2>1. \A s \in UnderWay : Concerns(s) \subseteq Families
    BY <1>1, <1>3, FamilyOfFacts DEF Concerns, CallIsMeant
  <2>2. hurt' \subseteq Families
    BY <1>1, <1>2, <2>1 DEF BrowserTypeOK, ConcernsOf
  <2>3. QED
    BY <1>1, <1>2, <1>4, <2>2 DEF BrowserTypeOK, IInv
<1> HIDE DEF mine
<1>9. CallsAreMeant'
  <2>1. ASSUME NEW s \in UnderWay PROVE CallIsMeant(s)'
    BY <1>2, <1>3, <1>5, <2>1 DEF CallIsMeant, Idle
  <2>2. \A s \in UnderWay : call'[s].stage = call[s].stage
    BY <1>3
  <2>3. QED
    BY <1>1, <1>2, <1>4, <1>5, <2>1, <2>2 DEF CallsAreMeant
<1>10. LoginsAreAlone'
  BY <1>1, <1>3, <1>4, <1>5, <1>6 DEF LoginsAreAlone
<1>11. CallsAreNoted'
  <2>1. ASSUME NEW s \in UnderWay
        PROVE  /\ call'[s].kind = "logout" => Concerns(s)' \subseteq loggedOut'
               /\ call'[s].kind = "refresh" /\ ~call'[s].page => Concerns(s)' \subseteq hurt'
    <3>1. CASE s \in mine
      <4>1. Concerns(s) \subseteq hurt'
        BY <1>2, <3>1 DEF ConcernsOf
      <4>2. QED
        BY <1>1, <1>2, <1>3, <1>6, <2>1, <4>1 DEF CallsAreNoted
    <3>2. CASE s \notin mine
      BY <1>1, <1>2, <1>3, <1>6, <2>1, <3>2 DEF CallsAreNoted
    <3>3. QED
      BY <3>1, <3>2
  <2>2. QED
    BY <1>1, <1>2, <1>4, <1>6, <2>1 DEF CallsAreNoted
<1>12. CallsInStep'
  <2>1. ASSUME NEW s \in UnderWay, InStep(s) PROVE InStep(s)'
    <3>1. LiveIn(row[call[s].token].family)' = LiveIn(row[call[s].token].family)
      BY <1>2, <1>3, <1>5 DEF LiveIn, MembersOf
    <3>2. /\ Live' = Live /\ expired' = expired /\ cookie' = cookie
          /\ call'[s].kind = call[s].kind /\ call'[s].token = call[s].token
          /\ call'[s].stage = call[s].stage /\ call'[s].sets = call[s].sets
      BY <1>2, <1>3, <1>5, <2>1
    <3>3. QED
      BY <2>1, <3>1, <3>2 DEF InStep
  <2>2. QED
    BY <1>1, <1>4, <1>6, <1>7, <2>1 DEF CallsInStep
<1>13. CookieInStep'
  BY <1>1, <1>2, <1>5, <1>7 DEF CookieInStep
<1>14. LogoutsTakeEffect'
  <2>1. \A f : LogoutSent(f) => LogoutSent(f)'
    BY <1>3, <1>4, <1>6 DEF LogoutSent
  <2>2. QED
    BY <1>1, <1>2, <1>5, <1>7, <2>1 DEF LogoutsTakeEffect
<1>15. ReuseHasACause' /\ TabRacesOnlyWhenLoggingOut'
  BY <1>1, <1>2 DEF ReuseHasACause, TabRacesOnlyWhenLoggingOut
<1>16. NoStrandedSession'
  <2>1. ASSUME NEW j \in Live, \E s \in UnderWay : call[s].sets = j
        PROVE  \E s \in UnderWay' : call'[s].sets = j
    BY <1>3, <1>4, <2>1
  <2>2. QED
    BY <1>1, <1>2, <1>5, <2>1 DEF NoStrandedSession
<1>17. QED
  BY <1>8, <1>9, <1>10, <1>11, <1>12, <1>13, <1>14, <1>15, <1>16 DEF BrowserInv

(* Tokens expire, or nothing happens.                                      *)
LEMMA WaitKeepsInv ==
    ASSUME BrowserInv, IInv', UNCHANGED <<row, rotating, parent, reused, cookie, tabVars, call, history>>,
           expired \subseteq expired'
    PROVE  BrowserInv'
<1>1. /\ BrowserTypeOK /\ CallsAreMeant /\ LoginsAreAlone /\ CallsAreNoted
      /\ CallsInStep /\ CookieInStep /\ LogoutsTakeEffect /\ ReuseHasACause
      /\ NoStrandedSession /\ TabRacesOnlyWhenLoggingOut
  BY DEF BrowserInv
<1>2. /\ UNCHANGED <<row, rotating, parent, reused, cookie, access, shows, call,
                     hurt, raced, tabRaced, loggedOut>>
      /\ UnderWay' = UnderWay /\ Issued' = Issued /\ Live' = Live /\ Sound' = Sound
      /\ FamilyOf(cookie)' = FamilyOf(cookie)
      /\ \A f : MembersOf(f)' = MembersOf(f) /\ LiveIn(f)' = LiveIn(f)
      /\ \A f : RotatingIn(f)' <=> RotatingIn(f)
      /\ \A s \in UnderWay : Concerns(s)' = Concerns(s)
  BY DEF tabVars, history, UnderWay, Issued, Live, Sound, FamilyOf, MembersOf, LiveIn, RotatingIn,
         Idle, Concerns
<1>3. BrowserTypeOK'
  BY <1>1, <1>2 DEF BrowserTypeOK, IInv
<1>4. CallsAreMeant'
  BY <1>1, <1>2 DEF CallsAreMeant, CallIsMeant, Idle
<1>5. LoginsAreAlone' /\ CallsAreNoted'
  BY <1>1, <1>2 DEF LoginsAreAlone, CallsAreNoted
<1>6. CallsInStep'
  <2>1. ASSUME NEW s \in UnderWay, InStep(s) PROVE InStep(s)'
    BY <1>2, <2>1 DEF InStep, LiveIn, MembersOf
  <2>2. QED
    BY <1>1, <1>2, <2>1 DEF CallsInStep
<1>7. CookieInStep'
  BY <1>1, <1>2 DEF CookieInStep, ConcernsOf
<1>8. LogoutsTakeEffect'
  BY <1>1, <1>2 DEF LogoutsTakeEffect, LogoutSent
<1>9. ReuseHasACause' /\ TabRacesOnlyWhenLoggingOut' /\ NoStrandedSession'
  BY <1>1, <1>2 DEF ReuseHasACause, TabRacesOnlyWhenLoggingOut, NoStrandedSession
<1>10. QED
  BY <1>3, <1>4, <1>5, <1>6, <1>7, <1>8, <1>9 DEF BrowserInv

LEMMA BrowserInitInv == BrowserInit => BrowserInv
<1> SUFFICES ASSUME BrowserInit PROVE BrowserInv
  OBVIOUS
<1>1. IInv /\ TypeOK
  BY InitIInv DEF BrowserInit, IInv
<1>2. /\ UnderWay = {} /\ Issued = {} /\ Live = {} /\ cookie = None /\ reused = {}
      /\ hurt = {} /\ raced = {} /\ tabRaced = {} /\ loggedOut = {}
  BY DEF BrowserInit, Init, UnderWay, Issued, Live
<1>3. BrowserTypeOK
  BY <1>1 DEF BrowserInit, BrowserTypeOK
<1>4. FamilyOf(cookie) = {}
  BY <1>1, <1>2, FamilyOfFacts
<1>5. QED
  BY <1>1, <1>2, <1>3, <1>4
     DEF BrowserInv, CallsAreMeant, LoginsAreAlone, CallsAreNoted, CallsInStep, CookieInStep,
         LogoutsTakeEffect, ReuseHasACause, NoStrandedSession, TabRacesOnlyWhenLoggingOut

LEMMA FetchFailsTypes ==
    ASSUME BrowserTypeOK, NEW s \in UnderWay, FetchFails(s)
    PROVE  access' \in [Tabs -> BOOLEAN] /\ shows' \in [Tabs -> {"loading", "login", "console"}]
BY DEF FetchFails, BrowserTypeOK, tabVars

LEMMA BrowserStepKeepsInv == BrowserInv /\ [BrowserNext]_browserVars => BrowserInv'
<1> SUFFICES ASSUME BrowserInv, [BrowserNext]_browserVars PROVE BrowserInv'
  OBVIOUS
<1>1. IInv /\ BrowserTypeOK
  BY DEF BrowserInv
<1>2. [Next]_vars
  BY <1>1, BrowserStepIsAStoreStep
<1>3. IInv' /\ RowsKept
  BY <1>1, <1>2, StepKeepsIInv, StoreStepKeepsRows
<1>4. ASSUME NEW t \in Tabs, SendLogin(t) PROVE BrowserInv'
  BY <1>3, <1>4, SendKeepsInv DEF SendLogin, Kinds
<1>5. ASSUME NEW t \in Tabs, SendRefresh(t) PROVE BrowserInv'
  BY <1>3, <1>5, SendKeepsInv DEF SendRefresh, Kinds
<1>6. ASSUME NEW t \in Tabs, SendLogout(t) PROVE BrowserInv'
  BY <1>3, <1>6, SendKeepsInv DEF SendLogout, Kinds
<1>7. ASSUME NEW s \in UnderWay, Serve(s) PROVE BrowserInv'
  BY <1>3, <1>7, ServeLoginKeepsInv, RefuseKeepsInv, ServeRefreshKeepsInv, FinishRefreshKeepsInv,
     RefuseReusedKeepsInv, ServeLogoutKeepsInv DEF Serve
<1>8. ASSUME NEW s \in UnderWay PROVE Concerns(s) \subseteq Families /\ FamilyOf(cookie) \subseteq Families
  <2>1. TypeOK /\ CallIsMeant(s) /\ cookie \in Issued \cup {None}
    BY <1>1, <1>8 DEF BrowserInv, CallsAreMeant, IInv
  <2>2. QED
    BY <2>1, FamilyOfFacts DEF CallIsMeant, Concerns
<1>9. ASSUME NEW s \in UnderWay, Deliver(s) PROVE BrowserInv'
  <2>1. /\ call[s].stage = "answered" /\ cookie' = CookieAfter(s) /\ hurt' = hurt \cup Overwritten(s)
        /\ call' = [call EXCEPT ![s] = None]
        /\ UNCHANGED <<row, expired, rotating, parent, reused, raced, tabRaced, loggedOut>>
    BY <1>9 DEF Deliver, vars
  <2>2. access' \in [Tabs -> BOOLEAN] /\ shows' \in [Tabs -> {"loading", "login", "console"}]
    <3>1. Succeeded(s) \in BOOLEAN
      BY DEF Succeeded
    <3>2. PICK v \in {"login", "console"} : shows' = [shows EXCEPT ![call[s].tab] = v]
      BY <1>9 DEF Deliver
    <3>3. access' = [access EXCEPT ![call[s].tab] = Succeeded(s)]
      BY <1>9 DEF Deliver
    <3>4. QED
      BY <1>1, <3>1, <3>2, <3>3 DEF BrowserTypeOK
  <2>3. hurt' \subseteq Families
    BY <1>1, <1>8, <2>1 DEF Overwritten, BrowserTypeOK
  <2>4. QED
    BY <1>3, <2>1, <2>2, <2>3, EndKeepsInv
<1>10. ASSUME NEW s \in UnderWay, Lose(s) PROVE BrowserInv'
  BY <1>1, <1>3, <1>8, <1>10, EndKeepsInv, FetchFailsTypes DEF Lose, vars, BrowserTypeOK
<1>11. ASSUME NEW s \in UnderWay, Discard(s) PROVE BrowserInv'
  <2>1. hurt' \subseteq Families
    BY <1>1, <1>8, <1>11 DEF Discard, Overwritten, BrowserTypeOK
  <2>2. QED
    BY <1>1, <1>3, <1>11, <2>1, EndKeepsInv DEF Discard, vars, tabVars, BrowserTypeOK
<1>12. ASSUME NEW t \in Tabs, Reload(t) PROVE BrowserInv'
  BY <1>3, <1>12, ReloadKeepsInv
<1>13. ASSUME NEW j \in Tokens, TokenExpires(j) PROVE BrowserInv'
  BY <1>3, <1>13, WaitKeepsInv DEF TokenExpires, Expire
<1>14. CASE CrashDuringRotation
  <2>1. PICK s \in UnderWay :
          /\ call[s].stage = "rotating" /\ Crash /\ FetchFails(s)
          /\ call' = [call EXCEPT ![s] = None] /\ hurt' = hurt \cup Concerns(s)
          /\ UNCHANGED <<cookie, raced, tabRaced, loggedOut>>
    BY <1>14 DEF CrashDuringRotation
  <2>2. QED
    BY <1>1, <1>3, <1>8, <2>1, EndKeepsInv, FetchFailsTypes DEF Crash, BrowserTypeOK
<1>15. CASE UNCHANGED browserVars
  BY <1>3, <1>15, WaitKeepsInv DEF browserVars, vars
<1>16. QED
  BY <1>4, <1>5, <1>6, <1>7, <1>9, <1>10, <1>11, <1>12, <1>13, <1>14, <1>15 DEF BrowserNext

(* The browser and the server keep their invariant, for any number of      *)
(* tabs, calls under way, tokens and families.                             *)
THEOREM BrowserInvariantHolds == BrowserSpec => []BrowserInv
<1>1. BrowserInit => BrowserInv
  BY BrowserInitInv
<1>2. BrowserInv /\ [BrowserNext]_browserVars => BrowserInv'
  BY BrowserStepKeepsInv
<1>3. QED
  BY <1>1, <1>2, PTL DEF BrowserSpec

(* The composition implements the store: what holds of every use of        *)
(* jwt.js holds of this one, refinement of SessionRegistry included.       *)
THEOREM BrowserUsesTheStore == BrowserSpec => Spec /\ ImplementsRegistry
<1>1. BrowserInit => Init
  BY DEF BrowserInit
<1>2. BrowserInv => BrowserTypeOK
  BY DEF BrowserInv
<1>3. BrowserTypeOK /\ [BrowserNext]_browserVars => [Next]_vars
  BY BrowserStepIsAStoreStep
<1>4. BrowserSpec => Spec
  BY <1>1, <1>2, <1>3, BrowserInvariantHolds, PTL DEF BrowserSpec, Spec
<1>5. QED
  BY <1>4, Refinement

(* The calls and the jar keep their types.                                 *)
THEOREM BrowserTypeCorrect == BrowserSpec => []BrowserTypeOK
<1>1. BrowserInv => BrowserTypeOK
  BY DEF BrowserInv
<1>2. QED
  BY <1>1, BrowserInvariantHolds, PTL

(* Reuse detection strikes only families that were hurt or raced.          *)
THEOREM ReuseIsCaused == BrowserSpec => []ReuseHasACause
<1>1. BrowserInv => ReuseHasACause
  BY DEF BrowserInv
<1>2. QED
  BY <1>1, BrowserInvariantHolds, PTL

(* Two calls of one tab are about one session only around its logout.      *)
THEOREM TabsRaceOnlyAtLogout == BrowserSpec => []TabRacesOnlyWhenLoggingOut
<1>1. BrowserInv => TabRacesOnlyWhenLoggingOut
  BY DEF BrowserInv
<1>2. QED
  BY <1>1, BrowserInvariantHolds, PTL

(* The jar holds what the server accepts, or is about to.                  *)
THEOREM CookieStaysCurrent == BrowserSpec => []CookieIsCurrent
<1>1. BrowserInv => CookieIsCurrent
  <2> SUFFICES ASSUME BrowserInv, NEW j \in Tokens, cookie = j, row[j].family \notin hurt \cup raced,
                      j \notin Live
               PROVE  \E s \in UnderWay :
                        /\ call[s].token = j
                        /\ \/ call[s].stage = "rotating" /\ rotating = j
                           \/ call[s].sets = Clear
                           \/ call[s].sets \in Live /\ parent[call[s].sets] = j
    BY DEF CookieIsCurrent
  <2>1. IInv /\ TypeOK /\ j \in Issued
    BY FamilyOfFacts DEF BrowserInv, IInv, CallsAreMeant
  <2>2. FamilyOf(cookie) = {row[j].family} /\ row[j].family \in Sound
    BY <2>1, FamilyOfFacts DEF Sound
  <2>3. PICK s \in UnderWay : row[j].family \in Concerns(s)
    BY <2>2 DEF BrowserInv, CookieInStep, ConcernsOf
  <2>4. call[s] \in Call /\ CallIsMeant(s) /\ InStep(s)
    BY <2>2, <2>3 DEF BrowserInv, BrowserTypeOK, UnderWay, CallsAreMeant, CallsInStep
  <2>5. call[s].kind # "login" /\ call[s].token = j
    BY <2>2, <2>3, <2>4 DEF BrowserInv, LoginsAreAlone, InStep
  <2>6. ASSUME call[s].sets \in Live PROVE parent[call[s].sets] = j
    BY <2>1, <2>4, <2>5, <2>6, FamilyOfFacts DEF CallIsMeant, Call, Kinds, Live
  <2>7. QED
    BY <2>4, <2>5, <2>6 DEF InStep, CallIsMeant
<1>2. QED
  BY <1>1, BrowserInvariantHolds, PTL

(* No session is left on the server that no browser can use.               *)
THEOREM NoneIsStranded == BrowserSpec => []NoStrandedSession
<1>1. BrowserInv => NoStrandedSession
  BY DEF BrowserInv
<1>2. QED
  BY <1>1, BrowserInvariantHolds, PTL

(* A logout that was served has ended its session.                         *)
THEOREM LogoutsEndSessions == BrowserSpec => []LogoutEndsSession
<1>1. BrowserInv => LogoutEndsSession
  <2> SUFFICES ASSUME BrowserInv, NEW f \in loggedOut, f \notin hurt \cup raced
               PROVE  StatusOf(f) = "ended" \/ LogoutSent(f)
    BY DEF LogoutEndsSession, LogoutSent
  <2>1. f \in Sound
    BY DEF BrowserInv, BrowserTypeOK, Sound
  <2>2. QED
    BY <2>1 DEF BrowserInv, LogoutsTakeEffect, StatusOf
<1>2. QED
  BY <1>1, BrowserInvariantHolds, PTL

--------------------------------------------------------------------------------
(* What can be proved of RefreshSettles.  Its fairness is beyond the       *)
(* prover, but not what it rests on: a refresh under way can go on, or     *)
(* waits for a rotation that can, and no call ever goes back.              *)

(* The conditions under which the server or the network goes on with the   *)
(* refresh s.                                                              *)
RefreshGoesOn(s) ==
    \/ call[s].stage = "answered"
    \/ call[s].stage = "rotating" /\ ~Idle /\ Unissued # {}
    \/ /\ call[s].stage = "sent" /\ Idle
       /\ \/ call[s].token = None
          \/ call[s].token \in Live \ expired
          \/ call[s].token \in (Issued \ Live) \ expired
          \/ call[s].token \in expired

(* A tab that waits for its refresh waits for something that can happen:   *)
(* refreshInFlight is not left over (client.js:64-66).                     *)
NoRefreshHangs ==
    \A s \in UnderWay : call[s].kind = "refresh" =>
        \/ RefreshGoesOn(s)
        \/ \E r \in UnderWay : call[r].kind = "refresh" /\ call[r].stage = "rotating" /\ RefreshGoesOn(r)

(* A call goes from sent, by way of a rotation or not, to answered, and is *)
(* then over; it never goes back, and every step of the server brings the  *)
(* one it serves further.                                                  *)
StageOf(stage) == CASE stage = "sent" -> 0 [] stage = "rotating" -> 1 [] stage = "answered" -> 2

CallsGoForward ==
    [][\A s \in UnderWay :
          /\ call'[s] # None => /\ call'[s].kind = call[s].kind /\ call'[s].tab = call[s].tab
                                /\ call'[s].token = call[s].token
                                /\ StageOf(call[s].stage) <= StageOf(call'[s].stage)
          /\ Serve(s) => call'[s] # None /\ StageOf(call[s].stage) < StageOf(call'[s].stage)
          /\ Deliver(s) \/ Discard(s) => call'[s] = None]_browserVars

(* A rotation under way has its call, and there is a token for every call  *)
(* that may still be given one.                                            *)
Unanswered == {s \in UnderWay : call[s].stage # "answered"}

RotationHasCall == ~Idle => \E s \in UnderWay : call[s].stage = "rotating"
PoolLasts == Cardinality(Unanswered) <= Cardinality(Unissued)

GoOnInv == BrowserInv /\ RotationHasCall /\ PoolLasts

(* Before and after the server serves a call: it goes on to an answer, for *)
(* which a token may have been issued, or to the middle of a rotation.     *)
LEMMA ServedGoesOn ==
    ASSUME BrowserInv, NEW s \in UnderWay, Serve(s)
    PROVE  /\ call' \in [Slots -> Call \cup {None}] /\ call'[s] \in Call
           /\ call'[s].kind = call[s].kind /\ call'[s].tab = call[s].tab /\ call'[s].token = call[s].token
           /\ \A r \in Slots \ {s} : call'[r] = call[r]
           /\ \/ /\ call[s].stage # "answered" /\ call'[s].stage = "answered" /\ rotating' = None
                 /\ Unissued' = Unissued \/ \E j \in Unissued : Unissued' = Unissued \ {j}
              \/ call[s].stage = "sent" /\ call'[s].stage = "rotating" /\ Unissued' = Unissued
<1>1. /\ TypeOK /\ BrowserTypeOK /\ call \in [Slots -> Call \cup {None}]
      /\ s \in Slots /\ call[s] \in Call /\ CallIsMeant(s) /\ user \in Users /\ Bookkeeping
  BY OneBrowser DEF BrowserInv, IInv, BrowserTypeOK, UnderWay, CallsAreMeant
<1>2. CASE ServeLogin(s)
  <2>1. PICK j \in Tokens, f \in Families : IssueRefreshToken(j, user, f) /\ Answer(s, j)
    BY <1>2 DEF ServeLogin
  <2>2. Issued' = Issued \cup {j} /\ j \notin Issued /\ rotating' = None
    BY <1>1, <2>1, InsertEffect DEF IssueRefreshToken, Idle
  <2>3. j \in Unissued /\ Unissued' = Unissued \ {j}
    BY <2>2 DEF Unissued
  <2>4. QED
    BY <1>1, <1>2, <2>1, <2>2, <2>3, AnswerEffect DEF ServeLogin
<1>3. CASE FinishRefresh(s)
  <2>1. PICK j \in Tokens : RotateInsert(j) /\ Answer(s, j)
    BY <1>3 DEF FinishRefresh
  <2>2. row[rotating] \in Row
    BY <1>1, <2>1 DEF RotateInsert, Idle, TypeOK, Bookkeeping, Issued
  <2>3. Issued' = Issued \cup {j} /\ j \notin Issued /\ rotating' = None
    BY <1>1, <2>1, <2>2, InsertEffect DEF RotateInsert, Row
  <2>4. j \in Unissued /\ Unissued' = Unissued \ {j}
    BY <2>3 DEF Unissued
  <2>5. QED
    BY <1>1, <1>3, <2>1, <2>3, <2>4, AnswerEffect DEF FinishRefresh
<1>4. CASE RefuseCsrf(s) \/ RefuseExpired(s)
  <2>1. PICK x \in {NoChange, Clear} : Answer(s, x)
    BY <1>4 DEF RefuseCsrf, RefuseExpired
  <2>2. Unissued' = Unissued /\ rotating' = None /\ call[s].stage = "sent"
    BY <1>4 DEF RefuseCsrf, RefuseExpired, vars, Idle, Unissued, Issued
  <2>3. QED
    BY <1>1, <2>1, <2>2, AnswerEffect
<1>5. CASE RefuseReused(s) \/ ServeLogout(s)
  <2>1. Answer(s, Clear) /\ rotating' = None /\ call[s].stage = "sent"
    BY <1>5 DEF RefuseReused, ServeLogout, RotateReused, RevokeRefreshToken, Idle
  <2>2. Issued' = Issued
    BY <1>1, <1>5, RevokeEffect DEF RefuseReused, ServeLogout, RotateReused, RevokeRefreshToken
  <2>3. Unissued' = Unissued
    BY <2>2 DEF Unissued
  <2>4. QED
    BY <1>1, <2>1, <2>3, AnswerEffect
<1>6. CASE ServeRefresh(s)
  <2>1. Issued' = Issued
    BY <1>1, <1>6, RevokeEffect DEF ServeRefresh, RotateRevoke
  <2>2. Unissued' = Unissued
    BY <2>1 DEF Unissued
  <2>3. call' = [call EXCEPT ![s].stage = "rotating"] /\ call[s].stage = "sent"
    BY <1>6 DEF ServeRefresh
  <2>4. call'[s] = [call[s] EXCEPT !.stage = "rotating"]
    BY <1>1, <2>3
  <2>5. call'[s] \in Call
    BY <1>1, <2>4 DEF Call
  <2>6. QED
    BY <1>1, <2>2, <2>3, <2>4, <2>5 DEF Call
<1>7. QED
  BY <1>2, <1>3, <1>4, <1>5, <1>6 DEF Serve

(* A call that is sent is a new one.                                       *)
LEMMA SentIsNew ==
    ASSUME BrowserInv, NEW t \in Tabs, NEW kind \in Kinds, NEW token \in Tokens \cup {None},
           Send(t, kind, token)
    PROVE  \E s \in Slots \ UnderWay :
              /\ UnderWay' = UnderWay \cup {s} /\ Unanswered' = Unanswered \cup {s}
              /\ \A r \in UnderWay : call'[r] = call[r]
              /\ Unissued' = Unissued /\ rotating' = rotating
<1>1. call \in [Slots -> Call \cup {None}] /\ None \notin Call
  BY OneBrowser DEF BrowserInv, BrowserTypeOK
<1>2. PICK s \in Slots \ UnderWay :
        call' = [call EXCEPT ![s] = [tab |-> t, kind |-> kind, token |-> token,
                                     stage |-> "sent", page |-> TRUE, sets |-> None]]
  BY DEF Send
<1>3. Unissued' = Unissued /\ rotating' = rotating
  BY DEF Send, vars, Unissued, Issued
<1>4. call'[s] \in Call /\ call'[s].stage = "sent" /\ \A r \in Slots \ {s} : call'[r] = call[r]
  BY <1>1, <1>2 DEF Call
<1>5. UnderWay' = UnderWay \cup {s}
  BY <1>1, <1>4 DEF UnderWay
<1>6. Unanswered' = Unanswered \cup {s}
  BY <1>4, <1>5 DEF Unanswered, UnderWay
<1>7. QED
  BY <1>3, <1>4, <1>5, <1>6 DEF UnderWay

(* A call that is over is gone, and no other is touched.                   *)
LEMMA OverIsGone ==
    ASSUME BrowserInv, NEW s \in UnderWay, call' = [call EXCEPT ![s] = None]
    PROVE  /\ call'[s] = None /\ \A r \in UnderWay \ {s} : call'[r] = call[r]
           /\ UnderWay' = UnderWay \ {s} /\ Unanswered' \subseteq Unanswered
<1>1. call \in [Slots -> Call \cup {None}] /\ s \in Slots
  BY DEF BrowserInv, BrowserTypeOK, UnderWay
<1>2. call'[s] = None /\ \A r \in Slots \ {s} : call'[r] = call[r]
  BY <1>1
<1>3. UnderWay' = UnderWay \ {s}
  BY <1>2 DEF UnderWay
<1>4. QED
  BY <1>2, <1>3 DEF UnderWay, Unanswered

(* A reload leaves every call where it is.                                 *)
LEMMA ReloadedGoOn ==
    ASSUME BrowserInv, NEW t \in Tabs, Reload(t)
    PROVE  /\ UnderWay' = UnderWay /\ Unanswered' = Unanswered
           /\ \A s \in UnderWay : /\ call'[s].stage = call[s].stage /\ call'[s].kind = call[s].kind
                                  /\ call'[s].token = call[s].token /\ call'[s].tab = call[s].tab
           /\ Unissued' = Unissued /\ rotating' = rotating
<1>1. call \in [Slots -> Call \cup {None}] /\ None \notin Call
  BY OneBrowser DEF BrowserInv, BrowserTypeOK
<1>2. /\ call' = [s \in Slots |-> IF s \in {r \in UnderWay : call[r].tab = t}
                                  THEN [call[s] EXCEPT !.page = FALSE] ELSE call[s]]
      /\ Unissued' = Unissued /\ rotating' = rotating
  BY DEF Reload, vars, Unissued, Issued
<1>3. ASSUME NEW s \in UnderWay
      PROVE  /\ call'[s] \in Call
             /\ call'[s].stage = call[s].stage /\ call'[s].kind = call[s].kind
             /\ call'[s].token = call[s].token /\ call'[s].tab = call[s].tab
  <2>1. call[s] \in Call /\ s \in Slots
    BY <1>1, <1>3 DEF UnderWay
  <2>2. call'[s] = [call[s] EXCEPT !.page = FALSE] \/ call'[s] = call[s]
    BY <1>2, <2>1
  <2>3. QED
    BY <2>1, <2>2 DEF Call
<1>4. \A s \in Slots \ UnderWay : call'[s] = None
  BY <1>2 DEF UnderWay
<1>5. UnderWay' = UnderWay
  BY <1>1, <1>3, <1>4 DEF UnderWay
<1>6. Unanswered' = Unanswered
  BY <1>3, <1>5 DEF Unanswered
<1>7. QED
  BY <1>2, <1>3, <1>5, <1>6

(* There is still a token for every call that may be given one: a call is  *)
(* sent only when there is one more, and uses up at most its own.          *)
LEMMA PoolAfter ==
    ASSUME IsFiniteSet(Tokens), IsFiniteSet(Slots), PoolLasts,
           \/ PoolSuffices /\ Unissued' = Unissued
                /\ \E s \in Slots \ UnderWay : Unanswered' = Unanswered \cup {s}
           \/ Unissued' = Unissued /\ Unanswered' \subseteq Unanswered
           \/ \E s \in Unanswered, j \in Unissued :
                 Unissued' = Unissued \ {j} /\ Unanswered' = Unanswered \ {s}
    PROVE  PoolLasts'
<1>1. IsFiniteSet(Unissued) /\ IsFiniteSet(Unanswered)
  BY FS_Subset DEF Unissued, Unanswered, UnderWay
<1>2. Cardinality(Unissued) \in Nat /\ Cardinality(Unanswered) \in Nat
  BY <1>1, FS_CardinalityType
<1>3. ASSUME NEW s \in Slots \ UnderWay, PoolSuffices, Unissued' = Unissued, Unanswered' = Unanswered \cup {s}
      PROVE  PoolLasts'
  <2>1. Cardinality(Unanswered') = Cardinality(Unanswered) + 1
    BY <1>1, <1>3, FS_AddElement DEF Unanswered
  <2>2. Cardinality(Unissued) > Cardinality(Unanswered)
    BY <1>3 DEF PoolSuffices, Unanswered
  <2>3. QED
    BY <1>2, <1>3, <2>1, <2>2 DEF PoolLasts
<1>4. ASSUME Unissued' = Unissued, Unanswered' \subseteq Unanswered PROVE PoolLasts'
  <2>1. Cardinality(Unanswered') <= Cardinality(Unanswered) /\ Cardinality(Unanswered') \in Nat
    BY <1>1, <1>4, FS_Subset, FS_CardinalityType
  <2>2. QED
    BY <1>2, <1>4, <2>1 DEF PoolLasts
<1>5. ASSUME NEW s \in Unanswered, NEW j \in Unissued,
             Unissued' = Unissued \ {j}, Unanswered' = Unanswered \ {s}
      PROVE  PoolLasts'
  <2>1. Cardinality(Unissued') = Cardinality(Unissued) - 1 /\ Cardinality(Unanswered') = Cardinality(Unanswered) - 1
    BY <1>1, <1>5, FS_RemoveElement
  <2>2. QED
    BY <1>2, <2>1 DEF PoolLasts
<1>6. QED
  BY <1>3, <1>4, <1>5

(* Each step keeps the rotation with its call and the pool with its        *)
(* tokens.                                                                 *)
LEMMA StepGoesOn ==
    ASSUME IsFiniteSet(Tokens), IsFiniteSet(Slots), GoOnInv, [BrowserNext]_browserVars
    PROVE  RotationHasCall' /\ PoolLasts'
<1>1. BrowserInv /\ RotationHasCall /\ PoolLasts /\ cookie \in Tokens \cup {None}
  BY DEF GoOnInv, BrowserInv, BrowserTypeOK
<1>2. ASSUME NEW t \in Tabs, SendLogin(t) \/ SendRefresh(t) \/ SendLogout(t)
      PROVE  RotationHasCall' /\ PoolLasts'
  <2>1. PICK kind \in Kinds, token \in Tokens \cup {None} : Send(t, kind, token)
    BY <1>1, <1>2 DEF SendLogin, SendRefresh, SendLogout, Kinds
  <2>2. PICK s \in Slots \ UnderWay :
          /\ UnderWay' = UnderWay \cup {s} /\ Unanswered' = Unanswered \cup {s}
          /\ \A r \in UnderWay : call'[r] = call[r]
          /\ Unissued' = Unissued /\ rotating' = rotating
    BY <1>1, <2>1, SentIsNew
  <2>3. PoolSuffices
    BY <2>1 DEF Send
  <2>4. PoolLasts'
    BY <1>1, <2>2, <2>3, PoolAfter
  <2>5. QED
    BY <1>1, <2>2, <2>4 DEF RotationHasCall, Idle
<1>3. ASSUME NEW s \in UnderWay, Serve(s) PROVE RotationHasCall' /\ PoolLasts'
  <2>1. /\ call' \in [Slots -> Call \cup {None}] /\ call'[s] \in Call
        /\ \A r \in Slots \ {s} : call'[r] = call[r]
        /\ \/ /\ call[s].stage # "answered" /\ call'[s].stage = "answered" /\ rotating' = None
              /\ Unissued' = Unissued \/ \E j \in Unissued : Unissued' = Unissued \ {j}
           \/ call[s].stage = "sent" /\ call'[s].stage = "rotating" /\ Unissued' = Unissued
    BY <1>1, <1>3, ServedGoesOn
  <2>2. UnderWay' = UnderWay
    BY <2>1, OneBrowser DEF UnderWay
  <2>3. s \in Unanswered /\ Unanswered' \subseteq Unanswered
    BY <2>1, <2>2 DEF Unanswered, UnderWay
  <2>4. call'[s].stage = "answered" => Unanswered' = Unanswered \ {s}
    BY <2>1, <2>2 DEF Unanswered, UnderWay
  <2>5. PoolLasts'
    BY <1>1, <2>1, <2>3, <2>4, PoolAfter
  <2>6. RotationHasCall'
    BY <2>1, <2>2 DEF RotationHasCall, Idle
  <2>7. QED
    BY <2>5, <2>6
<1>4. ASSUME NEW s \in UnderWay, Deliver(s) \/ Lose(s) \/ Discard(s) PROVE RotationHasCall' /\ PoolLasts'
  <2>1. /\ call' = [call EXCEPT ![s] = None] /\ call[s].stage # "rotating"
        /\ Unissued' = Unissued /\ rotating' = rotating
    BY <1>4 DEF Deliver, Lose, Discard, vars, Unissued, Issued
  <2>2. /\ \A r \in UnderWay \ {s} : call'[r] = call[r]
        /\ UnderWay' = UnderWay \ {s} /\ Unanswered' \subseteq Unanswered
    BY <1>1, <2>1, OverIsGone
  <2>3. PoolLasts'
    BY <1>1, <2>1, <2>2, PoolAfter
  <2>4. QED
    BY <1>1, <2>1, <2>2, <2>3 DEF RotationHasCall, Idle
<1>5. ASSUME NEW t \in Tabs, Reload(t) PROVE RotationHasCall' /\ PoolLasts'
  <2>1. /\ UnderWay' = UnderWay /\ Unanswered' = Unanswered
        /\ \A s \in UnderWay : call'[s].stage = call[s].stage
        /\ Unissued' = Unissued /\ rotating' = rotating
    BY <1>1, <1>5, ReloadedGoOn
  <2>2. PoolLasts'
    BY <1>1, <2>1, PoolAfter
  <2>3. QED
    BY <1>1, <2>1, <2>2 DEF RotationHasCall, Idle
<1>6. CASE CrashDuringRotation
  <2>1. PICK s \in UnderWay : call' = [call EXCEPT ![s] = None] /\ Crash
    BY <1>6 DEF CrashDuringRotation
  <2>2. Unissued' = Unissued /\ rotating' = None
    BY <2>1 DEF Crash, Unissued, Issued
  <2>3. Unanswered' \subseteq Unanswered
    BY <1>1, <2>1, OverIsGone
  <2>4. PoolLasts'
    BY <1>1, <2>2, <2>3, PoolAfter
  <2>5. QED
    BY <2>2, <2>4 DEF RotationHasCall, Idle
<1>7. ASSUME UNCHANGED <<call, rotating, row>> PROVE RotationHasCall' /\ PoolLasts'
  <2>1. Unissued' = Unissued /\ Unanswered' = Unanswered /\ UnderWay' = UnderWay
    BY <1>7 DEF Unissued, Issued, Unanswered, UnderWay
  <2>2. PoolLasts'
    BY <1>1, <2>1, PoolAfter
  <2>3. QED
    BY <1>1, <1>7, <2>1, <2>2 DEF RotationHasCall, Idle
<1>8. ASSUME NEW j \in Tokens, TokenExpires(j) PROVE UNCHANGED <<call, rotating, row>>
  BY <1>8 DEF TokenExpires, Expire
<1>9. CASE UNCHANGED browserVars
  BY <1>7, <1>9 DEF browserVars, vars
<1>10. QED
  BY <1>2, <1>3, <1>4, <1>5, <1>6, <1>7, <1>8, <1>9 DEF BrowserNext

(* What a refresh under way waits for can happen, for any number of tabs   *)
(* and calls: the safety part of RefreshSettles.                           *)
THEOREM RefreshesGoOn ==
    ASSUME IsFiniteSet(Tokens), IsFiniteSet(Slots)
    PROVE  BrowserSpec => []NoRefreshHangs
<1>1. BrowserInit => GoOnInv
  <2> SUFFICES ASSUME BrowserInit PROVE GoOnInv
    OBVIOUS
  <2>1. BrowserInv
    BY BrowserInitInv
  <2>2. UnderWay = {} /\ Unanswered = {} /\ Idle
    BY DEF BrowserInit, Init, UnderWay, Unanswered, Idle
  <2>3. PoolLasts
    <3>1. IsFiniteSet(Unissued)
      BY FS_Subset DEF Unissued
    <3>2. QED
      BY <2>2, <3>1, FS_EmptySet, FS_CardinalityType DEF PoolLasts
  <2>4. QED
    BY <2>1, <2>2, <2>3 DEF GoOnInv, RotationHasCall
<1>2. GoOnInv /\ [BrowserNext]_browserVars => GoOnInv'
  BY BrowserStepKeepsInv, StepGoesOn DEF GoOnInv
<1>3. GoOnInv => NoRefreshHangs
  <2> SUFFICES ASSUME GoOnInv, NEW s \in UnderWay, call[s].kind = "refresh"
               PROVE  \/ RefreshGoesOn(s)
                      \/ \E r \in UnderWay : /\ call[r].kind = "refresh" /\ call[r].stage = "rotating"
                                             /\ RefreshGoesOn(r)
    BY DEF NoRefreshHangs
  <2>1. /\ call[s] \in Call /\ call[s].token \in Issued \cup {None}
        /\ \A r \in UnderWay : call[r] \in Call /\ CallIsMeant(r)
    BY DEF GoOnInv, BrowserInv, BrowserTypeOK, CallsAreMeant, CallIsMeant, UnderWay
  <2>2. ASSUME NEW r \in UnderWay, call[r].stage = "rotating"
        PROVE  call[r].kind = "refresh" /\ RefreshGoesOn(r)
    <3>1. call[r].kind = "refresh" /\ ~Idle
      BY <2>1, <2>2 DEF CallIsMeant, Call, Kinds
    <3>2. r \in Unanswered
      BY <2>2 DEF Unanswered
    <3>3. Unissued # {}
      <4>1. IsFiniteSet(Unanswered) /\ IsFiniteSet(Unissued)
        BY FS_Subset DEF Unanswered, UnderWay, Unissued
      <4>2. Cardinality(Unanswered) # 0 /\ Cardinality(Unanswered) \in Nat
        BY <3>2, <4>1, FS_EmptySet, FS_CardinalityType
      <4>3. Cardinality(Unissued) # 0
        BY <4>1, <4>2, FS_CardinalityType DEF GoOnInv, PoolLasts
      <4>4. QED
        BY <4>1, <4>3, FS_EmptySet
    <3>4. QED
      BY <2>2, <3>1, <3>3 DEF RefreshGoesOn
  <2>3. CASE call[s].stage = "answered"
    BY <2>3 DEF RefreshGoesOn
  <2>4. CASE call[s].stage = "rotating"
    BY <2>2, <2>4
  <2>5. CASE call[s].stage = "sent" /\ Idle
    BY <2>1, <2>5 DEF RefreshGoesOn, Live
  <2>6. CASE call[s].stage = "sent" /\ ~Idle
    BY <2>2, <2>6 DEF GoOnInv, RotationHasCall
  <2>7. QED
    BY <2>1, <2>3, <2>4, <2>5, <2>6 DEF Call
<1>4. QED
  BY <1>1, <1>2, <1>3, PTL DEF BrowserSpec

(* A call under way only goes forward, so that it is served in at most two *)
(* steps and over with the next (client.js:43-66).                         *)
THEOREM CallsOnlyAdvance == BrowserSpec => CallsGoForward
<1>1. ASSUME BrowserInv, [BrowserNext]_browserVars, NEW s \in UnderWay
      PROVE  /\ call'[s] # None => /\ call'[s].kind = call[s].kind /\ call'[s].tab = call[s].tab
                                   /\ call'[s].token = call[s].token
                                   /\ StageOf(call[s].stage) <= StageOf(call'[s].stage)
             /\ Serve(s) => call'[s] # None /\ StageOf(call[s].stage) < StageOf(call'[s].stage)
             /\ Deliver(s) \/ Discard(s) => call'[s] = None
  <2> DEFINE Forward == /\ call'[s].kind = call[s].kind /\ call'[s].tab = call[s].tab
                        /\ call'[s].token = call[s].token
                        /\ StageOf(call[s].stage) <= StageOf(call'[s].stage)
  <2>0. StageOf("sent") = 0 /\ StageOf("rotating") = 1 /\ StageOf("answered") = 2
    BY DEF StageOf
  <2>1. call[s] \in Call /\ s \in Slots /\ cookie \in Tokens \cup {None}
    BY <1>1 DEF BrowserInv, BrowserTypeOK, UnderWay
  <2>2. StageOf(call[s].stage) \in 0 .. 2
    BY <2>0, <2>1 DEF Call
  <2>3. call'[s] = call[s] => Forward
    BY <2>2
  <2>4. ASSUME NEW t \in Tabs, SendLogin(t) \/ SendRefresh(t) \/ SendLogout(t) PROVE Forward
    <3>1. PICK kind \in Kinds, token \in Tokens \cup {None} : Send(t, kind, token)
      BY <2>1, <2>4 DEF SendLogin, SendRefresh, SendLogout, Kinds
    <3>2. call'[s] = call[s]
      BY <1>1, <3>1, SentIsNew
    <3>3. QED
      BY <2>3, <3>2
  <2>5. ASSUME NEW r \in UnderWay, Serve(r)
        PROVE  Forward /\ (r = s => call'[s] # None /\ StageOf(call[s].stage) < StageOf(call'[s].stage))
    <3>1. CASE r = s
      BY <1>1, <2>0, <2>1, <2>5, <3>1, ServedGoesOn, OneBrowser DEF Call
    <3>2. CASE r # s
      BY <1>1, <2>1, <2>3, <2>5, <3>2, ServedGoesOn
    <3>3. QED
      BY <3>1, <3>2
  <2>6. ASSUME NEW r \in UnderWay, call' = [call EXCEPT ![r] = None]
        PROVE  IF r = s THEN call'[s] = None ELSE Forward
    BY <1>1, <2>3, <2>6, OverIsGone
  <2>7. ASSUME NEW t \in Tabs, Reload(t) PROVE Forward
    BY <1>1, <2>2, <2>7, ReloadedGoOn
  <2>8. ASSUME UNCHANGED call PROVE Forward
    BY <2>3, <2>8
  <2> HIDE DEF Forward
  <2>9. ASSUME NEW r \in UnderWay, Deliver(r) \/ Lose(r) \/ Discard(r) PROVE call' = [call EXCEPT ![r] = None]
    BY <2>9 DEF Deliver, Lose, Discard
  <2>10. CrashDuringRotation => \E r \in UnderWay : call' = [call EXCEPT ![r] = None]
    BY DEF CrashDuringRotation
  <2>11. (\E j \in Tokens : TokenExpires(j)) \/ UNCHANGED browserVars => UNCHANGED call
    BY DEF TokenExpires, browserVars
  <2>12. call'[s] = None \/ Forward
    BY <1>1, <2>4, <2>5, <2>6, <2>7, <2>8, <2>9, <2>10, <2>11 DEF BrowserNext
  <2>13. QED
    BY <2>5, <2>6, <2>9, <2>12 DEF Forward
<1>2. BrowserInv /\ [BrowserNext]_browserVars =>
        [\A s \in UnderWay :
            /\ call'[s] # None => /\ call'[s].kind = call[s].kind /\ call'[s].tab = call[s].tab
                                  /\ call'[s].token = call[s].token
                                  /\ StageOf(call[s].stage) <= StageOf(call'[s].stage)
            /\ Serve(s) => call'[s] # None /\ StageOf(call[s].stage) < StageOf(call'[s].stage)
            /\ Deliver(s) \/ Discard(s) => call'[s] = None]_browserVars
  BY <1>1
<1>3. QED
  BY <1>2, BrowserInvariantHolds, PTL DEF BrowserSpec, CallsGoForward
================================================================================
