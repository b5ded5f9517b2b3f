---------------------------- MODULE LoginFlowProofs ----------------------------
(***************************************************************************)
(* Proofs about logging in, for any numbers of users, pending logins,      *)
(* handlers under way, codes and attempts.                                 *)
(***************************************************************************)
EXTENDS LoginFlow, FiniteSetTheorems, TLAPS

Redeeming(s) == Doing(s, "confirm") \/ Doing(s, "verify")
Guessing(s) == Doing(s, "login") \/ Doing(s, "verify")

(* A pending login is deleted before anything is awaited: of all the       *)
(* handlers under way one at most works for it, and none for one that has  *)
(* had its session.                                                        *)
PendingsAreSpent ==
    /\ \A p \in Pendings :
          sessions[p] > 0 => /\ sessions[p] = 1
                             /\ pending[p] # None /\ pending[p].gone
                             /\ pending[p].user \in enabled
    /\ \A s \in Slots : Redeeming(s) =>
          LET p == call[s].pending IN
          /\ pending[p] # None /\ pending[p].gone /\ pending[p].user = call[s].user
          /\ sessions[p] = 0
          /\ call[s].user \in enabled
    /\ \A s, t \in Slots :
          Redeeming(s) /\ Redeeming(t) /\ call[s].pending = call[t].pending => s = t

(* An account is confirmed by one handler, which has codes left to store.  *)
ConfirmedOnce ==
    /\ \A s, t \in Slots :
          Doing(s, "confirm") /\ Doing(t, "confirm") /\ call[s].user = call[t].user => s = t
    /\ \A s \in Slots :
          Doing(s, "confirm") => /\ IsFiniteSet(codes[call[s].user])
                                 /\ Cardinality(codes[call[s].user]) < CodesPerUser

(* A handler that holds an unused code that is used by now was not alone.  *)
CodesAreSpent ==
    /\ \A c \in Codes : spent[c] > 0 => c \in used
    /\ \A s, t \in Slots :
          Doing(s, "verify") /\ Doing(t, "verify") /\ call[s].code = call[t].code /\ s # t
          => call[s].code \in together
    /\ \A s \in Slots :
          Doing(s, "verify") /\ call[s].code \in call[s].unused /\ call[s].code \in used
          => call[s].code \in together

(* While a name is not locked its tries are counted; while it is, only the *)
(* handlers under way can add to them: n tries with a count of f, locked   *)
(* or not, and g handlers under way.                                       *)
Guesses(u) == {s \in Slots : Guessing(s) /\ call[s].user = u}

Counts(n, f, isLocked, g) ==
    /\ ~isLocked => n <= f /\ n < MaxAttempts
    /\ isLocked => n + g <= MaxAttempts + Cardinality(Slots)

TriesAreCounted ==
    \A u \in Users :
        /\ Counts(wrongPasswords[u], failures[u], u \in locked, Cardinality(Guesses(u)))
        /\ u \notin cleared =>
              Counts(wrongPasswords[u] + wrongCodes[u], failures[u], u \in locked,
                     Cardinality(Guesses(u)))

IInv ==
    /\ TypeOK
    /\ PendingsAreSpent
    /\ ConfirmedOnce
    /\ CodesAreComplete
    /\ CodesAreSpent
    /\ CodesUsedOnceUnlessTogether
    /\ TriesAreCounted

--------------------------------------------------------------------------------
(* Fields                                                                  *)
LEMMA CallFields ==
    ASSUME TypeOK, NEW s \in Slots
    PROVE  /\ Doing(s, "login") => call[s].user \in Users /\ call[s].right \in BOOLEAN
           /\ Doing(s, "confirm") => call[s].user \in Users /\ call[s].pending \in Pendings
           /\ Doing(s, "verify") => /\ call[s].user \in Users /\ call[s].pending \in Pendings
                                    /\ call[s].code \in Codes /\ call[s].unused \subseteq Codes
  <1>1. call[s] # None => call[s] \in Call
    BY DEF TypeOK
  <1>2. Doing(s, "login") => call[s] \in [kind : {"login"}, user : Users, right : BOOLEAN]
    BY <1>1 DEF Doing, Call
  <1>3. Doing(s, "confirm") => call[s] \in [kind : {"confirm"}, user : Users, pending : Pendings]
    BY <1>1 DEF Doing, Call
  <1>4. Doing(s, "verify") => call[s] \in [kind : {"verify"}, user : Users, pending : Pendings,
                                           code : Codes, unused : SUBSET Codes]
    BY <1>1 DEF Doing, Call
  <1> QED  BY <1>2, <1>3, <1>4

LEMMA PendingFields ==
    ASSUME TypeOK, NEW p \in Pendings, pending[p] # None
    PROVE  /\ pending[p] \in Pending
           /\ pending[p].user \in Users /\ pending[p].expired \in BOOLEAN /\ pending[p].gone \in BOOLEAN
  BY DEF TypeOK, Pending

LEMMA ConsumeFields ==
    ASSUME TypeOK, NEW p \in Pendings, Consume(p)
    PROVE  /\ pending[p] # None /\ ~pending[p].gone /\ pending[p].user \in Users
           /\ pending' \in [Pendings -> Pending \cup {None}]
           /\ pending'[p] # None /\ pending'[p].gone /\ pending'[p].user = pending[p].user
           /\ \A q \in Pendings \ {p} : pending'[q] = pending[q]
  <1> DEFINE new == [pending[p] EXCEPT !.gone = TRUE]
  <1>1. pending[p] # None /\ ~pending[p].gone
    BY DEF Consume, Exists
  <1>2. pending[p] \in Pending /\ pending[p].user \in Users
    BY <1>1, PendingFields
  <1>3. new \in Pending /\ new.gone /\ new.user = pending[p].user
    BY <1>2 DEF Pending
  <1>4. new # None
    BY <1>3, NoneIsNothing
  <1>5. pending' = [pending EXCEPT ![p] = new]
    BY DEF Consume
  <1> HIDE DEF new
  <1> QED  BY <1>1, <1>2, <1>3, <1>4, <1>5 DEF TypeOK

LEMMA NewCalls ==
    ASSUME NEW u \in Users
    PROVE  /\ \A right \in BOOLEAN : [kind |-> "login", user |-> u, right |-> right] \in Call
           /\ \A p \in Pendings : [kind |-> "confirm", user |-> u, pending |-> p] \in Call
           /\ \A p \in Pendings, c \in Codes, some \in SUBSET Codes :
                 [kind |-> "verify", user |-> u, pending |-> p, code |-> c, unused |-> some] \in Call
  BY DEF Call

LEMMA BeginFields ==
    ASSUME TypeOK, NEW s \in Slots, NEW rec \in Call, Begin(s, rec)
    PROVE  /\ call' \in [Slots -> Call \cup {None}]
           /\ call[s] = None /\ call'[s] = rec /\ rec # None
           /\ \A t \in Slots \ {s} : call'[t] = call[t]
  BY NoneIsNothing DEF Begin, TypeOK

LEMMA EndFields ==
    ASSUME TypeOK, NEW s \in Slots, End(s)
    PROVE  /\ call' \in [Slots -> Call \cup {None}]
           /\ call'[s] = None
           /\ \A t \in Slots \ {s} : call'[t] = call[t]
  BY DEF End, TypeOK

LEMMA LockoutTypes ==
    ASSUME TypeOK, NEW u \in Users,
           WrongPassword(u) \/ WrongCode(u) \/ RightPassword(u) \/ RightCode(u)
    PROVE  /\ failures' \in [Users -> 0 .. MaxAttempts]
           /\ locked' \subseteq Users
           /\ wrongPasswords' \in [Users -> Nat]
           /\ wrongCodes' \in [Users -> Nat]
           /\ cleared' \subseteq Users
  <1>1. CASE WrongPassword(u)
    BY <1>1, Sizes DEF TypeOK, WrongPassword, RecordFailure
  <1>2. CASE WrongCode(u)
    BY <1>2, Sizes DEF TypeOK, WrongCode, RecordFailure
  <1>3. CASE RightPassword(u)
    BY <1>3, Sizes DEF TypeOK, RightPassword, RecordSuccess
  <1>4. CASE RightCode(u)
    BY <1>4, Sizes DEF TypeOK, RightCode, RecordSuccess, Afresh
  <1> QED  BY <1>1, <1>2, <1>3, <1>4

LEMMA SessionTypes ==
    ASSUME TypeOK, NEW p \in Pendings, IssueSession(p)
    PROVE  /\ sessions' \in [Pendings -> Nat]
           /\ sessions'[p] = sessions[p] + 1
           /\ \A q \in Pendings \ {p} : sessions'[q] = sessions[q]
  BY DEF TypeOK, IssueSession

--------------------------------------------------------------------------------
(* What every step that starts no handler keeps                            *)
Shrinks == \A t \in Slots : call'[t] = call[t] \/ call'[t] = None

LEMMA PendingsKept ==
    ASSUME TypeOK, PendingsAreSpent, Shrinks, UNCHANGED sessions, enabled \subseteq enabled',
           \A p \in Pendings : pending[p] # None /\ pending[p].gone
              => pending'[p] # None /\ pending'[p].gone /\ pending'[p].user = pending[p].user
    PROVE  PendingsAreSpent'
  <1>1. \A s \in Slots : Redeeming(s)' => Redeeming(s) /\ call'[s] = call[s]
    BY DEF Shrinks, Redeeming, Doing
  <1>2. \A s \in Slots : Redeeming(s) => call[s].pending \in Pendings
    BY CallFields DEF Redeeming
  <1>3. \A p \in Pendings :
           sessions'[p] > 0 => /\ sessions'[p] = 1
                               /\ pending'[p] # None /\ pending'[p].gone
                               /\ pending'[p].user \in enabled'
    BY DEF PendingsAreSpent
  <1>4. ASSUME NEW s \in Slots, Redeeming(s)'
        PROVE  LET p == call'[s].pending IN
               /\ pending'[p] # None /\ pending'[p].gone /\ pending'[p].user = call'[s].user
               /\ sessions'[p] = 0
               /\ call'[s].user \in enabled'
    <2> DEFINE p == call[s].pending
    <2>1. Redeeming(s) /\ call'[s] = call[s] /\ p \in Pendings
      BY <1>1, <1>2, <1>4
    <2>2. /\ pending[p] # None /\ pending[p].gone /\ pending[p].user = call[s].user
          /\ sessions[p] = 0
          /\ call[s].user \in enabled
      BY <2>1 DEF PendingsAreSpent
    <2> HIDE DEF p
    <2>3. pending'[p] # None /\ pending'[p].gone /\ pending'[p].user = pending[p].user
      BY <2>1, <2>2
    <2> QED  BY <2>1, <2>2, <2>3 DEF p
  <1>5. \A s, t \in Slots :
           Redeeming(s)' /\ Redeeming(t)' /\ call'[s].pending = call'[t].pending => s = t
    BY <1>1 DEF PendingsAreSpent
  <1> QED  BY <1>3, <1>4, <1>5 DEF PendingsAreSpent

LEMMA ConfirmedKept ==
    ASSUME ConfirmedOnce, Shrinks, UNCHANGED codes
    PROVE  ConfirmedOnce'
  <1>1. \A s \in Slots : Doing(s, "confirm")' => Doing(s, "confirm") /\ call'[s] = call[s]
    BY DEF Shrinks, Doing
  <1> QED  BY <1>1 DEF ConfirmedOnce

LEMMA CompleteKept ==
    ASSUME CodesAreComplete, UNCHANGED <<codes, enabled>>, cutOff \subseteq cutOff',
           \A s \in Slots : Doing(s, "confirm") => call'[s] = call[s]
    PROVE  CodesAreComplete'
  <1>1. \A u \in Users : Confirming(u) => Confirming(u)'
    BY DEF Confirming, Doing
  <1> QED  BY <1>1 DEF CodesAreComplete

LEMMA SpentKept ==
    ASSUME CodesAreSpent, CodesUsedOnceUnlessTogether, Shrinks, UNCHANGED <<used, spent, together>>
    PROVE  CodesAreSpent' /\ CodesUsedOnceUnlessTogether'
  <1>1. \A s \in Slots : Doing(s, "verify")' => Doing(s, "verify") /\ call'[s] = call[s]
    BY DEF Shrinks, Doing
  <1> QED  BY <1>1 DEF CodesAreSpent, CodesUsedOnceUnlessTogether

--------------------------------------------------------------------------------
(* Counting tries                                                          *)
LEMMA GuessesAreFew ==
    ASSUME NEW u
    PROVE  /\ IsFiniteSet(Guesses(u)) /\ Cardinality(Guesses(u)) \in Nat
           /\ Cardinality(Slots) \in Nat
           /\ Cardinality(Guesses(u)) <= Cardinality(Slots)
  <1>1. Guesses(u) \subseteq Slots
    BY DEF Guesses
  <1> QED  BY <1>1, Sizes, FS_Subset, FS_CardinalityType

LEMMA GuessesAreFewAfter ==
    ASSUME NEW u
    PROVE  /\ IsFiniteSet(Guesses(u)') /\ Cardinality(Guesses(u)') \in Nat
           /\ Cardinality(Guesses(u)') <= Cardinality(Slots)
  <1>1. Guesses(u)' \subseteq Slots
    BY DEF Guesses
  <1> QED  BY <1>1, Sizes, FS_Subset, FS_CardinalityType

LEMMA FewerGuesses ==
    ASSUME NEW u, Guesses(u)' \subseteq Guesses(u)
    PROVE  Cardinality(Guesses(u)') <= Cardinality(Guesses(u))
  BY GuessesAreFew, FS_Subset

LEMMA OneGuessLess ==
    ASSUME NEW u, Guesses(u)' \subseteq Guesses(u), NEW s \in Guesses(u), s \notin Guesses(u)'
    PROVE  Cardinality(Guesses(u)') + 1 <= Cardinality(Guesses(u))
  <1>1. Guesses(u)' \subseteq Guesses(u) \ {s}
    OBVIOUS
  <1>2. IsFiniteSet(Guesses(u) \ {s}) /\ Cardinality(Guesses(u) \ {s}) = Cardinality(Guesses(u)) - 1
    BY GuessesAreFew, FS_RemoveElement
  <1>3. Cardinality(Guesses(u)') <= Cardinality(Guesses(u) \ {s})
    BY <1>1, <1>2, FS_Subset
  <1> QED  BY <1>2, <1>3, GuessesAreFew, GuessesAreFewAfter

LEMMA ShrinkingGuesses ==
    ASSUME Shrinks, NEW u
    PROVE  Guesses(u)' \subseteq Guesses(u)
  BY DEF Shrinks, Guesses, Guessing, Doing

(* With fewer handlers under way the tries stay counted, ...               *)
LEMMA CountsLess ==
    ASSUME NEW u, NEW h \in Nat, u \in locked => h <= Cardinality(Guesses(u)),
           NEW n \in Nat, Counts(n, failures[u], u \in locked, Cardinality(Guesses(u)))
    PROVE  Counts(n, failures[u], u \in locked, h)
  <1>1. MaxAttempts \in Nat /\ Cardinality(Slots) \in Nat /\ Cardinality(Guesses(u)) \in Nat
    BY Sizes, GuessesAreFew
  <1> QED  BY <1>1 DEF Counts

(* ... and with one more that recordFailure counts.                        *)
LEMMA CountsOneMore ==
    ASSUME NEW n \in Nat, NEW f \in 0 .. MaxAttempts, NEW isLocked \in BOOLEAN,
           NEW g \in Nat, NEW h \in Nat, isLocked => h + 1 <= g, h <= Cardinality(Slots),
           Counts(n, f, isLocked, g)
    PROVE  Counts(n + 1, IF f < MaxAttempts THEN f + 1 ELSE f,
                  isLocked \/ f + 1 >= MaxAttempts, h)
  <1>1. MaxAttempts \in Nat /\ Cardinality(Slots) \in Nat
    BY Sizes, FS_CardinalityType
  <1>2. CASE isLocked
    BY <1>1, <1>2 DEF Counts
  <1>3. CASE ~isLocked /\ f + 1 >= MaxAttempts
    BY <1>1, <1>3 DEF Counts
  <1>4. CASE ~isLocked /\ f + 1 < MaxAttempts
    BY <1>1, <1>4 DEF Counts
  <1> QED  BY <1>1, <1>2, <1>3, <1>4

LEMMA TriesKept ==
    ASSUME TypeOK, TriesAreCounted, UNCHANGED lockout,
           \A u \in locked : Guesses(u)' \subseteq Guesses(u)
    PROVE  TriesAreCounted'
  <1> SUFFICES ASSUME NEW u \in Users
               PROVE  /\ Counts(wrongPasswords[u], failures[u], u \in locked,
                                Cardinality(Guesses(u)'))
                      /\ u \notin cleared =>
                            Counts(wrongPasswords[u] + wrongCodes[u], failures[u], u \in locked,
                                   Cardinality(Guesses(u)'))
    BY DEF TriesAreCounted, lockout
  <1>1. /\ wrongPasswords[u] \in Nat /\ wrongCodes[u] \in Nat /\ failures[u] \in Nat
        /\ wrongPasswords[u] + wrongCodes[u] \in Nat
        /\ Cardinality(Guesses(u)) \in Nat /\ Cardinality(Guesses(u)') \in Nat
    BY Sizes, GuessesAreFew, GuessesAreFewAfter DEF TypeOK
  <1>2. u \in locked => Cardinality(Guesses(u)') <= Cardinality(Guesses(u))
    BY FewerGuesses
  <1>4. \A n \in Nat :
           Counts(n, failures[u], u \in locked, Cardinality(Guesses(u)))
           => Counts(n, failures[u], u \in locked, Cardinality(Guesses(u)'))
    BY <1>1, <1>2, CountsLess
  <1> QED  BY <1>1, <1>4 DEF TriesAreCounted

LEMMA TriesFailed ==
    ASSUME TypeOK, TriesAreCounted, NEW u \in Users, WrongPassword(u) \/ WrongCode(u), Shrinks,
           u \in locked => \E s \in Guesses(u) : s \notin Guesses(u)'
    PROVE  TriesAreCounted'
  <1> SUFFICES ASSUME NEW v \in Users
               PROVE  /\ Counts(wrongPasswords'[v], failures'[v], v \in locked',
                                Cardinality(Guesses(v)'))
                      /\ v \notin cleared =>
                            Counts(wrongPasswords'[v] + wrongCodes'[v], failures'[v],
                                   v \in locked', Cardinality(Guesses(v)'))
    BY DEF TriesAreCounted, WrongPassword, WrongCode
  <1> DEFINE w == wrongPasswords[v]
             c == wrongCodes[v]
             f == failures[v]
             l == v \in locked
             g == Cardinality(Guesses(v))
             h == Cardinality(Guesses(v)')
  <1>1. /\ w \in Nat /\ c \in Nat /\ w + c \in Nat /\ f \in Nat /\ f \in 0 .. MaxAttempts
        /\ l \in BOOLEAN /\ g \in Nat /\ h \in Nat /\ h <= Cardinality(Slots)
    BY Sizes, GuessesAreFew, GuessesAreFewAfter DEF TypeOK
  <1>2. h <= g
    BY ShrinkingGuesses, FewerGuesses
  <1>3. Counts(w, f, l, g) /\ (v \notin cleared => Counts(w + c, f, l, g))
    BY DEF TriesAreCounted
  <1>4. CASE v # u
    <2>1. /\ wrongPasswords'[v] = w /\ wrongCodes'[v] = c /\ failures'[v] = f
          /\ v \in locked' <=> l
      BY <1>4 DEF TypeOK, WrongPassword, WrongCode, RecordFailure
    <2>2. Counts(w, f, l, h) /\ (v \notin cleared => Counts(w + c, f, l, h))
      BY <1>1, <1>2, <1>3, CountsLess
    <2> HIDE DEF w, c, f, l, g, h
    <2> QED  BY <2>1, <2>2 DEF h, Counts
  <1>5. CASE v = u
    <2>1. /\ failures'[v] = IF f < MaxAttempts THEN f + 1 ELSE f
          /\ v \in locked' <=> (l \/ f + 1 >= MaxAttempts)
      BY <1>5 DEF TypeOK, WrongPassword, WrongCode, RecordFailure
    <2>2. \/ wrongPasswords'[v] = w + 1 /\ wrongCodes'[v] = c
          \/ wrongPasswords'[v] = w /\ wrongCodes'[v] = c + 1
      BY <1>5 DEF TypeOK, WrongPassword, WrongCode
    <2>3. l => h + 1 <= g
      BY <1>5, ShrinkingGuesses, OneGuessLess
    <2> DEFINE ff == IF f < MaxAttempts THEN f + 1 ELSE f
               ll == l \/ f + 1 >= MaxAttempts
    <2> HIDE DEF w, c, f, l, g, h
    <2>4. /\ Counts(w + 1, ff, ll, h)
          /\ v \notin cleared => Counts((w + c) + 1, ff, ll, h)
      BY <1>1, <1>3, <2>3, CountsOneMore
    <2>5. ff \in Nat /\ ll \in BOOLEAN
      BY <1>1, Sizes
    <2> HIDE DEF ff, ll
    <2>6. Counts(w, ff, ll, h)
      <3>1. MaxAttempts \in Nat /\ Cardinality(Slots) \in Nat
        BY Sizes, GuessesAreFew
      <3> QED  BY <1>1, <2>4, <2>5, <3>1 DEF Counts
    <2>7. failures'[v] = ff /\ (v \in locked' <=> ll)
      BY <2>1 DEF ff, ll
    <2>8. /\ wrongPasswords'[v] = w \/ wrongPasswords'[v] = w + 1
          /\ wrongPasswords'[v] + wrongCodes'[v] = (w + c) + 1
      BY <1>1, <2>2
    <2>9. Counts(wrongPasswords'[v], ff, ll, h)
      BY <2>4, <2>6, <2>8
    <2>10. v \notin cleared => Counts(wrongPasswords'[v] + wrongCodes'[v], ff, ll, h)
      BY <2>4, <2>8
    <2> QED  BY <2>7, <2>9, <2>10 DEF h, Counts
  <1> QED  BY <1>4, <1>5

(* A success, or the end of a lock                                         *)
LEMMA TriesReset ==
    ASSUME TypeOK, TriesAreCounted, NEW u \in Users, Shrinks,
           locked' = locked \ {u}, RightPassword(u) \/ Afresh(u),
           failures' \in [Users -> 0 .. MaxAttempts],
           \A v \in Users \ {u} : failures'[v] = failures[v]
    PROVE  TriesAreCounted'
  <1> SUFFICES ASSUME NEW v \in Users
               PROVE  /\ Counts(wrongPasswords'[v], failures'[v], v \in locked',
                                Cardinality(Guesses(v)'))
                      /\ v \notin cleared' =>
                            Counts(wrongPasswords'[v] + wrongCodes'[v], failures'[v],
                                   v \in locked', Cardinality(Guesses(v)'))
    BY DEF TriesAreCounted
  <1>1. /\ wrongPasswords[v] \in Nat /\ wrongCodes[v] \in Nat
        /\ wrongPasswords[v] + wrongCodes[v] \in Nat
        /\ failures[v] \in Nat /\ MaxAttempts \in Nat \ {0}
        /\ Cardinality(Guesses(v)) \in Nat /\ Cardinality(Guesses(v)') \in Nat
    BY Sizes, GuessesAreFew, GuessesAreFewAfter DEF TypeOK
  <1>2. Cardinality(Guesses(v)') <= Cardinality(Guesses(v))
    BY ShrinkingGuesses, FewerGuesses
  <1>3. CASE v # u
    <2>1. /\ wrongPasswords'[v] = wrongPasswords[v] /\ wrongCodes'[v] = wrongCodes[v]
          /\ failures'[v] = failures[v] /\ (v \in locked' <=> v \in locked)
          /\ v \in cleared' <=> v \in cleared
      BY <1>3 DEF TypeOK, RightPassword, Afresh
    <2>3. \A n \in Nat :
             Counts(n, failures[v], v \in locked, Cardinality(Guesses(v)))
             => Counts(n, failures[v], v \in locked, Cardinality(Guesses(v)'))
      BY <1>1, <1>2, CountsLess
    <2>4. /\ Counts(wrongPasswords[v], failures[v], v \in locked, Cardinality(Guesses(v)'))
          /\ v \notin cleared =>
                Counts(wrongPasswords[v] + wrongCodes[v], failures[v], v \in locked,
                       Cardinality(Guesses(v)'))
      BY <1>1, <2>3 DEF TriesAreCounted
    <2> QED  BY <2>1, <2>4 DEF Counts
  <1>4. CASE v = u
    <2>1. wrongPasswords'[v] = 0 /\ v \notin locked' /\ failures'[v] \in Nat
      BY <1>4, Sizes DEF TypeOK, RightPassword, Afresh
    <2>2. v \notin cleared' => wrongCodes'[v] = 0
      BY <1>1, <1>4 DEF TypeOK, RightPassword, Afresh
    <2> QED  BY <1>1, <2>1, <2>2 DEF Counts
  <1> QED  BY <1>3, <1>4

--------------------------------------------------------------------------------
(* One lemma per action                                                    *)
LEMMA LoginKeeps ==
    ASSUME IInv, NEW s \in Slots, NEW u \in Users, Login(s, u)
    PROVE  IInv'
  <1>0. TypeOK /\ UNCHANGED <<account, pending, lockout, history>> /\ u \notin locked
    BY DEF IInv, Login
  <1>1. PICK right \in BOOLEAN : Begin(s, [kind |-> "login", user |-> u, right |-> right])
    BY DEF Login
  <1> DEFINE rec == [kind |-> "login", user |-> u, right |-> right]
  <1>2. rec \in Call /\ rec.kind = "login" /\ rec.user = u
    BY NewCalls
  <1> HIDE DEF rec
  <1>3. /\ call' \in [Slots -> Call \cup {None}]
        /\ call[s] = None /\ call'[s] = rec
        /\ \A t \in Slots \ {s} : call'[t] = call[t]
    BY <1>0, <1>1, <1>2, BeginFields DEF rec
  <1>4. TypeOK'
    BY <1>0, <1>3 DEF TypeOK, account, lockout, history
  <1>5. \A t \in Slots : /\ Doing(t, "confirm")' => t # s /\ Doing(t, "confirm")
                         /\ Doing(t, "verify")' => t # s /\ Doing(t, "verify")
                         /\ Doing(t, "confirm") => call'[t] = call[t]
    BY <1>2, <1>3 DEF Doing
  <1>6. PendingsAreSpent'
    BY <1>0, <1>3, <1>5 DEF IInv, PendingsAreSpent, Redeeming, account, history
  <1>7. ConfirmedOnce' /\ CodesAreSpent' /\ CodesUsedOnceUnlessTogether'
    BY <1>0, <1>3, <1>5
    DEF IInv, ConfirmedOnce, CodesAreSpent, CodesUsedOnceUnlessTogether, account, history
  <1>8. CodesAreComplete'
    BY <1>0, <1>5, CompleteKept DEF IInv, account, history
  <1>9. \A v \in locked : Guesses(v)' \subseteq Guesses(v)
    BY <1>0, <1>2, <1>3 DEF Guesses, Guessing, Doing
  <1>10. TriesAreCounted'
    BY <1>0, <1>9, TriesKept DEF IInv
  <1> QED  BY <1>4, <1>6, <1>7, <1>8, <1>10 DEF IInv

(* A wrong password or a wrong backup code is counted and nothing else.    *)
LEMMA FailureKeeps ==
    ASSUME IInv, NEW s \in Slots, LoginFails(s) \/ CodeRejected(s)
    PROVE  IInv'
  <1>0. /\ TypeOK /\ Guessing(s) /\ (WrongPassword(call[s].user) \/ WrongCode(call[s].user)) /\ End(s)
        /\ UNCHANGED <<account, pending, history>> /\ call[s].user \in Users
    BY CallFields DEF IInv, LoginFails, CodeRejected, Guessing
  <1>1. /\ call' \in [Slots -> Call \cup {None}] /\ call'[s] = None
        /\ \A t \in Slots \ {s} : call'[t] = call[t]
    BY <1>0, EndFields
  <1>2. Shrinks /\ \A t \in Slots : Doing(t, "confirm") => call'[t] = call[t]
    BY <1>0, <1>1 DEF Shrinks, Doing, Guessing
  <1>3. TypeOK'
    BY <1>0, <1>1, LockoutTypes DEF TypeOK, account, history
  <1>4. PendingsAreSpent'
    BY <1>0, <1>2, PendingsKept DEF IInv, account, history
  <1>5. ConfirmedOnce' /\ CodesAreComplete'
    BY <1>0, <1>2, ConfirmedKept, CompleteKept DEF IInv, account, history
  <1>6. CodesAreSpent' /\ CodesUsedOnceUnlessTogether'
    BY <1>0, <1>2, SpentKept DEF IInv, account, history
  <1>7. PICK u \in Users : u = call[s].user
    BY <1>0
  <1>8. TriesAreCounted'
    <2>1. s \in Guesses(u) /\ s \notin Guesses(u)'
      BY <1>0, <1>1, <1>7 DEF Guesses, Guessing, Doing
    <2> QED  BY <1>0, <1>2, <1>7, <2>1, TriesFailed DEF IInv
  <1> QED  BY <1>3, <1>4, <1>5, <1>6, <1>8 DEF IInv

LEMMA LoginSucceedsKeeps ==
    ASSUME IInv, NEW s \in Slots, LoginSucceeds(s)
    PROVE  IInv'
  <1>0. /\ TypeOK /\ Doing(s, "login") /\ RightPassword(call[s].user) /\ End(s)
        /\ UNCHANGED <<account, history>> /\ call[s].user \in Users
    BY CallFields DEF IInv, LoginSucceeds
  <1>1. /\ call' \in [Slots -> Call \cup {None}] /\ call'[s] = None
        /\ \A t \in Slots \ {s} : call'[t] = call[t]
    BY <1>0, EndFields
  <1>2. Shrinks /\ \A t \in Slots : Doing(t, "confirm") => call'[t] = call[t]
    BY <1>0, <1>1 DEF Shrinks, Doing
  <1>3. PICK p \in Pendings :
           /\ pending[p] = None
           /\ pending' = [pending EXCEPT
                 ![p] = [user |-> call[s].user, expired |-> FALSE, gone |-> FALSE]]
    BY DEF LoginSucceeds
  <1>4. [user |-> call[s].user, expired |-> FALSE, gone |-> FALSE] \in Pending
    BY <1>0 DEF Pending
  <1>5. /\ pending' \in [Pendings -> Pending \cup {None}]
        /\ \A q \in Pendings \ {p} : pending'[q] = pending[q]
    BY <1>0, <1>3, <1>4 DEF TypeOK
  <1>6. TypeOK'
    BY <1>0, <1>1, <1>5, LockoutTypes DEF TypeOK, account, history
  <1>7. PendingsAreSpent'
    BY <1>0, <1>2, <1>3, <1>5, PendingsKept DEF IInv, account, history
  <1>8. ConfirmedOnce' /\ CodesAreComplete'
    BY <1>0, <1>2, ConfirmedKept, CompleteKept DEF IInv, account, history
  <1>9. CodesAreSpent' /\ CodesUsedOnceUnlessTogether'
    BY <1>0, <1>2, SpentKept DEF IInv, account, history
  <1>10. TriesAreCounted'
    BY <1>0, <1>2, LockoutTypes, TriesReset DEF IInv, RightCode, RightPassword, RecordSuccess, TypeOK
  <1> QED  BY <1>6, <1>7, <1>8, <1>9, <1>10 DEF IInv

LEMMA NoCallKept ==
    ASSUME UNCHANGED call
    PROVE  /\ Shrinks
           /\ \A t \in Slots : Doing(t, "confirm") => call'[t] = call[t]
           /\ \A u : Guesses(u)' \subseteq Guesses(u)
  BY DEF Shrinks, Guesses, Guessing, Doing

LEMMA PendingExpiresKeeps ==
    ASSUME IInv, NEW p \in Pendings, PendingExpires(p)
    PROVE  IInv'
  <1>0. /\ TypeOK /\ UNCHANGED <<account, lockout, call, history>>
        /\ pending[p] # None /\ ~pending[p].gone
        /\ pending' = [pending EXCEPT ![p].expired = TRUE]
    BY DEF IInv, PendingExpires, Open, Exists
  <1>1. [pending[p] EXCEPT !.expired = TRUE] \in Pending
    BY <1>0, PendingFields DEF Pending
  <1>2. /\ pending' \in [Pendings -> Pending \cup {None}]
        /\ \A q \in Pendings \ {p} : pending'[q] = pending[q]
    BY <1>0, <1>1 DEF TypeOK
  <1>3. TypeOK'
    BY <1>0, <1>2 DEF TypeOK, account, lockout, history
  <1>4. PendingsAreSpent'
    BY <1>0, <1>2, NoCallKept, PendingsKept DEF IInv, account, history
  <1>5. ConfirmedOnce' /\ CodesAreComplete'
    BY <1>0, NoCallKept, ConfirmedKept, CompleteKept DEF IInv, account, history
  <1>6. CodesAreSpent' /\ CodesUsedOnceUnlessTogether'
    BY <1>0, NoCallKept, SpentKept DEF IInv, account, history
  <1>7. TriesAreCounted'
    BY <1>0, NoCallKept, TriesKept DEF IInv
  <1> QED  BY <1>3, <1>4, <1>5, <1>6, <1>7 DEF IInv

LEMMA LockPassesKeeps ==
    ASSUME IInv, NEW u \in Users, LockPasses(u)
    PROVE  IInv'
  <1>0. TypeOK /\ UNCHANGED <<account, pending, failures, call, history>>
    BY DEF IInv, LockPasses
  <1>1. TypeOK'
    BY <1>0 DEF TypeOK, account, history, LockPasses, Afresh
  <1>2. PendingsAreSpent'
    BY <1>0, NoCallKept, PendingsKept DEF IInv, account, history
  <1>3. ConfirmedOnce' /\ CodesAreComplete'
    BY <1>0, NoCallKept, ConfirmedKept, CompleteKept DEF IInv, account, history
  <1>4. CodesAreSpent' /\ CodesUsedOnceUnlessTogether'
    BY <1>0, NoCallKept, SpentKept DEF IInv, account, history
  <1>5. failures' \in [Users -> 0 .. MaxAttempts] /\ \A v \in Users \ {u} : failures'[v] = failures[v]
    BY <1>0 DEF TypeOK
  <1>6. TriesAreCounted'
    BY <1>0, <1>5, NoCallKept, TriesReset DEF IInv, LockPasses, TypeOK
  <1> QED  BY <1>1, <1>2, <1>3, <1>4, <1>6 DEF IInv

LEMMA SetupInitKeeps ==
    ASSUME IInv, NEW p \in Pendings, SetupInit(p)
    PROVE  IInv'
  <1>0. TypeOK /\ UNCHANGED <<enabled, codes, used, pending, lockout, call, history>>
    BY DEF IInv, SetupInit
  <1>1. TypeOK'
    BY <1>0 DEF TypeOK, lockout, history, SetupInit
  <1>2. PendingsAreSpent'
    BY <1>0, NoCallKept, PendingsKept DEF IInv, history
  <1>3. ConfirmedOnce' /\ CodesAreComplete'
    BY <1>0, NoCallKept, ConfirmedKept, CompleteKept DEF IInv, history
  <1>4. CodesAreSpent' /\ CodesUsedOnceUnlessTogether'
    BY <1>0, NoCallKept, SpentKept DEF IInv, history
  <1>5. TriesAreCounted'
    BY <1>0, NoCallKept, TriesKept DEF IInv
  <1> QED  BY <1>1, <1>2, <1>3, <1>4, <1>5 DEF IInv

LEMMA RefusedKeeps ==
    ASSUME IInv, NEW p \in Pendings, Consume(p), UNCHANGED <<account, lockout, call, history>>
    PROVE  IInv'
  <1>0. TypeOK
    BY DEF IInv
  <1>1. /\ pending' \in [Pendings -> Pending \cup {None}] /\ ~pending[p].gone
        /\ \A q \in Pendings \ {p} : pending'[q] = pending[q]
    BY <1>0, ConsumeFields
  <1>2. TypeOK'
    BY <1>0, <1>1 DEF TypeOK, account, lockout, history
  <1>3. PendingsAreSpent'
    BY <1>0, <1>1, NoCallKept, PendingsKept DEF IInv, account, history
  <1>4. ConfirmedOnce' /\ CodesAreComplete'
    BY <1>0, NoCallKept, ConfirmedKept, CompleteKept DEF IInv, account, history
  <1>5. CodesAreSpent' /\ CodesUsedOnceUnlessTogether'
    BY <1>0, NoCallKept, SpentKept DEF IInv, account, history
  <1>6. TriesAreCounted'
    BY <1>0, NoCallKept, TriesKept DEF IInv
  <1> QED  BY <1>2, <1>3, <1>4, <1>5, <1>6 DEF IInv

(* A session is issued for a pending login that had none, by the only      *)
(* handler that works for it.                                              *)
LEMMA SessionOpened ==
    ASSUME TypeOK, PendingsAreSpent, Shrinks, UNCHANGED enabled,
           NEW p \in Pendings, IssueSession(p), sessions[p] = 0,
           pending'[p] # None, pending'[p].gone, pending'[p].user \in enabled,
           \A q \in Pendings : pending[q] # None /\ pending[q].gone
              => pending'[q] # None /\ pending'[q].gone /\ pending'[q].user = pending[q].user,
           \A t \in Slots : Redeeming(t)' => call[t].pending # p
    PROVE  PendingsAreSpent'
  <1>1. \A t \in Slots : Redeeming(t)' => Redeeming(t) /\ call'[t] = call[t] /\ call[t].pending # p
    BY DEF Shrinks, Redeeming, Doing
  <1>2. \A t \in Slots : Redeeming(t) => call[t].pending \in Pendings
    BY CallFields DEF Redeeming
  <1>3. sessions'[p] = 1 /\ \A q \in Pendings \ {p} : sessions'[q] = sessions[q]
    BY SessionTypes
  <1>4. \A q \in Pendings :
           sessions'[q] > 0 => /\ sessions'[q] = 1
                               /\ pending'[q] # None /\ pending'[q].gone
                               /\ pending'[q].user \in enabled'
    BY <1>3 DEF PendingsAreSpent
  <1>5. ASSUME NEW t \in Slots, Redeeming(t)'
        PROVE  LET q == call'[t].pending IN
               /\ pending'[q] # None /\ pending'[q].gone /\ pending'[q].user = call'[t].user
               /\ sessions'[q] = 0
               /\ call'[t].user \in enabled'
    <2> DEFINE q == call[t].pending
    <2>1. Redeeming(t) /\ call'[t] = call[t] /\ q \in Pendings \ {p}
      BY <1>1, <1>2, <1>5
    <2>2. /\ pending[q] # None /\ pending[q].gone /\ pending[q].user = call[t].user
          /\ sessions[q] = 0
          /\ call[t].user \in enabled
      BY <2>1 DEF PendingsAreSpent
    <2> HIDE DEF q
    <2>3. pending'[q] # None /\ pending'[q].gone /\ pending'[q].user = pending[q].user
      BY <2>1, <2>2
    <2> QED  BY <1>3, <2>1, <2>2, <2>3 DEF q
  <1>6. \A s, t \in Slots :
           Redeeming(s)' /\ Redeeming(t)' /\ call'[s].pending = call'[t].pending => s = t
    BY <1>1 DEF PendingsAreSpent
  <1> QED  BY <1>4, <1>5, <1>6 DEF PendingsAreSpent

(* A handler starts to work for a pending login that is deleted with it.   *)
LEMMA PendingTaken ==
    ASSUME TypeOK, PendingsAreSpent, UNCHANGED sessions, enabled \subseteq enabled',
           NEW p \in Pendings, Consume(p), NEW s \in Slots, NEW rec \in Call, Begin(s, rec),
           rec.kind \in {"confirm", "verify"}, rec.pending = p, rec.user = pending[p].user,
           rec.user \in enabled'
    PROVE  PendingsAreSpent'
  <1>1. /\ call[s] = None /\ call'[s] = rec
        /\ \A t \in Slots \ {s} : call'[t] = call[t]
    BY BeginFields
  <1>2. /\ pending[p] # None /\ ~pending[p].gone
        /\ pending'[p] # None /\ pending'[p].gone /\ pending'[p].user = pending[p].user
        /\ \A q \in Pendings \ {p} : pending'[q] = pending[q]
    BY ConsumeFields
  <1>3. sessions[p] = 0
    BY <1>2 DEF PendingsAreSpent, TypeOK
  <1>4. \A t \in Slots \ {s} : Redeeming(t)' => /\ Redeeming(t) /\ call'[t] = call[t]
                                                /\ call[t].pending \in Pendings \ {p}
    BY <1>1, <1>2, CallFields DEF PendingsAreSpent, Redeeming, Doing
  <1>5. \A q \in Pendings :
           sessions'[q] > 0 => /\ sessions'[q] = 1
                               /\ pending'[q] # None /\ pending'[q].gone
                               /\ pending'[q].user \in enabled'
    BY <1>2, <1>3 DEF PendingsAreSpent
  <1>6. ASSUME NEW t \in Slots, Redeeming(t)'
        PROVE  LET q == call'[t].pending IN
               /\ pending'[q] # None /\ pending'[q].gone /\ pending'[q].user = call'[t].user
               /\ sessions'[q] = 0
               /\ call'[t].user \in enabled'
    <2>1. CASE t = s
      BY <1>1, <1>2, <1>3, <2>1
    <2>2. CASE t # s
      BY <1>2, <1>4, <1>6, <2>2 DEF PendingsAreSpent
    <2> QED  BY <2>1, <2>2
  <1>7. \A t, v \in Slots :
           Redeeming(t)' /\ Redeeming(v)' /\ call'[t].pending = call'[v].pending => t = v
    BY <1>1, <1>4 DEF PendingsAreSpent
  <1> QED  BY <1>5, <1>6, <1>7 DEF PendingsAreSpent

LEMMA ConfirmKeeps ==
    ASSUME IInv, NEW s \in Slots, NEW p \in Pendings, NEW k \in Secrets, Confirm(s, p, k)
    PROVE  IInv'
  <1> DEFINE u == pending[p].user
             rec == [kind |-> "confirm", user |-> u, pending |-> p]
  <1>0. /\ TypeOK /\ UNCHANGED <<secret, codes, used, lockout, history>>
        /\ Consume(p) /\ u \notin enabled /\ enabled' = enabled \cup {u} /\ Begin(s, rec)
    BY DEF IInv, Confirm, ConfirmFits
  <1>1. /\ pending' \in [Pendings -> Pending \cup {None}] /\ u \in Users
    BY <1>0, ConsumeFields
  <1>2. rec \in Call /\ rec.kind = "confirm" /\ rec.user = u /\ rec.pending = p
    BY <1>1, NewCalls
  <1> HIDE DEF rec
  <1>3. /\ call' \in [Slots -> Call \cup {None}]
        /\ call[s] = None /\ call'[s] = rec /\ rec # None
        /\ \A t \in Slots \ {s} : call'[t] = call[t]
    BY <1>0, <1>2, BeginFields
  <1>4. TypeOK'
    BY <1>0, <1>1, <1>3 DEF TypeOK, lockout, history
  <1>5. PendingsAreSpent'
    BY <1>0, <1>2, PendingTaken DEF IInv, history
  <1>6. codes[u] = {} /\ ~Confirming(u)
    BY <1>0, <1>1 DEF IInv, CodesAreComplete, PendingsAreSpent, Redeeming, Confirming
  <1>7. \A t \in Slots \ {s} : /\ Doing(t, "confirm")' <=> Doing(t, "confirm")
                               /\ Doing(t, "verify")' <=> Doing(t, "verify")
                               /\ call'[t] = call[t]
    BY <1>3 DEF Doing
  <1>8. Doing(s, "confirm")' /\ ~Doing(s, "verify")' /\ ~Doing(s, "confirm")
    BY <1>2, <1>3 DEF Doing
  <1>9. ConfirmedOnce'
    <2>1. \A t \in Slots \ {s} : Doing(t, "confirm")' => call'[t].user # u
      BY <1>6, <1>7 DEF Confirming
    <2>2. IsFiniteSet(codes[u]) /\ Cardinality(codes[u]) < CodesPerUser
      BY <1>6, FS_EmptySet, Sizes
    <2> QED
      BY <1>0, <1>2, <1>3, <1>7, <1>8, <2>1, <2>2 DEF IInv, ConfirmedOnce
  <1>10. CodesAreComplete'
    <2> SUFFICES ASSUME NEW v \in Users
                 PROVE  \/ v \in enabled' /\ (Confirming(v)' \/ v \in cutOff)
                        \/ v \in enabled' /\ Cardinality(codes[v]) = CodesPerUser
                        \/ v \notin enabled' /\ codes[v] = {}
      BY <1>0 DEF CodesAreComplete, history
    <2>1. CASE v = u
      BY <1>0, <1>2, <1>3, <1>8, <2>1 DEF Confirming
    <2>2. CASE v # u
      <3>1. Confirming(v) => Confirming(v)'
        BY <1>7, <1>8 DEF Confirming
      <3> QED  BY <1>0, <2>2, <3>1 DEF IInv, CodesAreComplete
    <2> QED  BY <2>1, <2>2
  <1>11. CodesAreSpent' /\ CodesUsedOnceUnlessTogether'
    BY <1>0, <1>7, <1>8 DEF IInv, CodesAreSpent, CodesUsedOnceUnlessTogether, history
  <1>12. \A v \in locked : Guesses(v)' \subseteq Guesses(v)
    BY <1>2, <1>3 DEF Guesses, Guessing, Doing
  <1>13. TriesAreCounted'
    BY <1>0, <1>12, TriesKept DEF IInv
  <1> QED  BY <1>4, <1>5, <1>9, <1>10, <1>11, <1>13 DEF IInv

LEMMA CodeStored ==
    ASSUME IInv, NEW s \in Slots, StoreCode(s)
    PROVE  LET u == call[s].user IN
           /\ u \in Users /\ u \in enabled
           /\ codes' \in [Users -> SUBSET Codes]
           /\ \A v \in Users \ {u} : codes'[v] = codes[v]
           /\ IsFiniteSet(codes'[u]) /\ Cardinality(codes'[u]) \in Nat
           /\ Cardinality(codes'[u]) <= CodesPerUser
  <1>0. PICK u \in Users : u = call[s].user
    BY CallFields DEF IInv, StoreCode
  <1>1. /\ u \in enabled /\ IsFiniteSet(codes[u]) /\ Cardinality(codes[u]) < CodesPerUser
        /\ codes \in [Users -> SUBSET Codes]
    BY <1>0 DEF IInv, TypeOK, StoreCode, PendingsAreSpent, ConfirmedOnce, Redeeming
  <1>2. PICK c \in Codes \ Stored : codes' = [codes EXCEPT ![u] = @ \cup {c}]
    BY <1>0 DEF StoreCode
  <1>3. /\ codes' \in [Users -> SUBSET Codes] /\ codes'[u] = codes[u] \cup {c}
        /\ \A v \in Users \ {u} : codes'[v] = codes[v]
    BY <1>1, <1>2
  <1>4. c \notin codes[u]
    BY <1>2 DEF Stored
  <1>5. /\ IsFiniteSet(codes'[u])
        /\ Cardinality(codes'[u]) = Cardinality(codes[u]) + 1
        /\ Cardinality(codes[u]) \in Nat
    BY <1>1, <1>3, <1>4, FS_AddElement, FS_CardinalityType
  <1>6. Cardinality(codes'[u]) \in Nat /\ Cardinality(codes'[u]) <= CodesPerUser
    BY <1>1, <1>5, Sizes
  <1> QED  BY <1>0, <1>1, <1>3, <1>5, <1>6

LEMMA StoreCodeKeeps ==
    ASSUME IInv, NEW s \in Slots, StoreCode(s)
    PROVE  IInv'
  <1>0. /\ TypeOK /\ Doing(s, "confirm")
        /\ UNCHANGED <<secret, enabled, used, pending, lockout, spent, together, cutOff>>
    BY DEF IInv, StoreCode
  <1>1. PICK u \in Users : u = call[s].user
    BY <1>0, CallFields
  <1>2. /\ u \in enabled
        /\ codes' \in [Users -> SUBSET Codes]
        /\ \A v \in Users \ {u} : codes'[v] = codes[v]
        /\ IsFiniteSet(codes'[u]) /\ Cardinality(codes'[u]) \in Nat
        /\ Cardinality(codes'[u]) <= CodesPerUser
    BY <1>1, CodeStored
  <1>3. CASE Cardinality(codes'[u]) < CodesPerUser
    <2>1. UNCHANGED <<call, sessions>>
      BY <1>1, <1>3 DEF StoreCode
    <2>2. TypeOK'
      BY <1>0, <1>2, <2>1 DEF TypeOK, lockout
    <2>3. PendingsAreSpent' /\ CodesAreSpent' /\ CodesUsedOnceUnlessTogether' /\ TriesAreCounted'
      BY <1>0, <2>1, NoCallKept, PendingsKept, SpentKept, TriesKept DEF IInv
    <2>4. ConfirmedOnce'
      BY <1>0, <1>1, <1>2, <1>3, <2>1, CallFields DEF IInv, ConfirmedOnce, Doing
    <2>5. CodesAreComplete'
      BY <1>0, <1>1, <1>2, <2>1 DEF IInv, CodesAreComplete, Confirming, Doing
    <2> QED  BY <2>2, <2>3, <2>4, <2>5 DEF IInv
  <1>4. CASE ~(Cardinality(codes'[u]) < CodesPerUser)
    <2>1. End(s) /\ IssueSession(call[s].pending) /\ Cardinality(codes'[u]) = CodesPerUser
      BY <1>1, <1>2, <1>4, Sizes DEF StoreCode
    <2>2. /\ call' \in [Slots -> Call \cup {None}] /\ call'[s] = None
          /\ \A t \in Slots \ {s} : call'[t] = call[t]
      BY <1>0, <2>1, EndFields
    <2>3. PICK p \in Pendings : p = call[s].pending
      BY <1>0, CallFields
    <2>4. TypeOK'
      BY <1>0, <1>2, <2>1, <2>2, <2>3, SessionTypes DEF TypeOK, lockout
    <2>5. Shrinks /\ \A t \in Slots : Doing(t, "confirm")' => t # s /\ Doing(t, "confirm")
      BY <2>2 DEF Shrinks, Doing
    <2>6. PendingsAreSpent'
      <3>1. /\ sessions[p] = 0 /\ pending[p] # None /\ pending[p].gone /\ pending[p].user \in enabled
            /\ \A t \in Slots \ {s} : Redeeming(t) => call[t].pending # p
        BY <1>0, <2>3 DEF IInv, PendingsAreSpent, Redeeming
      <3>2. \A t \in Slots : Redeeming(t)' => t # s /\ Redeeming(t)
        BY <2>2 DEF Redeeming, Doing
      <3> QED  BY <1>0, <2>1, <2>3, <2>5, <3>1, <3>2, SessionOpened DEF IInv
    <2>7. ConfirmedOnce'
      <3>1. \A t \in Slots : Doing(t, "confirm")' => call'[t] = call[t] /\ call[t].user \in Users \ {u}
        BY <1>0, <1>1, <2>2, <2>5, CallFields DEF IInv, ConfirmedOnce
      <3> QED  BY <1>2, <2>5, <3>1 DEF IInv, ConfirmedOnce
    <2>8. CodesAreComplete'
      <3>1. \A v \in Users \ {u} : Confirming(v) => Confirming(v)'
        BY <1>1, <2>2 DEF Confirming, Doing
      <3> QED  BY <1>0, <1>2, <2>1, <3>1 DEF IInv, CodesAreComplete
    <2>9. CodesAreSpent' /\ CodesUsedOnceUnlessTogether'
      BY <1>0, <2>5, SpentKept DEF IInv
    <2>10. TriesAreCounted'
      BY <1>0, <2>5, ShrinkingGuesses, TriesKept DEF IInv
    <2> QED  BY <2>4, <2>6, <2>7, <2>8, <2>9, <2>10 DEF IInv
  <1> QED  BY <1>3, <1>4

(* A name that is not locked loses a try, without a handler under way.     *)
LEMMA WrongTotpKeeps ==
    ASSUME IInv, NEW p \in Pendings, Consume(p), VerifyFits(p), WrongCode(pending[p].user),
           UNCHANGED <<account, call, history>>
    PROVE  IInv'
  <1>0. TypeOK
    BY DEF IInv
  <1>1. PICK u \in Users : u = pending[p].user
    BY <1>0, ConsumeFields
  <1>2. u \notin locked
    BY <1>1 DEF VerifyFits
  <1>3. /\ pending' \in [Pendings -> Pending \cup {None}] /\ ~pending[p].gone
        /\ \A q \in Pendings \ {p} : pending'[q] = pending[q]
    BY <1>0, ConsumeFields
  <1>4. TypeOK'
    BY <1>0, <1>1, <1>3, LockoutTypes DEF TypeOK, account, history
  <1>5. PendingsAreSpent'
    BY <1>0, <1>3, NoCallKept, PendingsKept DEF IInv, account, history
  <1>6. ConfirmedOnce' /\ CodesAreComplete'
    BY <1>0, NoCallKept, ConfirmedKept, CompleteKept DEF IInv, account, history
  <1>7. CodesAreSpent' /\ CodesUsedOnceUnlessTogether'
    BY <1>0, NoCallKept, SpentKept DEF IInv, account, history
  <1>8. TriesAreCounted'
    BY <1>0, <1>1, <1>2, NoCallKept, TriesFailed DEF IInv
  <1> QED  BY <1>4, <1>5, <1>6, <1>7, <1>8 DEF IInv

LEMMA RightTotpKeeps ==
    ASSUME IInv, NEW p \in Pendings, Consume(p), VerifyFits(p), RightCode(pending[p].user),
           IssueSession(p), UNCHANGED <<account, call, spent, together, cutOff>>
    PROVE  IInv'
  <1>0. TypeOK
    BY DEF IInv
  <1>1. PICK u \in Users : u = pending[p].user
    BY <1>0, ConsumeFields
  <1>2. /\ pending' \in [Pendings -> Pending \cup {None}]
        /\ pending[p] # None /\ ~pending[p].gone
        /\ pending'[p] # None /\ pending'[p].gone /\ pending'[p].user = u
        /\ \A q \in Pendings \ {p} : pending'[q] = pending[q]
    BY <1>0, <1>1, ConsumeFields
  <1>3. TypeOK'
    BY <1>0, <1>1, <1>2, LockoutTypes, SessionTypes DEF TypeOK, account
  <1>4. PendingsAreSpent'
    <2>1. u \in enabled
      BY <1>1 DEF VerifyFits
    <2>2. sessions[p] = 0
      BY <1>0, <1>2 DEF IInv, PendingsAreSpent, TypeOK
    <2>3. \A t \in Slots : Redeeming(t) => call[t].pending # p
      BY <1>2 DEF IInv, PendingsAreSpent
    <2>4. \A t \in Slots : Redeeming(t)' => Redeeming(t)
      BY DEF Redeeming, Doing
    <2> QED  BY <1>0, <1>2, <2>1, <2>2, <2>3, <2>4, NoCallKept, SessionOpened DEF IInv, account
  <1>5. ConfirmedOnce' /\ CodesAreComplete'
    BY <1>0, NoCallKept, ConfirmedKept, CompleteKept DEF IInv, account
  <1>6. CodesAreSpent' /\ CodesUsedOnceUnlessTogether'
    BY <1>0, NoCallKept, SpentKept DEF IInv, account
  <1>7. TriesAreCounted'
    BY <1>0, <1>1, LockoutTypes, NoCallKept, TriesReset DEF IInv, RightCode, RightPassword, RecordSuccess, TypeOK
  <1> QED  BY <1>3, <1>4, <1>5, <1>6, <1>7 DEF IInv

LEMMA VerifyTotpKeeps ==
    ASSUME IInv, NEW p \in Pendings, VerifyTotp(p)
    PROVE  IInv'
  <1>1. CASE RightCode(pending[p].user) /\ IssueSession(p)
    BY <1>1, RightTotpKeeps DEF VerifyTotp
  <1>2. CASE WrongCode(pending[p].user) /\ UNCHANGED sessions
    BY <1>2, WrongTotpKeeps DEF VerifyTotp, history
  <1> QED  BY <1>1, <1>2 DEF VerifyTotp

LEMMA CodeLookedAtKeeps ==
    ASSUME IInv, NEW s \in Slots, NEW p \in Pendings, NEW c \in Codes, VerifyCode(s, p, c),
           Unused(pending[p].user) # {}
    PROVE  IInv'
  <1> DEFINE u == pending[p].user
             rec == [kind |-> "verify", user |-> u, pending |-> p, code |-> c, unused |-> Unused(u)]
  <1>0. /\ TypeOK /\ UNCHANGED <<account, sessions, spent, cutOff, lockout>>
        /\ Consume(p) /\ u \in enabled /\ u \notin locked /\ Begin(s, rec)
        /\ together' = IF Verifying(c) THEN together \cup {c} ELSE together
    BY DEF IInv, VerifyCode, VerifyFits
  <1>1. /\ pending' \in [Pendings -> Pending \cup {None}] /\ u \in Users
    BY <1>0, ConsumeFields
  <1>2. Unused(u) \in SUBSET Codes /\ \A d \in Unused(u) : d \notin used
    BY <1>0, <1>1 DEF TypeOK, Unused
  <1>3. /\ rec \in Call /\ rec.kind = "verify" /\ rec.user = u /\ rec.pending = p
        /\ rec.code = c /\ rec.unused = Unused(u)
    BY <1>1, <1>2, NewCalls
  <1> HIDE DEF rec
  <1>4. /\ call' \in [Slots -> Call \cup {None}]
        /\ call[s] = None /\ call'[s] = rec /\ rec # None
        /\ \A t \in Slots \ {s} : call'[t] = call[t]
    BY <1>0, <1>3, BeginFields
  <1>5. TypeOK'
    BY <1>0, <1>1, <1>4 DEF TypeOK, lockout, account
  <1>6. PendingsAreSpent'
    BY <1>0, <1>3, PendingTaken DEF IInv, account
  <1>7. \A t \in Slots \ {s} : /\ Doing(t, "confirm")' <=> Doing(t, "confirm")
                               /\ Doing(t, "verify")' <=> Doing(t, "verify")
                               /\ call'[t] = call[t]
    BY <1>4 DEF Doing
  <1>8. ~Doing(s, "confirm")' /\ ~Doing(s, "confirm") /\ ~Doing(s, "verify")
    BY <1>3, <1>4 DEF Doing
  <1>9. ConfirmedOnce'
    BY <1>0, <1>7, <1>8 DEF IInv, ConfirmedOnce, account
  <1>10. CodesAreComplete'
    BY <1>0, <1>7, <1>8, CompleteKept DEF IInv, account
  <1>11. CodesAreSpent' /\ CodesUsedOnceUnlessTogether'
    <2>1. together \subseteq together'
      BY <1>0
    <2>2. \A t \in Slots \ {s} : Doing(t, "verify") /\ call[t].code = c => c \in together'
      BY <1>0 DEF Verifying
    <2>3. call'[s].code = c /\ (c \in call'[s].unused => c \notin used)
      BY <1>2, <1>3, <1>4
    <2>4. \A t, v \in Slots :
             Doing(t, "verify")' /\ Doing(v, "verify")' /\ call'[t].code = call'[v].code /\ t # v
             => call'[t].code \in together'
      BY <1>7, <2>1, <2>2, <2>3 DEF IInv, CodesAreSpent
    <2>5. \A t \in Slots :
             Doing(t, "verify")' /\ call'[t].code \in call'[t].unused /\ call'[t].code \in used
             => call'[t].code \in together'
      BY <1>7, <2>1, <2>3 DEF IInv, CodesAreSpent
    <2> QED
      BY <1>0, <2>1, <2>4, <2>5 DEF IInv, CodesAreSpent, CodesUsedOnceUnlessTogether, account
  <1>12. \A v \in locked : Guesses(v)' \subseteq Guesses(v)
    BY <1>0, <1>3, <1>4 DEF Guesses, Guessing, Doing
  <1>13. TriesAreCounted'
    BY <1>0, <1>12, TriesKept DEF IInv
  <1> QED  BY <1>5, <1>6, <1>9, <1>10, <1>11, <1>13 DEF IInv

LEMMA VerifyCodeKeeps ==
    ASSUME IInv, NEW s \in Slots, NEW p \in Pendings, NEW c \in Codes, VerifyCode(s, p, c)
    PROVE  IInv'
  <1>1. CASE Unused(pending[p].user) = {}
    BY <1>1, WrongTotpKeeps DEF VerifyCode, history
  <1>2. CASE Unused(pending[p].user) # {}
    BY <1>2, CodeLookedAtKeeps
  <1> QED  BY <1>1, <1>2

LEMMA CodeAcceptedKeeps ==
    ASSUME IInv, NEW s \in Slots, CodeAccepted(s)
    PROVE  IInv'
  <1>0. /\ TypeOK /\ Doing(s, "verify") /\ call[s].code \in call[s].unused
        /\ RightCode(call[s].user) /\ IssueSession(call[s].pending) /\ End(s)
        /\ UNCHANGED <<secret, enabled, codes, pending, together, cutOff>>
    BY DEF IInv, CodeAccepted
  <1>1. PICK u \in Users : u = call[s].user
    BY <1>0, CallFields
  <1>2. PICK p \in Pendings : p = call[s].pending
    BY <1>0, CallFields
  <1>3. PICK c \in Codes : c = call[s].code
    BY <1>0, CallFields
  <1>4. used' = used \cup {c} /\ spent' = [spent EXCEPT ![c] = @ + 1]
    BY <1>3 DEF CodeAccepted
  <1>5. /\ call' \in [Slots -> Call \cup {None}] /\ call'[s] = None
        /\ \A t \in Slots \ {s} : call'[t] = call[t]
    BY <1>0, EndFields
  <1>6. /\ Shrinks
        /\ \A t \in Slots : Doing(t, "confirm") => call'[t] = call[t]
        /\ \A t \in Slots : Redeeming(t)' => t # s /\ Redeeming(t)
        /\ \A t \in Slots : Doing(t, "verify")' => t # s /\ Doing(t, "verify") /\ call'[t] = call[t]
    BY <1>0, <1>5 DEF Shrinks, Doing, Redeeming
  <1>7. /\ spent' \in [Codes -> Nat] /\ spent[c] \in Nat /\ spent'[c] = spent[c] + 1
        /\ \A d \in Codes \ {c} : spent'[d] = spent[d]
    BY <1>0, <1>4 DEF TypeOK
  <1>8. TypeOK'
    BY <1>0, <1>1, <1>2, <1>4, <1>5, <1>7, LockoutTypes, SessionTypes DEF TypeOK
  <1>9. PendingsAreSpent'
    <2>1. /\ sessions[p] = 0 /\ pending[p] # None /\ pending[p].gone /\ pending[p].user \in enabled
          /\ \A t \in Slots \ {s} : Redeeming(t) => call[t].pending # p
      BY <1>0, <1>2 DEF IInv, PendingsAreSpent, Redeeming
    <2> QED  BY <1>0, <1>2, <1>6, <2>1, SessionOpened DEF IInv
  <1>10. ConfirmedOnce' /\ CodesAreComplete'
    BY <1>0, <1>6, ConfirmedKept, CompleteKept DEF IInv
  <1>11. CodesAreSpent'
    <2>1. \A d \in Codes : spent'[d] > 0 => d \in used'
      BY <1>4, <1>7 DEF IInv, CodesAreSpent
    <2>2. \A t \in Slots \ {s} : Doing(t, "verify") /\ call[t].code = c => c \in together
      BY <1>0, <1>3 DEF IInv, CodesAreSpent
    <2>3. \A t \in Slots :
             Doing(t, "verify")' /\ call'[t].code \in call'[t].unused /\ call'[t].code \in used'
             => call'[t].code \in together
      BY <1>4, <1>6, <2>2 DEF IInv, CodesAreSpent
    <2> QED  BY <1>0, <1>6, <2>1, <2>3 DEF IInv, CodesAreSpent
  <1>12. CodesUsedOnceUnlessTogether'
    <2>1. spent[c] > 0 => c \in together
      BY <1>0, <1>3 DEF IInv, CodesAreSpent
    <2> QED  BY <1>0, <1>7, <2>1 DEF IInv, CodesUsedOnceUnlessTogether
  <1>13. TriesAreCounted'
    BY <1>0, <1>1, <1>6, LockoutTypes, TriesReset DEF IInv, RightCode, RightPassword, RecordSuccess, TypeOK
  <1> QED  BY <1>8, <1>9, <1>10, <1>11, <1>12, <1>13 DEF IInv

LEMMA RestartKeeps ==
    ASSUME IInv, Restart
    PROVE  IInv'
  <1>0. /\ TypeOK /\ UNCHANGED <<account, pending, sessions, spent, together>>
        /\ call' = [s \in Slots |-> None]
        /\ cutOff' = cutOff \cup {u \in Users : Confirming(u)}
    BY DEF IInv, Restart
  <1>1. TypeOK'
    BY <1>0, Sizes DEF TypeOK, account, Restart
  <1>2. Shrinks
    BY <1>0 DEF Shrinks
  <1>3. PendingsAreSpent' /\ ConfirmedOnce' /\ CodesAreSpent' /\ CodesUsedOnceUnlessTogether'
    BY <1>0, <1>2, PendingsKept, ConfirmedKept, SpentKept DEF IInv, account
  <1>4. CodesAreComplete'
    BY <1>0 DEF IInv, CodesAreComplete, account
  <1>5. TriesAreCounted'
    BY Sizes DEF TriesAreCounted, Counts, Restart, TypeOK
  <1> QED  BY <1>1, <1>3, <1>4, <1>5 DEF IInv

LEMMA InitHolds == Init => IInv
  <1> SUFFICES ASSUME Init  PROVE IInv
    OBVIOUS
  <1>1. TypeOK
    BY Sizes DEF Init, TypeOK
  <1>2. \A s \in Slots : \A kind : ~Doing(s, kind)
    BY DEF Init, Doing
  <1>3. PendingsAreSpent /\ ConfirmedOnce /\ CodesAreSpent
    BY <1>2 DEF Init, PendingsAreSpent, ConfirmedOnce, CodesAreSpent, Redeeming
  <1>4. CodesAreComplete /\ CodesUsedOnceUnlessTogether /\ TriesAreCounted
    BY Sizes DEF Init, CodesAreComplete, CodesUsedOnceUnlessTogether, TriesAreCounted,
                Counts
  <1> QED  BY <1>1, <1>3, <1>4 DEF IInv

LEMMA StutterKeeps ==
    ASSUME IInv, UNCHANGED vars
    PROVE  IInv'
  <1>1. UNCHANGED <<account, pending, lockout, call, history>>
    BY DEF vars, account, lockout, history
  <1>2. TypeOK'
    BY <1>1 DEF IInv, TypeOK, account, lockout, history
  <1>3. PendingsAreSpent'
    BY <1>1, NoCallKept, PendingsKept DEF IInv, account, history
  <1>4. ConfirmedOnce' /\ CodesAreComplete'
    BY <1>1, NoCallKept, ConfirmedKept, CompleteKept DEF IInv, account, history
  <1>5. CodesAreSpent' /\ CodesUsedOnceUnlessTogether'
    BY <1>1, NoCallKept, SpentKept DEF IInv, account, history
  <1>6. TriesAreCounted'
    BY <1>1, NoCallKept, TriesKept DEF IInv
  <1> QED  BY <1>2, <1>3, <1>4, <1>5, <1>6 DEF IInv

LEMMA StepHolds == IInv /\ [Next]_vars => IInv'
  <1> SUFFICES ASSUME IInv, [Next]_vars  PROVE IInv'
    OBVIOUS
  <1>1. ASSUME NEW s \in Slots, NEW u \in Users, Login(s, u)  PROVE IInv'
    BY <1>1, LoginKeeps
  <1>2. ASSUME NEW s \in Slots, LoginFails(s) \/ CodeRejected(s)  PROVE IInv'
    BY <1>2, FailureKeeps
  <1>3. ASSUME NEW s \in Slots, LoginSucceeds(s)  PROVE IInv'
    BY <1>3, LoginSucceedsKeeps
  <1>4. ASSUME NEW p \in Pendings, PendingExpires(p)  PROVE IInv'
    BY <1>4, PendingExpiresKeeps
  <1>5. ASSUME NEW u \in Users, LockPasses(u)  PROVE IInv'
    BY <1>5, LockPassesKeeps
  <1>6. ASSUME NEW p \in Pendings, SetupInit(p)  PROVE IInv'
    BY <1>6, SetupInitKeeps
  <1>7. ASSUME NEW p \in Pendings, NEW k \in Secrets, ConfirmRefused(p, k)  PROVE IInv'
    BY <1>7, RefusedKeeps DEF ConfirmRefused
  <1>8. ASSUME NEW s \in Slots, NEW p \in Pendings, NEW k \in Secrets, Confirm(s, p, k)
        PROVE  IInv'
    BY <1>8, ConfirmKeeps
  <1>9. ASSUME NEW s \in Slots, StoreCode(s)  PROVE IInv'
    BY <1>9, StoreCodeKeeps
  <1>10. ASSUME NEW p \in Pendings, VerifyRefused(p)  PROVE IInv'
    BY <1>10, RefusedKeeps DEF VerifyRefused
  <1>11. ASSUME NEW p \in Pendings, VerifyTotp(p)  PROVE IInv'
    BY <1>11, VerifyTotpKeeps
  <1>12. ASSUME NEW s \in Slots, NEW p \in Pendings, NEW c \in Codes, VerifyCode(s, p, c)
         PROVE  IInv'
    BY <1>12, VerifyCodeKeeps
  <1>13. ASSUME NEW s \in Slots, CodeAccepted(s)  PROVE IInv'
    BY <1>13, CodeAcceptedKeeps
  <1>14. CASE Restart
    BY <1>14, RestartKeeps
  <1>15. CASE UNCHANGED vars
    BY <1>15, StutterKeeps
  <1> QED
    BY <1>1, <1>2, <1>3, <1>4, <1>5, <1>6, <1>7, <1>8, <1>9, <1>10, <1>11, <1>12, <1>13, <1>14,
       <1>15 DEF Next

--------------------------------------------------------------------------------
(* What holds of every state a login can bring about, through every await  *)
(* and restart (auth/routes.js).                                           *)
THEOREM InvariantHolds == Spec => []IInv
  BY InitHolds, StepHolds, PTL DEF Spec

(* No handler leaves a row, a count or what it carries across its await    *)
(* outside its range (auth/routes.js, lockout.js).                         *)
THEOREM TypeCorrect == Spec => []TypeOK
  <1>1. IInv => TypeOK
    BY DEF IInv
  <1> QED  BY <1>1, InvariantHolds, PTL

(* consumePendingLogin (routes.js:56-62): however many calls present the   *)
(* same pending login, one session comes of it.                            *)
THEOREM OneSessionEach == Spec => []PendingOpensOneSession
  <1>1. IInv => PendingOpensOneSession
    BY DEF IInv, PendingsAreSpent, PendingOpensOneSession, TypeOK
  <1> QED  BY <1>1, InvariantHolds, PTL

(* No session without an enrolled authenticator (README.md:24).            *)
THEOREM EnrolmentIsMandatory == Spec => []SessionNeedsEnrolment
  <1>1. IInv => SessionNeedsEnrolment
    BY DEF IInv, PendingsAreSpent, SessionNeedsEnrolment
  <1> QED  BY <1>1, InvariantHolds, PTL

(* An account has the backup codes its user was shown, unless the          *)
(* confirmation is under way or was cut off (routes.js:155-161).           *)
THEOREM CodesStayComplete == Spec => []CodesAreComplete
  <1>1. IInv => CodesAreComplete
    BY DEF IInv
  <1> QED  BY <1>1, InvariantHolds, PTL

(* A backup code is good for a second session only when it was typed       *)
(* while the first was still being verified (routes.js:195-199).           *)
THEOREM CodesOpenOnce == Spec => []CodesUsedOnceUnlessTogether
  <1>1. IInv => CodesUsedOnceUnlessTogether
    BY DEF IInv
  <1> QED  BY <1>1, InvariantHolds, PTL

(* The lockout bounds the wrong passwords whatever awaits, and the wrong   *)
(* second factors with them until a right password clears the count that   *)
(* they share (lockout.js:14-41, routes.js:98).                            *)
THEOREM TriesAreBounded == Spec => []LockoutBoundsTries
  <1>1. IInv => LockoutBoundsTries
    <2> SUFFICES ASSUME IInv, NEW u \in Users
                 PROVE  /\ wrongPasswords[u] <= MaxAttempts + Cardinality(Slots)
                        /\ wrongPasswords[u] + wrongCodes[u] > MaxAttempts + Cardinality(Slots)
                              => u \in cleared
      BY DEF LockoutBoundsTries
    <2>1. wrongPasswords[u] \in Nat /\ wrongCodes[u] \in Nat /\ MaxAttempts \in Nat
      BY Sizes DEF IInv, TypeOK
    <2> QED  BY <2>1, GuessesAreFew DEF IInv, TriesAreCounted, Counts
  <1> QED  BY <1>1, InvariantHolds, PTL

(* Once confirmed, an authenticator is not replaced by another login that  *)
(* was pending (routes.js:119, 145).                                       *)
THEOREM EnrolmentStays == Spec => EnrolmentIsFinal
  <1> DEFINE Final == \A u \in enabled : u \in enabled' /\ secret'[u] = secret[u]
  <1>1. ASSUME IInv, [Next]_vars  PROVE [Final]_vars
    <2>1. ASSUME NEW p \in Pendings, SetupInit(p)  PROVE Final
      <3>1. PICK u \in Users : u = pending[p].user
        BY <1>1, <2>1, PendingFields DEF IInv, SetupInit, Open, Exists
      <3>2. PICK k \in Secrets : secret' = [secret EXCEPT ![u] = k]
        BY <2>1, <3>1 DEF SetupInit
      <3> QED  BY <1>1, <2>1, <3>1, <3>2 DEF IInv, TypeOK, SetupInit
    <2>2. ASSUME NEW s \in Slots, NEW p \in Pendings, NEW k \in Secrets, Confirm(s, p, k)
          PROVE  Final
      BY <2>2 DEF Confirm
    <2>3. CASE \/ \E s \in Slots, u \in Users : Login(s, u)
               \/ \E s \in Slots : LoginFails(s) \/ LoginSucceeds(s) \/ StoreCode(s)
                                      \/ CodeAccepted(s) \/ CodeRejected(s)
               \/ \E p \in Pendings : PendingExpires(p) \/ VerifyRefused(p) \/ VerifyTotp(p)
               \/ \E u \in Users : LockPasses(u)
               \/ \E p \in Pendings, k \in Secrets : ConfirmRefused(p, k)
               \/ \E s \in Slots, p \in Pendings, c \in Codes : VerifyCode(s, p, c)
               \/ Restart
               \/ UNCHANGED vars
      <3>1. UNCHANGED <<secret, enabled>>
        BY <2>3 DEF Login, LoginFails, LoginSucceeds, StoreCode, CodeAccepted, CodeRejected,
                    PendingExpires, VerifyRefused, VerifyTotp, LockPasses, ConfirmRefused,
                    VerifyCode, Restart, vars, account
      <3> QED  BY <3>1
    <2> QED  BY <1>1, <2>1, <2>2, <2>3 DEF Next
  <1> QED  BY <1>1, InvariantHolds, PTL DEF Spec, EnrolmentIsFinal
================================================================================
