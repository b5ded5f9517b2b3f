----------------------------- MODULE WireGuardProofs -----------------------------
(***************************************************************************)
(* Proofs about WireGuardConf, the file of a tunnel and the helpers that   *)
(* edit it, for any names, keys, ranges and length of the file, and, after *)
(* that, about WireGuardPage and the ActionButton in it, for any tunnels,  *)
(* names, keys, calls, polls and steps of other clients.                   *)
(***************************************************************************)
EXTENDS WireGuardConf, WireGuardPage, FiniteSetTheorems, WellFoundedInduction, TLAPS

--------------------------------------------------------------------------------
(* What is asked of a file, beside each of its lines                       *)

(* The fields of a peer stand together, no name and no key is there twice. *)
WellFormed(lines) == lines \in Seq(Lines) /\ Formed(lines) /\ OnceEach(lines)

NameBy(lines, i) ==
    IF Kind(lines, i - 2, "name") THEN lines[i - 2].is
    ELSE IF Kind(lines, i - 2, "group") /\ Kind(lines, i - 3, "name") THEN lines[i - 3].is
    ELSE Nil

GroupBy(lines, i) ==
    \/ Kind(lines, i - 2, "group")
    \/ Kind(lines, i - 2, "name") /\ Kind(lines, i - 3, "group")

PeerBy(lines, i) ==
    [key |-> lines[i].is, name |-> NameBy(lines, i), group |-> GroupBy(lines, i), range |-> lines[i + 1].is]

(* Tidy, said of the lines beside each line                                *)
TidyLines(lines) ==
    \A i \in DOMAIN lines :
        /\ Is(lines, i, "group") => Kind(lines, i - 1, "name")
        /\ Is(lines, i, "Peer") => Kind(lines, i - 1, "name") \/ Kind(lines, i - 1, "group")

--------------------------------------------------------------------------------
(* Numbers and joined runs of lines                                        *)

(* A set of naturals has a least member; what holds at 0 and passes from   *)
(* each number to the next holds throughout.                               *)
LEMMA Least ==
    ASSUME NEW T \in SUBSET Nat, T # {}
    PROVE  \E n \in T : \A m \in T : n <= m
<1> DEFINE R == OpToRel(<, Nat)
<1>1. IsWellFoundedOn(R, Nat)
  BY NatLessThanWellFounded
<1>2. PICK n \in T : \A m \in T : <<m, n>> \notin R
  <2> HIDE DEF R
  <2>1. QED
    BY <1>1, WFMin
<1>3. \A m \in T : ~(m < n)
  BY <1>2 DEF OpToRel
<1>4. QED
  BY <1>3

(* What holds at 0 and passes from each number to the next holds up to N.  *)
LEMMA Inductive ==
    ASSUME NEW N \in Nat, NEW T, 0 \in T, \A k \in 1 .. N : k - 1 \in T => k \in T
    PROVE  \A k \in 0 .. N : k \in T
<1> DEFINE Bad == {k \in 0 .. N : k \notin T}
<1> SUFFICES ASSUME Bad # {}
             PROVE  FALSE
  OBVIOUS
<1>1. Bad \in SUBSET Nat
  OBVIOUS
<1>2. \E k \in Bad : \A m \in Bad : k <= m
  <2> HIDE DEF Bad
  <2>1. QED
    BY <1>1, Least
<1>3. PICK k \in Bad : \A m \in Bad : k <= m
  BY <1>2
<1>4. k # 0 /\ k - 1 \in 0 .. N /\ k - 1 \in T
  BY <1>3
<1>5. QED
  BY <1>3, <1>4

(* A set of numbers up to N has a greatest.                                *)
LEMMA Greatest ==
    ASSUME NEW N \in Nat, NEW T \in SUBSET (1 .. N), T # {}
    PROVE  \E n \in T : \A m \in T : m <= n
<1> DEFINE Mirror == {k \in 1 .. N : N + 1 - k \in T}
<1>1. Mirror # {} /\ Mirror \subseteq Nat
  <2>1. PICK t \in T : TRUE
    OBVIOUS
  <2>2. N + 1 - t \in 1 .. N /\ N + 1 - (N + 1 - t) = t
    OBVIOUS
  <2>3. N + 1 - t \in Mirror
    BY <2>1, <2>2
  <2>4. Mirror \subseteq Nat
    OBVIOUS
  <2> HIDE DEF Mirror
  <2>5. QED
    BY <2>3, <2>4
<1>2. PICK k \in Mirror : \A m \in Mirror : k <= m
  BY <1>1, Least
<1>3. ASSUME NEW m \in T
      PROVE  m <= N + 1 - k
  <2>1. N + 1 - m \in 1 .. N /\ N + 1 - (N + 1 - m) = m
    OBVIOUS
  <2>2. N + 1 - m \in Mirror
    BY <2>1
  <2>3. QED
    BY <1>2, <2>2
<1>4. QED
  BY <1>2, <1>3

(* The greatest member of a section 1 .. k is k.                           *)
LEMMA MaxOfSection ==
    ASSUME NEW k \in Nat \ {0}
    PROVE  Max(1 .. k) = k /\ (1 .. k) \ {k} = 1 .. k - 1
<1>1. \A x \in 1 .. k : (\A y \in 1 .. k : x >= y) <=> x = k
  OBVIOUS
<1>2. QED
  BY <1>1 DEF Max

(* Sequences joined one after the other: where each comes to stand.        *)
Joined(out, parts, N) ==
    /\ out[0] = <<>>
    /\ \A k \in 1 .. N : out[k] = out[k - 1] \o parts[k]

(* A joined run grows by the length of each part.                          *)
LEMMA JoinedLengths ==
    ASSUME NEW S, NEW N \in Nat, NEW parts \in [1 .. N -> Seq(S)], NEW out \in [0 .. N -> Seq(S)],
           Joined(out, parts, N)
    PROVE  /\ \A k \in 0 .. N : Len(out[k]) \in Nat
           /\ \A k \in 1 .. N : Len(out[k]) = Len(out[k - 1]) + Len(parts[k])
           /\ \A k \in 0 .. N : \A j \in 0 .. k : Len(out[j]) <= Len(out[k])
<1>1. \A k \in 0 .. N : Len(out[k]) \in Nat
  OBVIOUS
<1>2. \A k \in 1 .. N : Len(out[k]) = Len(out[k - 1]) + Len(parts[k]) /\ Len(parts[k]) \in Nat
  <2> TAKE k \in 1 .. N
  <2>1. k - 1 \in 0 .. N
    OBVIOUS
  <2>2. out[k - 1] \in Seq(S) /\ parts[k] \in Seq(S) /\ out[k] = out[k - 1] \o parts[k]
    BY <2>1 DEF Joined
  <2>3. QED
    BY <2>2
<1> DEFINE T == {k \in 0 .. N : \A j \in 0 .. k : Len(out[j]) <= Len(out[k])}
<1>3. 0 \in T
  BY <1>1
<1>4. ASSUME NEW k \in 1 .. N, k - 1 \in T
      PROVE  k \in T
  <2> SUFFICES ASSUME NEW j \in 0 .. k
               PROVE  Len(out[j]) <= Len(out[k])
    OBVIOUS
  <2>1. CASE j = k
    BY <2>1, <1>1
  <2>2. CASE j \in 0 .. k - 1
    <3>1. Len(out[j]) <= Len(out[k - 1])
      BY <1>4, <2>2
    <3>2. j \in 0 .. N /\ k - 1 \in 0 .. N
      OBVIOUS
    <3>3. QED
      BY <3>1, <3>2, <1>1, <1>2
  <2>3. QED
    BY <2>1, <2>2
<1>5. \A k \in 0 .. N : k \in T
  <2> HIDE DEF T
  <2>1. QED
    BY <1>3, <1>4, Inductive
<1>6. QED
  BY <1>1, <1>2, <1>5

Placed(out, parts, N) ==
    /\ \A k \in 1 .. N : \A q \in 1 .. Len(parts[k]) :
          /\ Len(out[k - 1]) + q \in 1 .. Len(out[N])
          /\ out[N][Len(out[k - 1]) + q] = parts[k][q]
    /\ \A p \in 1 .. Len(out[N]) :
          \E k \in 1 .. N : \E q \in 1 .. Len(parts[k]) : p = Len(out[k - 1]) + q

(* Each line of a part is in the joined file, at the place of the part,    *)
(* and every line of the file is of a part.                                *)
LEMMA JoinedParts ==
    ASSUME NEW S, NEW N \in Nat, NEW parts \in [1 .. N -> Seq(S)], NEW out \in [0 .. N -> Seq(S)],
           Joined(out, parts, N)
    PROVE  Placed(out, parts, N)
<1> DEFINE T == {n \in 0 .. N : Placed(out, parts, n)}
<1>1. 0 \in T
  BY DEF Joined, Placed
<1>2. ASSUME NEW n \in 1 .. N, n - 1 \in T
      PROVE  n \in T
  <2>1. /\ out[n - 1] \in Seq(S) /\ parts[n] \in Seq(S) /\ out[n] = out[n - 1] \o parts[n]
        /\ Placed(out, parts, n - 1)
    BY <1>2 DEF Joined
  <2>2. /\ Len(out[n]) = Len(out[n - 1]) + Len(parts[n])
        /\ Len(out[n - 1]) \in Nat /\ Len(parts[n]) \in Nat
        /\ \A p \in 1 .. Len(out[n - 1]) : p \in 1 .. Len(out[n]) /\ out[n][p] = out[n - 1][p]
        /\ \A q \in 1 .. Len(parts[n]) : /\ Len(out[n - 1]) + q \in 1 .. Len(out[n])
                                         /\ out[n][Len(out[n - 1]) + q] = parts[n][q]
    BY <2>1
  <2>3. ASSUME NEW k \in 1 .. n, NEW q \in 1 .. Len(parts[k])
        PROVE  /\ Len(out[k - 1]) + q \in 1 .. Len(out[n])
               /\ out[n][Len(out[k - 1]) + q] = parts[k][q]
    <3>1. CASE k = n
      BY <3>1, <2>2
    <3>2. CASE k \in 1 .. n - 1
      <4>1. /\ Len(out[k - 1]) + q \in 1 .. Len(out[n - 1])
            /\ out[n - 1][Len(out[k - 1]) + q] = parts[k][q]
        BY <2>1, <3>2 DEF Placed
      <4>2. QED
        BY <4>1, <2>2
    <3>3. QED
      BY <3>1, <3>2
  <2>4. ASSUME NEW p \in 1 .. Len(out[n])
        PROVE  \E k \in 1 .. n : \E q \in 1 .. Len(parts[k]) : p = Len(out[k - 1]) + q
    <3>1. CASE p \in 1 .. Len(out[n - 1])
      <4>1. PICK k \in 1 .. n - 1 : \E q \in 1 .. Len(parts[k]) : p = Len(out[k - 1]) + q
        BY <2>1, <3>1 DEF Placed
      <4>2. QED
        BY <4>1
    <3>2. CASE p > Len(out[n - 1])
      <4> DEFINE q == p - Len(out[n - 1])
      <4>1. q \in 1 .. Len(parts[n]) /\ p = Len(out[n - 1]) + q /\ n \in 1 .. n
        BY <3>2, <2>2
      <4> HIDE DEF q
      <4>2. QED
        BY <4>1
    <3>3. QED
      BY <3>1, <3>2, <2>2
  <2>5. QED
    BY <2>3, <2>4 DEF Placed
<1>3. \A n \in 0 .. N : n \in T
  <2> HIDE DEF T
  <2>1. QED
    BY <1>1, <1>2, Inductive
<1>4. QED
  BY <1>3

--------------------------------------------------------------------------------
(* The folds of the helpers, as runs                                       *)

(* The function a fold is defined by exists.                               *)
Folded(f, A, base, Step, seq, N) ==
    /\ f \in [SUBSET (1 .. N) -> A]
    /\ \A s \in SUBSET (1 .. N) :
          f[s] = IF s = {} THEN base ELSE Step[<<f[s \ {Max(s)}], seq[Max(s)]>>]

(* The community modules fold a sequence by a function on sets of places;  *)
(* such a function exists and gives the steps of the fold.                 *)
LEMMA FoldExists ==
    ASSUME NEW A, NEW S, NEW base \in A, NEW Step \in [A \X S -> A], NEW N \in Nat,
           NEW seq \in [1 .. N -> S]
    PROVE  \E f : Folded(f, A, base, Step, seq, N)
<1> DEFINE T == {k \in 0 .. N : \E f : Folded(f, A, base, Step, seq, k)}
<1>1. 0 \in T
  <2> DEFINE f == [s \in SUBSET (1 .. 0) |-> base]
  <2>1. f \in [SUBSET (1 .. 0) -> A] /\ \A s \in SUBSET (1 .. 0) : s = {}
    OBVIOUS
  <2>2. Folded(f, A, base, Step, seq, 0)
    BY <2>1 DEF Folded
  <2>3. QED
    BY <2>2
<1>2. ASSUME NEW k \in 1 .. N, k - 1 \in T
      PROVE  k \in T
  <2>1. PICK f : Folded(f, A, base, Step, seq, k - 1)
    BY <1>2
  <2>2. /\ f \in [SUBSET (1 .. k - 1) -> A]
        /\ \A s \in SUBSET (1 .. k - 1) :
              f[s] = IF s = {} THEN base ELSE Step[<<f[s \ {Max(s)}], seq[Max(s)]>>]
    BY <2>1 DEF Folded
  <2> DEFINE g == [s \in SUBSET (1 .. k) |-> IF k \in s THEN Step[<<f[s \ {k}], seq[k]>>] ELSE f[s]]
  <2>3. ASSUME NEW s \in SUBSET (1 .. k)
        PROVE  /\ g[s] \in A
               /\ g[s] = IF s = {} THEN base ELSE Step[<<g[s \ {Max(s)}], seq[Max(s)]>>]
    <3>1. CASE k \in s
      <4>1. \A x \in s : (\A y \in s : x >= y) <=> x = k
        BY <3>1
      <4>2. Max(s) = k
        BY <3>1, <4>1 DEF Max
      <4>3. s \ {k} \in SUBSET (1 .. k - 1) /\ s \ {k} \in SUBSET (1 .. k) /\ s # {} /\ k \notin s \ {k}
        BY <3>1
      <4>4. f[s \ {k}] \in A /\ seq[k] \in S /\ g[s \ {k}] = f[s \ {k}]
        BY <2>2, <4>3
      <4>5. g[s] = Step[<<f[s \ {k}], seq[k]>>] /\ Step[<<f[s \ {k}], seq[k]>>] \in A
        BY <3>1, <4>4
      <4> HIDE DEF g
      <4>6. QED
        BY <4>2, <4>3, <4>4, <4>5
    <3>2. CASE k \notin s
      <4>1. s \in SUBSET (1 .. k - 1) /\ g[s] = f[s] /\ f[s] \in A
        BY <2>2, <3>2
      <4>2. s \ {Max(s)} \in SUBSET (1 .. k) /\ k \notin s \ {Max(s)}
        BY <3>2
      <4>3. g[s \ {Max(s)}] = f[s \ {Max(s)}]
        BY <4>2
      <4> HIDE DEF g
      <4>4. QED
        BY <2>2, <4>1, <4>3
    <3>3. QED
      BY <3>1, <3>2
  <2>4. g \in [SUBSET (1 .. k) -> A]
    <3>1. \A s \in SUBSET (1 .. k) : g[s] \in A
      BY <2>3
    <3>2. QED
      BY <3>1
  <2> HIDE DEF g
  <2>5. Folded(g, A, base, Step, seq, k)
    BY <2>3, <2>4 DEF Folded
  <2>6. QED
    BY <2>5
<1>3. N \in T
  <2> HIDE DEF T
  <2>1. N \in 0 .. N
    OBVIOUS
  <2>2. QED
    BY <1>1, <1>2, <2>1, Inductive
<1>4. QED
  BY <1>3

(* Which lines are counted as the named peer's, line by line               *)
Follows(inside, lines, n) ==
    /\ inside \in [0 .. Len(lines) -> BOOLEAN]
    /\ ~inside[0]
    /\ \A k \in 1 .. Len(lines) :
          inside[k] <=> (inside[k - 1] /\ lines[k].line # "name") \/ lines[k] = NameLine(n)

(* Removal, line by line: what is skipped and what is kept.                *)
Kept(lines, skip) == [k \in 1 .. Len(lines) |-> IF skip[k] THEN <<>> ELSE <<lines[k]>>]

(* The loop of wireguard_peer_remove.sh joins the lines it does not skip.  *)
LEMMA RemoveRuns ==
    ASSUME NEW lines \in Seq(Lines), NEW n
    PROVE  \E skip, out :
              /\ Follows(skip, lines, n)
              /\ out \in [0 .. Len(lines) -> Seq(Lines)]
              /\ Joined(out, Kept(lines, skip), Len(lines))
              /\ RemovePeer(lines, n) = out[Len(lines)]
<1> DEFINE N == Len(lines)
           Skip(acc, l) == (acc.skip /\ l.line # "name") \/ l = NameLine(n)
           Step(acc, l) == [skip |-> Skip(acc, l),
                            out |-> IF Skip(acc, l) THEN acc.out ELSE Append(acc.out, l)]
           base == [skip |-> FALSE, out |-> <<>>]
           A == [skip : BOOLEAN, out : Seq(Lines)]
           Steps == [p \in A \X Lines |-> Step(p[1], p[2])]
           Def(f) == [s \in SUBSET (DOMAIN lines) |->
                         IF s = {} THEN base ELSE Step(f[s \ {Max(s)}], lines[Max(s)])]
<1>1. N \in Nat /\ lines \in [1 .. N -> Lines] /\ DOMAIN lines = 1 .. N
  OBVIOUS
<1>2. base \in A
  OBVIOUS
<1>3. ASSUME NEW acc \in A, NEW l \in Lines
      PROVE  Step(acc, l) \in A
  <2>1. acc.out \in Seq(Lines) /\ Append(acc.out, l) \in Seq(Lines) /\ Skip(acc, l) \in BOOLEAN
    OBVIOUS
  <2> HIDE DEF Skip
  <2>2. QED
    BY <2>1
<1>4. Steps \in [A \X Lines -> A] /\ \A acc \in A : \A l \in Lines : Steps[<<acc, l>>] = Step(acc, l)
  <2> HIDE DEF Step, A
  <2>1. QED
    BY <1>3
<1>5. PICK f : Folded(f, A, base, Steps, lines, N)
  <2> HIDE DEF Steps, A, base, N
  <2>1. QED
    BY <1>1, <1>2, <1>4, FoldExists
<1>6. /\ f \in [SUBSET (1 .. N) -> A]
      /\ \A s \in SUBSET (1 .. N) :
            f[s] = IF s = {} THEN base ELSE Steps[<<f[s \ {Max(s)}], lines[Max(s)]>>]
  BY <1>5 DEF Folded
<1>7. f = Def(f)
  <2>1. ASSUME NEW s \in SUBSET (1 .. N), s # {}
        PROVE  Steps[<<f[s \ {Max(s)}], lines[Max(s)]>>] = Step(f[s \ {Max(s)}], lines[Max(s)])
    <3>1. Max(s) \in s
      <4>1. \E m \in s : \A j \in s : j <= m
        BY <1>1, <2>1, Greatest
      <4>2. \E m \in s : \A j \in s : m >= j
        BY <4>1, <1>1
      <4>3. QED
        BY <4>2 DEF Max
    <3>2. lines[Max(s)] \in Lines /\ s \ {Max(s)} \in SUBSET (1 .. N)
      BY <1>1, <3>1
    <3> HIDE DEF Steps, Step, A
    <3>3. QED
      BY <1>4, <1>6, <3>2
  <2> HIDE DEF Steps, Step, A, base, N
  <2>2. QED
    BY <1>1, <1>6, <2>1
<1> DEFINE it == CHOOSE g : g = Def(g)
<1>8. it = Def(it) /\ RemovePeer(lines, n) = it[DOMAIN lines].out
  <2>1. it = Def(it)
    <3> HIDE DEF Def
    <3>1. QED
      BY <1>7
  <2>2. RemovePeer(lines, n) = it[DOMAIN lines].out
    BY DEF RemovePeer, FoldLeft, MapThenFoldSet
  <2>3. QED
    BY <2>1, <2>2
<1> HIDE DEF it
<1>9. it[1 .. 0] = base
  <2>1. 1 .. 0 = {}
    OBVIOUS
  <2>2. QED
    BY <1>8, <2>1
<1>10. \A k \in 1 .. N : it[1 .. k] = Step(it[1 .. k - 1], lines[k])
  <2> TAKE k \in 1 .. N
  <2>1. Max(1 .. k) = k /\ (1 .. k) \ {k} = 1 .. k - 1 /\ 1 .. k \in SUBSET (1 .. N) /\ 1 .. k # {}
    BY <1>1, MaxOfSection
  <2> HIDE DEF Step, base, N
  <2>2. QED
    BY <1>1, <1>8, <2>1
<1>11. \A k \in 0 .. N : it[1 .. k] \in A
  <2> DEFINE T == {k \in 0 .. N : it[1 .. k] \in A}
  <2>1. 0 \in T
    <3> HIDE DEF A, base, N
    <3>1. QED
      BY <1>1, <1>9, <1>2
  <2>2. ASSUME NEW k \in 1 .. N, k - 1 \in T
        PROVE  k \in T
    <3>1. lines[k] \in Lines
      BY <1>1
    <3> HIDE DEF Step, A
    <3>2. QED
      BY <2>2, <3>1, <1>3, <1>10
  <2>3. \A k \in 0 .. N : k \in T
    <3> HIDE DEF T, N
    <3>1. QED
      BY <1>1, <2>1, <2>2, Inductive
  <2>4. QED
    BY <2>3
<1> DEFINE skip == [k \in 0 .. N |-> it[1 .. k].skip]
           out == [k \in 0 .. N |-> it[1 .. k].out]
<1>12. skip \in [0 .. N -> BOOLEAN] /\ out \in [0 .. N -> Seq(Lines)]
  BY <1>11
<1>13. skip[0] = FALSE /\ out[0] = <<>>
  BY <1>1, <1>9
<1>14. ASSUME NEW k \in 1 .. N
       PROVE  /\ skip[k] = ((skip[k - 1] /\ lines[k].line # "name") \/ lines[k] = NameLine(n))
              /\ out[k] = out[k - 1] \o (IF skip[k] THEN <<>> ELSE <<lines[k]>>)
  <2>1. /\ k \in 0 .. N /\ k - 1 \in 0 .. N
        /\ skip[k] = it[1 .. k].skip /\ out[k] = it[1 .. k].out
        /\ skip[k - 1] = it[1 .. k - 1].skip /\ out[k - 1] = it[1 .. k - 1].out
    BY <1>1
  <2>2. /\ skip[k] = Skip(it[1 .. k - 1], lines[k])
        /\ out[k] = IF Skip(it[1 .. k - 1], lines[k]) THEN out[k - 1] ELSE Append(out[k - 1], lines[k])
    <3>1. it[1 .. k] = Step(it[1 .. k - 1], lines[k])
      BY <1>10
    <3> HIDE DEF skip, out, Skip
    <3>2. QED
      BY <2>1, <3>1
  <2>3. out[k - 1] \in Seq(Lines) /\ lines[k] \in Lines
    BY <1>1, <1>12, <2>1
  <2> HIDE DEF skip, out
  <2>4. out[k - 1] \o <<>> = out[k - 1] /\ out[k - 1] \o <<lines[k]>> = Append(out[k - 1], lines[k])
    BY <2>3
  <2>5. QED
    BY <2>1, <2>2, <2>4
<1>15. Joined(out, Kept(lines, skip), N)
  <2> HIDE DEF skip, out
  <2>1. QED
    BY <1>13, <1>14 DEF Joined, Kept
<1>16. RemovePeer(lines, n) = out[N]
  <2>1. N \in 0 .. N
    BY <1>1
  <2> HIDE DEF N
  <2>2. QED
    BY <1>1, <1>8, <2>1
<1>17. QED
  <2> HIDE DEF skip, out
  <2>1. QED
    BY <1>12, <1>13, <1>14, <1>15, <1>16 DEF Follows

(* An update, line by line.                                                *)
Rewritten(lines, inside, n, new, group, r) ==
    [k \in 1 .. Len(lines) |-> UpdatedLine(inside[k], lines[k], n, new, group, r)]

(* What an update makes of a line is lines.                                *)
LEMMA UpdatedLineIsLines ==
    ASSUME NEW inside, NEW l \in Lines, NEW n, NEW new \in PeerNames, NEW group, NEW r \in Ranges
    PROVE  UpdatedLine(inside, l, n, new, group, r) \in Seq(Lines)
<1>1. NameLine(new) \in Lines /\ GroupLine \in Lines /\ RangeLine(r) \in Lines
  BY DEF Lines
<1>2. Marked(new, group) \in Seq(Lines)
  BY <1>1 DEF Marked
<1>3. <<>> \in Seq(Lines) /\ <<l>> \in Seq(Lines) /\ <<RangeLine(r)>> \in Seq(Lines)
  BY <1>1
<1>4. QED
  BY <1>2, <1>3 DEF UpdatedLine

(* The loop of wireguard_peer_update.sh joins what it makes of each line.  *)
LEMMA UpdateRuns ==
    ASSUME NEW lines \in Seq(Lines), NEW n, NEW new \in PeerNames, NEW group, NEW r \in Ranges
    PROVE  \E inside, out :
              /\ Follows(inside, lines, n)
              /\ out \in [0 .. Len(lines) -> Seq(Lines)]
              /\ Joined(out, Rewritten(lines, inside, n, new, group, r), Len(lines))
              /\ UpdatePeer(lines, n, new, group, r) = out[Len(lines)]
<1> DEFINE N == Len(lines)
           Inside(acc, l) == (acc.inside /\ l.line # "name") \/ l = NameLine(n)
           Step(acc, l) == [inside |-> Inside(acc, l),
                            out |-> acc.out \o UpdatedLine(Inside(acc, l), l, n, new, group, r)]
           base == [inside |-> FALSE, out |-> <<>>]
           A == [inside : BOOLEAN, out : Seq(Lines)]
           Steps == [p \in A \X Lines |-> Step(p[1], p[2])]
           Def(f) == [s \in SUBSET (DOMAIN lines) |->
                         IF s = {} THEN base ELSE Step(f[s \ {Max(s)}], lines[Max(s)])]
<1>1. N \in Nat /\ lines \in [1 .. N -> Lines] /\ DOMAIN lines = 1 .. N
  OBVIOUS
<1>2. base \in A
  OBVIOUS
<1>3. ASSUME NEW acc \in A, NEW l \in Lines
      PROVE  Step(acc, l) \in A
  <2>1. acc.out \in Seq(Lines) /\ Inside(acc, l) \in BOOLEAN
    OBVIOUS
  <2>2. UpdatedLine(Inside(acc, l), l, n, new, group, r) \in Seq(Lines)
    BY UpdatedLineIsLines
  <2> HIDE DEF Inside
  <2>3. QED
    BY <2>1, <2>2
<1>4. Steps \in [A \X Lines -> A] /\ \A acc \in A : \A l \in Lines : Steps[<<acc, l>>] = Step(acc, l)
  <2> HIDE DEF Step, A
  <2>1. QED
    BY <1>3
<1>5. PICK f : Folded(f, A, base, Steps, lines, N)
  <2> HIDE DEF Steps, A, base, N
  <2>1. QED
    BY <1>1, <1>2, <1>4, FoldExists
<1>6. /\ f \in [SUBSET (1 .. N) -> A]
      /\ \A s \in SUBSET (1 .. N) :
            f[s] = IF s = {} THEN base ELSE Steps[<<f[s \ {Max(s)}], lines[Max(s)]>>]
  BY <1>5 DEF Folded
<1>7. f = Def(f)
  <2>1. ASSUME NEW s \in SUBSET (1 .. N), s # {}
        PROVE  Steps[<<f[s \ {Max(s)}], lines[Max(s)]>>] = Step(f[s \ {Max(s)}], lines[Max(s)])
    <3>1. Max(s) \in s
      <4>1. \E m \in s : \A j \in s : j <= m
        BY <1>1, <2>1, Greatest
      <4>2. \E m \in s : \A j \in s : m >= j
        BY <4>1, <1>1
      <4>3. QED
        BY <4>2 DEF Max
    <3>2. lines[Max(s)] \in Lines /\ s \ {Max(s)} \in SUBSET (1 .. N)
      BY <1>1, <3>1
    <3> HIDE DEF Steps, Step, A
    <3>3. QED
      BY <1>4, <1>6, <3>2
  <2> HIDE DEF Steps, Step, A, base, N
  <2>2. QED
    BY <1>1, <1>6, <2>1
<1> DEFINE it == CHOOSE g : g = Def(g)
<1>8. it = Def(it) /\ UpdatePeer(lines, n, new, group, r) = it[DOMAIN lines].out
  <2>1. it = Def(it)
    <3> HIDE DEF Def
    <3>1. QED
      BY <1>7
  <2>2. UpdatePeer(lines, n, new, group, r) = it[DOMAIN lines].out
    BY DEF UpdatePeer, FoldLeft, MapThenFoldSet
  <2>3. QED
    BY <2>1, <2>2
<1> HIDE DEF it
<1>9. it[1 .. 0] = base
  <2>1. 1 .. 0 = {}
    OBVIOUS
  <2>2. QED
    BY <1>8, <2>1
<1>10. \A k \in 1 .. N : it[1 .. k] = Step(it[1 .. k - 1], lines[k])
  <2> TAKE k \in 1 .. N
  <2>1. Max(1 .. k) = k /\ (1 .. k) \ {k} = 1 .. k - 1 /\ 1 .. k \in SUBSET (1 .. N) /\ 1 .. k # {}
    BY <1>1, MaxOfSection
  <2> HIDE DEF Step, base, N
  <2>2. QED
    BY <1>1, <1>8, <2>1
<1>11. \A k \in 0 .. N : it[1 .. k] \in A
  <2> DEFINE T == {k \in 0 .. N : it[1 .. k] \in A}
  <2>1. 0 \in T
    <3> HIDE DEF A, base, N
    <3>1. QED
      BY <1>1, <1>9, <1>2
  <2>2. ASSUME NEW k \in 1 .. N, k - 1 \in T
        PROVE  k \in T
    <3>1. lines[k] \in Lines
      BY <1>1
    <3> HIDE DEF Step, A
    <3>2. QED
      BY <2>2, <3>1, <1>3, <1>10
  <2>3. \A k \in 0 .. N : k \in T
    <3> HIDE DEF T, N
    <3>1. QED
      BY <1>1, <2>1, <2>2, Inductive
  <2>4. QED
    BY <2>3
<1> DEFINE inside == [k \in 0 .. N |-> it[1 .. k].inside]
           out == [k \in 0 .. N |-> it[1 .. k].out]
<1>12. inside \in [0 .. N -> BOOLEAN] /\ out \in [0 .. N -> Seq(Lines)]
  BY <1>11
<1>13. inside[0] = FALSE /\ out[0] = <<>>
  BY <1>1, <1>9
<1>14. ASSUME NEW k \in 1 .. N
       PROVE  /\ inside[k] = ((inside[k - 1] /\ lines[k].line # "name") \/ lines[k] = NameLine(n))
              /\ out[k] = out[k - 1] \o UpdatedLine(inside[k], lines[k], n, new, group, r)
  <2>1. /\ k \in 0 .. N /\ k - 1 \in 0 .. N
        /\ inside[k] = it[1 .. k].inside /\ out[k] = it[1 .. k].out
        /\ inside[k - 1] = it[1 .. k - 1].inside /\ out[k - 1] = it[1 .. k - 1].out
    BY <1>1
  <2>2. /\ inside[k] = Inside(it[1 .. k - 1], lines[k])
        /\ out[k] = out[k - 1] \o UpdatedLine(Inside(it[1 .. k - 1], lines[k]), lines[k], n, new, group, r)
    <3> DEFINE i == Inside(it[1 .. k - 1], lines[k])
               o == it[1 .. k - 1].out \o UpdatedLine(i, lines[k], n, new, group, r)
    <3>1. it[1 .. k] = [inside |-> i, out |-> o]
      BY <1>10
    <3>2. /\ i = Inside(it[1 .. k - 1], lines[k])
          /\ o = it[1 .. k - 1].out \o UpdatedLine(i, lines[k], n, new, group, r)
      OBVIOUS
    <3> HIDE DEF i, o, inside, out, Inside
    <3>3. it[1 .. k].inside = i /\ it[1 .. k].out = o
      BY <3>1
    <3>4. QED
      BY <2>1, <3>2, <3>3, Zenon
  <2> HIDE DEF inside, out
  <2>3. QED
    BY <2>1, <2>2
<1>15. Joined(out, Rewritten(lines, inside, n, new, group, r), N)
  <2> HIDE DEF inside, out
  <2>1. QED
    BY <1>13, <1>14 DEF Joined, Rewritten
<1>16. UpdatePeer(lines, n, new, group, r) = out[N]
  <2>1. N \in 0 .. N
    BY <1>1
  <2> HIDE DEF N
  <2>2. QED
    BY <1>1, <1>8, <2>1
<1>17. QED
  <2> HIDE DEF inside, out
  <2>1. QED
    BY <1>12, <1>13, <1>14, <1>15, <1>16 DEF Follows

(* A file made by hand, block by block.                                    *)
BlockLines(blocks) ==
    [k \in 1 .. Len(blocks) |->
        Block(blocks[k].name, blocks[k].group, blocks[k].first, blocks[k].key, blocks[k].range)]

LEMMA BlockIsLines ==
    ASSUME NEW b \in Blocks
    PROVE  Block(b.name, b.group, b.first, b.key, b.range) \in Seq(Lines)
<1>1. /\ GroupLine \in Lines /\ Header \in Lines /\ KeyLine(b.key) \in Lines /\ RangeLine(b.range) \in Lines
      /\ b.name # Nil => NameLine(b.name) \in Lines
  BY DEF Blocks, Lines
<1>2. QED
  BY <1>1 DEF Block

(* A file made by hand joins the lines of its peers.                       *)
LEMMA WrittenRuns ==
    ASSUME NEW blocks \in Seq(Blocks)
    PROVE  \E out \in [0 .. Len(blocks) -> Seq(Lines)] :
              /\ Joined(out, BlockLines(blocks), Len(blocks))
              /\ Written(blocks) = out[Len(blocks)]
<1> DEFINE N == Len(blocks)
           Step(acc, b) == acc \o Block(b.name, b.group, b.first, b.key, b.range)
           base == <<>>
           A == Seq(Lines)
           Steps == [p \in A \X Blocks |-> Step(p[1], p[2])]
           Def(f) == [s \in SUBSET (DOMAIN blocks) |->
                         IF s = {} THEN base ELSE Step(f[s \ {Max(s)}], blocks[Max(s)])]
<1>1. N \in Nat /\ blocks \in [1 .. N -> Blocks] /\ DOMAIN blocks = 1 .. N
  OBVIOUS
<1>2. base \in A
  OBVIOUS
<1>3. ASSUME NEW acc \in A, NEW l \in Blocks
      PROVE  Step(acc, l) \in A
  BY BlockIsLines
<1>4. Steps \in [A \X Blocks -> A] /\ \A acc \in A : \A l \in Blocks : Steps[<<acc, l>>] = Step(acc, l)
  <2> HIDE DEF Step, A
  <2>1. QED
    BY <1>3
<1>5. PICK f : Folded(f, A, base, Steps, blocks, N)
  <2> HIDE DEF Steps, A, base, N
  <2>1. QED
    BY <1>1, <1>2, <1>4, FoldExists
<1>6. /\ f \in [SUBSET (1 .. N) -> A]
      /\ \A s \in SUBSET (1 .. N) :
            f[s] = IF s = {} THEN base ELSE Steps[<<f[s \ {Max(s)}], blocks[Max(s)]>>]
  BY <1>5 DEF Folded
<1>7. f = Def(f)
  <2>1. ASSUME NEW s \in SUBSET (1 .. N), s # {}
        PROVE  Steps[<<f[s \ {Max(s)}], blocks[Max(s)]>>] = Step(f[s \ {Max(s)}], blocks[Max(s)])
    <3>1. Max(s) \in s
      <4>1. \E m \in s : \A j \in s : j <= m
        BY <1>1, <2>1, Greatest
      <4>2. \E m \in s : \A j \in s : m >= j
        BY <4>1, <1>1
      <4>3. QED
        BY <4>2 DEF Max
    <3>2. blocks[Max(s)] \in Blocks /\ s \ {Max(s)} \in SUBSET (1 .. N)
      BY <1>1, <3>1
    <3> HIDE DEF Steps, Step, A
    <3>3. QED
      BY <1>4, <1>6, <3>2
  <2> HIDE DEF Steps, Step, A, base, N
  <2>2. QED
    BY <1>1, <1>6, <2>1
<1> DEFINE it == CHOOSE g : g = Def(g)
<1>8. it = Def(it) /\ Written(blocks) = it[DOMAIN blocks]
  <2>1. it = Def(it)
    <3> HIDE DEF Def
    <3>1. QED
      BY <1>7
  <2>2. Written(blocks) = it[DOMAIN blocks]
    BY DEF Written, FoldLeft, MapThenFoldSet
  <2>3. QED
    BY <2>1, <2>2
<1> HIDE DEF it
<1>9. it[1 .. 0] = base
  <2>1. 1 .. 0 = {}
    OBVIOUS
  <2>2. QED
    BY <1>8, <2>1
<1>10. \A k \in 1 .. N : it[1 .. k] = Step(it[1 .. k - 1], blocks[k])
  <2> TAKE k \in 1 .. N
  <2>1. Max(1 .. k) = k /\ (1 .. k) \ {k} = 1 .. k - 1 /\ 1 .. k \in SUBSET (1 .. N) /\ 1 .. k # {}
    BY <1>1, MaxOfSection
  <2> HIDE DEF Step, base, N
  <2>2. QED
    BY <1>1, <1>8, <2>1
<1>11. \A k \in 0 .. N : it[1 .. k] \in A
  <2> DEFINE T == {k \in 0 .. N : it[1 .. k] \in A}
  <2>1. 0 \in T
    <3> HIDE DEF A, base, N
    <3>1. QED
      BY <1>1, <1>9, <1>2
  <2>2. ASSUME NEW k \in 1 .. N, k - 1 \in T
        PROVE  k \in T
    <3>1. blocks[k] \in Blocks
      BY <1>1
    <3> HIDE DEF Step, A
    <3>2. QED
      BY <2>2, <3>1, <1>3, <1>10
  <2>3. \A k \in 0 .. N : k \in T
    <3> HIDE DEF T, N
    <3>1. QED
      BY <1>1, <2>1, <2>2, Inductive
  <2>4. QED
    BY <2>3
<1> DEFINE out == [k \in 0 .. N |-> it[1 .. k]]
<1>12. out \in [0 .. N -> Seq(Lines)]
  BY <1>11
<1>13. out[0] = <<>>
  BY <1>1, <1>9
<1>14. ASSUME NEW k \in 1 .. N
       PROVE  out[k] = out[k - 1] \o BlockLines(blocks)[k]
  <2>1. k \in 0 .. N /\ k - 1 \in 0 .. N /\ out[k] = it[1 .. k] /\ out[k - 1] = it[1 .. k - 1]
    BY <1>1
  <2>2. it[1 .. k] = Step(it[1 .. k - 1], blocks[k])
    BY <1>10
  <2> HIDE DEF out
  <2>3. QED
    BY <2>1, <2>2 DEF BlockLines
<1>15. Joined(out, BlockLines(blocks), N)
  <2> HIDE DEF out
  <2>1. QED
    BY <1>13, <1>14 DEF Joined
<1>16. Written(blocks) = out[N]
  <2>1. N \in 0 .. N
    BY <1>1
  <2> HIDE DEF N
  <2>2. QED
    BY <1>1, <1>8, <2>1
<1>17. QED
  <2> HIDE DEF out
  <2>1. QED
    BY <1>12, <1>15, <1>16

--------------------------------------------------------------------------------
(* Where each line of a file comes to stand                                *)

(* The lines from a marker of the name up to the next marker               *)
Reach(lines, n) == UNION {Region(lines, m) : m \in Marker(lines, n)}

(* A line is in reach of a name if it is the name's marker, or follows     *)
(* such a line and is no other marker.                                     *)
LEMMA ReachStep ==
    ASSUME NEW lines \in Seq(Lines), NEW n
    PROVE  /\ Reach(lines, n) \subseteq 1 .. Len(lines)
           /\ \A k \in 1 .. Len(lines) :
                 k \in Reach(lines, n) <=> \/ lines[k] = NameLine(n)
                                           \/ k - 1 \in Reach(lines, n) /\ lines[k].line # "name"
<1>1. /\ Len(lines) \in Nat
      /\ \A m \in Marker(lines, n) : m \in 1 .. Len(lines) /\ lines[m] = NameLine(n)
  BY DEF Marker
<1>2. ASSUME NEW m \in Marker(lines, n)
      PROVE  /\ \A i : i \in Region(lines, m) <=>
                  /\ i \in m .. Len(lines)
                  /\ \A j \in m + 1 .. i : lines[j].line # "name"
             /\ Region(lines, m) \subseteq 1 .. Len(lines)
  <2>1. m .. Len(lines) \subseteq 1 .. Len(lines)
    BY <1>1
  <2>2. QED
    BY <2>1 DEF Region, Is
<1>3. Reach(lines, n) \subseteq 1 .. Len(lines)
  <2>1. \A k : k \in Reach(lines, n) <=> \E m \in Marker(lines, n) : k \in Region(lines, m)
    BY DEF Reach
  <2>2. QED
    BY <1>2, <2>1
<1>4. ASSUME NEW k \in 1 .. Len(lines), lines[k] = NameLine(n)
      PROVE  k \in Reach(lines, n)
  <2>1. k \in Marker(lines, n)
    BY <1>4 DEF Marker
  <2>2. k \in k .. Len(lines) /\ k + 1 .. k = {}
    BY <1>1
  <2>3. k \in Region(lines, k)
    BY <2>1, <2>2, <1>2
  <2>4. QED
    BY <2>1, <2>3 DEF Reach
<1>5. ASSUME NEW k \in 1 .. Len(lines), k - 1 \in Reach(lines, n), lines[k].line # "name"
      PROVE  k \in Reach(lines, n)
  <2>1. PICK m \in Marker(lines, n) : k - 1 \in Region(lines, m)
    BY <1>5 DEF Reach
  <2>2. m \in 1 .. Len(lines) /\ k - 1 \in m .. Len(lines)
    BY <1>1, <1>2, <2>1
  <2>3. k \in m .. Len(lines) /\ \A j \in m + 1 .. k : j \in m + 1 .. k - 1 \/ j = k
    BY <1>1, <2>2
  <2>4. k \in Region(lines, m)
    BY <1>2, <1>5, <2>1, <2>3
  <2>5. QED
    BY <2>4 DEF Reach
<1>6. ASSUME NEW k \in 1 .. Len(lines), k \in Reach(lines, n), lines[k] # NameLine(n)
      PROVE  k - 1 \in Reach(lines, n) /\ lines[k].line # "name"
  <2>1. PICK m \in Marker(lines, n) : k \in Region(lines, m)
    BY <1>6 DEF Reach
  <2>2. m \in 1 .. Len(lines) /\ k # m /\ k \in m .. Len(lines)
    BY <1>1, <1>2, <1>6, <2>1
  <2>3. k - 1 \in m .. Len(lines) /\ k \in m + 1 .. k /\ \A j \in m + 1 .. k - 1 : j \in m + 1 .. k
    BY <1>1, <2>2
  <2>4. k - 1 \in Region(lines, m) /\ lines[k].line # "name"
    BY <1>2, <2>1, <2>3
  <2>5. QED
    BY <2>4 DEF Reach
<1>7. QED
  BY <1>3, <1>4, <1>5, <1>6

(* What becomes of each line, and where it comes to stand                  *)
Edited(lines, out, at, parts) ==
    /\ out \in Seq(Lines)
    /\ at \in [1 .. Len(lines) + 1 -> Nat]
    /\ at[1] = 1 /\ Len(out) = at[Len(lines) + 1] - 1
    /\ parts \in [1 .. Len(lines) -> Seq(Lines)]
    /\ \A k \in 1 .. Len(lines) :
          /\ at[k + 1] = at[k] + Len(parts[k])
          /\ \A q \in 1 .. Len(parts[k]) :
                at[k] + q - 1 \in 1 .. Len(out) /\ out[at[k] + q - 1] = parts[k][q]
    /\ \A k \in 1 .. Len(lines) + 1 : \A j \in 1 .. k : at[j] <= at[k]
    /\ \A p \in 1 .. Len(out) :
          \E k \in 1 .. Len(lines) : \E q \in 1 .. Len(parts[k]) : p = at[k] + q - 1

(* Joining the parts gives each line its place in the new file.            *)
LEMMA JoinedIsEdited ==
    ASSUME NEW lines \in Seq(Lines), NEW parts \in [1 .. Len(lines) -> Seq(Lines)],
           NEW out \in [0 .. Len(lines) -> Seq(Lines)], Joined(out, parts, Len(lines))
    PROVE  \E at : Edited(lines, out[Len(lines)], at, parts)
<1> DEFINE N == Len(lines)
           at == [k \in 1 .. N + 1 |-> Len(out[k - 1]) + 1]
<1>1. /\ N \in Nat /\ parts \in [1 .. N -> Seq(Lines)] /\ out \in [0 .. N -> Seq(Lines)]
      /\ Joined(out, parts, N)
  OBVIOUS
<1> HIDE DEF N
<1>2. /\ \A k \in 0 .. N : Len(out[k]) \in Nat
      /\ \A k \in 1 .. N : Len(out[k]) = Len(out[k - 1]) + Len(parts[k])
      /\ \A k \in 0 .. N : \A j \in 0 .. k : Len(out[j]) <= Len(out[k])
  BY <1>1, JoinedLengths
<1>3. /\ \A k \in 1 .. N : \A q \in 1 .. Len(parts[k]) :
            /\ Len(out[k - 1]) + q \in 1 .. Len(out[N])
            /\ out[N][Len(out[k - 1]) + q] = parts[k][q]
      /\ \A p \in 1 .. Len(out[N]) :
            \E k \in 1 .. N : \E q \in 1 .. Len(parts[k]) : p = Len(out[k - 1]) + q
  <2>1. Placed(out, parts, N)
    BY <1>1, JoinedParts
  <2>2. QED
    BY <2>1 DEF Placed
<1>4. \A k \in 1 .. N + 1 : k - 1 \in 0 .. N /\ at[k] = Len(out[k - 1]) + 1
  BY <1>1
<1>5. at \in [1 .. N + 1 -> Nat]
  BY <1>2, <1>4
<1> HIDE DEF at
<1>6. at[1] = 1 /\ Len(out[N]) = at[N + 1] - 1 /\ out[N] \in Seq(Lines)
  <2>1. 1 \in 1 .. N + 1 /\ N + 1 \in 1 .. N + 1 /\ 1 - 1 = 0 /\ (N + 1) - 1 = N /\ N \in 0 .. N
    BY <1>1
  <2>2. at[1] = Len(out[0]) + 1 /\ at[N + 1] = Len(out[N]) + 1
    BY <1>4, <2>1
  <2>3. Len(out[0]) = 0
    BY <1>1 DEF Joined
  <2>4. Len(out[N]) \in Nat
    BY <1>2, <2>1
  <2>5. QED
    BY <1>1, <2>1, <2>2, <2>3, <2>4
<1>7. ASSUME NEW k \in 1 .. N
      PROVE  /\ at[k + 1] = at[k] + Len(parts[k])
             /\ \A q \in 1 .. Len(parts[k]) :
                   at[k] + q - 1 \in 1 .. Len(out[N]) /\ out[N][at[k] + q - 1] = parts[k][q]
  <2>1. k \in 1 .. N + 1 /\ k + 1 \in 1 .. N + 1 /\ (k + 1) - 1 = k /\ k - 1 \in 0 .. N
    BY <1>1
  <2>2. at[k] = Len(out[k - 1]) + 1 /\ at[k + 1] = Len(out[k]) + 1
    BY <1>4, <2>1
  <2>3. Len(out[k - 1]) \in Nat /\ Len(parts[k]) \in Nat
    BY <1>1, <1>2, <2>1
  <2>4. Len(out[k]) = Len(out[k - 1]) + Len(parts[k]) /\ at[k + 1] = at[k] + Len(parts[k])
    <3>1. Len(out[k]) = Len(out[k - 1]) + Len(parts[k]) /\ Len(out[k]) \in Nat
      BY <1>2, <2>1
    <3>2. \A a, b, c \in Nat : c = a + b => c + 1 = (a + 1) + b
      OBVIOUS
    <3>3. Len(out[k]) + 1 = (Len(out[k - 1]) + 1) + Len(parts[k])
      BY <2>3, <3>1, <3>2
    <3>4. QED
      BY <2>2, <3>1, <3>3, Zenon
  <2>5. \A q \in 1 .. Len(parts[k]) : at[k] + q - 1 = Len(out[k - 1]) + q
    BY <2>2, <2>3
  <2>6. QED
    BY <1>3, <2>4, <2>5
<1>8. \A k \in 1 .. N + 1 : \A j \in 1 .. k : at[j] <= at[k]
  <2> TAKE k \in 1 .. N + 1
  <2> TAKE j \in 1 .. k
  <2>1. j \in 1 .. N + 1 /\ j - 1 \in 0 .. k - 1 /\ k - 1 \in 0 .. N /\ j - 1 \in 0 .. N
    BY <1>1
  <2>2. /\ at[j] = Len(out[j - 1]) + 1 /\ at[k] = Len(out[k - 1]) + 1
        /\ Len(out[j - 1]) \in Nat /\ Len(out[k - 1]) \in Nat
    BY <1>2, <1>4, <2>1
  <2>3. Len(out[j - 1]) <= Len(out[k - 1])
    BY <1>2, <2>1
  <2>4. QED
    BY <2>2, <2>3
<1>9. ASSUME NEW p \in 1 .. Len(out[N])
      PROVE  \E k \in 1 .. N : \E q \in 1 .. Len(parts[k]) : p = at[k] + q - 1
  <2>1. PICK k \in 1 .. N : \E q \in 1 .. Len(parts[k]) : p = Len(out[k - 1]) + q
    BY <1>3
  <2>2. PICK q \in 1 .. Len(parts[k]) : p = Len(out[k - 1]) + q
    BY <2>1
  <2>3. k \in 1 .. N + 1 /\ k - 1 \in 0 .. N
    BY <1>1
  <2>4. at[k] = Len(out[k - 1]) + 1 /\ Len(out[k - 1]) \in Nat
    BY <1>2, <1>4, <2>3
  <2>5. p = at[k] + q - 1
    BY <2>2, <2>4
  <2>6. QED
    BY <2>5
<1>10. QED
  BY <1>1, <1>5, <1>6, <1>7, <1>8, <1>9 DEF Edited, N

(* Both scripts count as the peer's what is in reach of its name.          *)
LEMMA FollowsReach ==
    ASSUME NEW lines \in Seq(Lines), NEW n, NEW inside, Follows(inside, lines, n)
    PROVE  \A k \in 1 .. Len(lines) : inside[k] = (k \in Reach(lines, n))
<1> DEFINE N == Len(lines)
           T == {k \in 0 .. N : inside[k] <=> k \in Reach(lines, n)}
<1>1. N \in Nat
  OBVIOUS
<1>2. 0 \in T
  <2>1. Reach(lines, n) \subseteq 1 .. N
    BY ReachStep
  <2>2. 0 \notin Reach(lines, n)
    BY <2>1
  <2>3. ~inside[0]
    BY DEF Follows
  <2>4. 0 \in 0 .. N
    BY <1>1
  <2>5. QED
    BY <2>2, <2>3, <2>4, Zenon
<1>3. ASSUME NEW k \in 1 .. N, k - 1 \in T
      PROVE  k \in T
  <2>1. k \in Reach(lines, n) <=> \/ lines[k] = NameLine(n)
                                  \/ k - 1 \in Reach(lines, n) /\ lines[k].line # "name"
    BY ReachStep
  <2>2. inside[k] <=> (inside[k - 1] /\ lines[k].line # "name") \/ lines[k] = NameLine(n)
    BY DEF Follows
  <2>3. inside[k - 1] <=> k - 1 \in Reach(lines, n)
    BY <1>3, Zenon
  <2>4. inside[k] <=> k \in Reach(lines, n)
    BY <2>1, <2>2, <2>3, Zenon
  <2>5. k \in 0 .. N
    BY <1>1
  <2>6. QED
    BY <2>4, <2>5, Zenon
<1>4. \A k \in 0 .. N : k \in T
  <2> HIDE DEF T, N
  <2>1. QED
    BY <1>1, <1>2, <1>3, Inductive
<1>5. ASSUME NEW k \in 1 .. N
      PROVE  inside[k] = (k \in Reach(lines, n))
  <2>1. k \in 0 .. N
    BY <1>1
  <2>2. inside[k] <=> k \in Reach(lines, n)
    BY <1>4, <2>1, Zenon
  <2>3. inside[k] \in BOOLEAN
    BY <2>1 DEF Follows
  <2>4. QED
    BY <2>2, <2>3
<1>6. QED
  BY <1>5, Zenon

Removed(lines, n) == [k \in 1 .. Len(lines) |-> IF k \in Reach(lines, n) THEN <<>> ELSE <<lines[k]>>]

(* A removal leaves out the lines in reach of the name and keeps the       *)
(* others.                                                                 *)
LEMMA RemoveEdits ==
    ASSUME NEW lines \in Seq(Lines), NEW n
    PROVE  \E at : Edited(lines, RemovePeer(lines, n), at, Removed(lines, n))
<1>1. PICK skip, out :
          /\ Follows(skip, lines, n)
          /\ out \in [0 .. Len(lines) -> Seq(Lines)]
          /\ Joined(out, Kept(lines, skip), Len(lines))
          /\ RemovePeer(lines, n) = out[Len(lines)]
  BY RemoveRuns
<1>2. Kept(lines, skip) = Removed(lines, n)
  <2>1. \A k \in 1 .. Len(lines) : skip[k] = (k \in Reach(lines, n))
    BY <1>1, FollowsReach
  <2>2. QED
    BY <2>1, Zenon DEF Kept, Removed
<1>3. Removed(lines, n) \in [1 .. Len(lines) -> Seq(Lines)]
  BY DEF Removed
<1>4. QED
  BY <1>1, <1>2, <1>3, JoinedIsEdited

Renewed(lines, n, new, group, r) ==
    [k \in 1 .. Len(lines) |-> UpdatedLine(k \in Reach(lines, n), lines[k], n, new, group, r)]

(* An update renews the lines in reach of the name and keeps the others.   *)
LEMMA UpdateEdits ==
    ASSUME NEW lines \in Seq(Lines), NEW n, NEW new \in PeerNames, NEW group, NEW r \in Ranges
    PROVE  \E at : Edited(lines, UpdatePeer(lines, n, new, group, r), at, Renewed(lines, n, new, group, r))
<1>1. PICK inside, out :
          /\ Follows(inside, lines, n)
          /\ out \in [0 .. Len(lines) -> Seq(Lines)]
          /\ Joined(out, Rewritten(lines, inside, n, new, group, r), Len(lines))
          /\ UpdatePeer(lines, n, new, group, r) = out[Len(lines)]
  BY UpdateRuns
<1>2. Rewritten(lines, inside, n, new, group, r) = Renewed(lines, n, new, group, r)
  <2>1. \A k \in 1 .. Len(lines) : inside[k] = (k \in Reach(lines, n))
    BY <1>1, FollowsReach
  <2>2. QED
    BY <2>1, Zenon DEF Rewritten, Renewed
<1>3. Renewed(lines, n, new, group, r) \in [1 .. Len(lines) -> Seq(Lines)]
  <2>1. \A k \in 1 .. Len(lines) : lines[k] \in Lines
    OBVIOUS
  <2>2. QED
    BY <2>1, UpdatedLineIsLines, Zenon DEF Renewed
<1>4. QED
  BY <1>1, <1>2, <1>3, JoinedIsEdited

--------------------------------------------------------------------------------
(* What a peer is, from the lines beside its key                           *)

(* The lines and their kinds.                                              *)
LEMMA LineFacts ==
    /\ Header \in Lines /\ GroupLine \in Lines
    /\ \A n \in PeerNames : NameLine(n) \in Lines
    /\ \A k \in PublicKeys : KeyLine(k) \in Lines
    /\ \A r \in Ranges : RangeLine(r) \in Lines
    /\ Header.line = "Peer" /\ GroupLine.line = "group"
    /\ \A x : /\ NameLine(x).line = "name" /\ NameLine(x).is = x
              /\ KeyLine(x).line = "PublicKey" /\ KeyLine(x).is = x
              /\ RangeLine(x).line = "AllowedIPs" /\ RangeLine(x).is = x
  BY DEF Lines, Header, GroupLine, NameLine, KeyLine, RangeLine

(* The kind of a line says which one it is.                                *)
LEMMA LineKinds ==
    ASSUME NEW l \in Lines
    PROVE  /\ l.line \in {"Peer", "group", "name", "PublicKey", "AllowedIPs"}
           /\ l.line = "Peer" => l = Header
           /\ l.line = "group" => l = GroupLine
           /\ l.line = "name" => l.is \in PeerNames /\ l = NameLine(l.is)
           /\ l.line = "PublicKey" => l.is \in PublicKeys /\ l = KeyLine(l.is)
           /\ l.line = "AllowedIPs" => l.is \in Ranges /\ l = RangeLine(l.is)
<1>1. \/ l = Header \/ l = GroupLine
      \/ \E n \in PeerNames : l = NameLine(n)
      \/ \E k \in PublicKeys : l = KeyLine(k)
      \/ \E r \in Ranges : l = RangeLine(r)
  BY DEF Lines
<1>2. CASE l = Header
  BY <1>2, LineFacts
<1>3. CASE l = GroupLine
  BY <1>3, LineFacts
<1>4. CASE \E n \in PeerNames : l = NameLine(n)
  BY <1>4, LineFacts
<1>5. CASE \E k \in PublicKeys : l = KeyLine(k)
  BY <1>5, LineFacts
<1>6. CASE \E r \in Ranges : l = RangeLine(r)
  BY <1>6, LineFacts
<1>7. QED
  BY <1>1, <1>2, <1>3, <1>4, <1>5, <1>6

(* The peer of a key, from the lines beside it.                            *)
LEMMA RangeOfKey ==
    ASSUME NEW lines \in Seq(Lines), Formed(lines), NEW i \in KeysAt(lines)
    PROVE  /\ i \in 2 .. Len(lines) /\ Kind(lines, i - 1, "Peer") /\ Kind(lines, i + 1, "AllowedIPs")
           /\ {j \in After(lines, i) : Is(lines, j, "AllowedIPs")} = {i + 1}
<1>1. /\ i \in 1 .. Len(lines) /\ Len(lines) \in Nat /\ DOMAIN lines = 1 .. Len(lines)
      /\ Is(lines, i, "PublicKey")
  BY DEF KeysAt
<1>2. Kind(lines, i - 1, "Peer") /\ Kind(lines, i + 1, "AllowedIPs")
  BY <1>1 DEF Formed
<1>3. i \in 2 .. Len(lines) /\ i + 1 \in 1 .. Len(lines) /\ Is(lines, i + 1, "AllowedIPs")
  BY <1>1, <1>2 DEF Kind
<1>4. i + 1 \notin KeysAt(lines)
  BY <1>3 DEF KeysAt, Is
<1>5. i + 1 \in After(lines, i)
  <2>1. i + 1 \in i + 1 .. Len(lines) /\ \A m \in i + 1 .. i + 1 : m = i + 1
    BY <1>1, <1>3
  <2>2. QED
    BY <1>4, <2>1 DEF After
<1>6. ASSUME NEW j \in After(lines, i), Is(lines, j, "AllowedIPs")
      PROVE  j = i + 1
  <2>1. j \in i + 1 .. Len(lines) /\ \A m \in i + 1 .. j : m \notin KeysAt(lines)
    BY DEF After
  <2>2. j \in DOMAIN lines
    BY <1>1, <2>1
  <2>3. Kind(lines, j - 1, "PublicKey")
    BY <1>6, <2>2 DEF Formed
  <2>4. j - 1 \in KeysAt(lines)
    BY <2>3 DEF Kind, KeysAt
  <2>5. j - 1 \notin i + 1 .. j
    BY <2>1, <2>4
  <2>6. QED
    BY <1>1, <2>1, <2>5
<1>7. QED
  BY <1>2, <1>3, <1>5, <1>6

(* The name markers before a key, back to the key before it: at most one,  *)
(* two or three lines up.                                                  *)
LEMMA NameOfKey ==
    ASSUME NEW lines \in Seq(Lines), Formed(lines), NEW i \in KeysAt(lines)
    PROVE  \A j : j \in Before(lines, i) /\ Is(lines, j, "name") <=>
               \/ j = i - 2 /\ Kind(lines, i - 2, "name")
               \/ j = i - 3 /\ Kind(lines, i - 3, "name") /\ Kind(lines, i - 2, "group")
<1>1. /\ i \in 2 .. Len(lines) /\ Len(lines) \in Nat /\ DOMAIN lines = 1 .. Len(lines)
      /\ Kind(lines, i - 1, "Peer")
  BY RangeOfKey
<1>2. \A j : j \in KeysAt(lines) <=> j \in 1 .. Len(lines) /\ lines[j].line = "PublicKey"
  BY <1>1 DEF KeysAt, Is
<1>3. ASSUME NEW j, j \in Before(lines, i), Is(lines, j, "name")
      PROVE  \/ j = i - 2 /\ Kind(lines, i - 2, "name")
             \/ j = i - 3 /\ Kind(lines, i - 3, "name") /\ Kind(lines, i - 2, "group")
  <2>1. j \in 1 .. i - 1 /\ \A m \in j .. i - 1 : m \notin KeysAt(lines)
    BY <1>3 DEF Before
  <2>2. j \in DOMAIN lines /\ j # i - 1
    <3>1. j \in DOMAIN lines
      BY <1>1, <2>1
    <3>2. j # i - 1
      BY <1>1, <1>3 DEF Kind, Is
    <3>3. QED
      BY <3>1, <3>2
  <2>3. CASE Kind(lines, j + 1, "Peer")
    <3>1. Kind(lines, j + 2, "PublicKey")
      <4>1. Kind(lines, (j + 1) + 1, "PublicKey")
        BY <2>3 DEF Formed, Kind
      <4>2. (j + 1) + 1 = j + 2
        BY <2>1
      <4>3. QED
        BY <4>1, <4>2
    <3>2. j + 2 \notin j .. i - 1
      BY <2>1, <3>1, <1>1, <1>2 DEF Kind, Is
    <3>3. j = i - 2
      BY <1>1, <2>1, <2>2, <3>2
    <3>4. QED
      BY <1>3, <2>2, <3>3 DEF Kind
  <2>4. CASE Kind(lines, j + 1, "group") /\ Kind(lines, j + 2, "Peer")
    <3>1. Kind(lines, j + 3, "PublicKey")
      <4>1. Kind(lines, (j + 2) + 1, "PublicKey")
        BY <2>4 DEF Formed, Kind
      <4>2. (j + 2) + 1 = j + 3
        BY <2>1
      <4>3. QED
        BY <4>1, <4>2
    <3>2. j + 3 \notin j .. i - 1
      BY <2>1, <3>1, <1>1, <1>2 DEF Kind, Is
    <3>3. j + 1 # i - 1
      BY <1>1, <2>4 DEF Kind, Is
    <3>4. j = i - 3 /\ j + 1 = i - 2
      BY <1>1, <2>1, <2>2, <3>2, <3>3
    <3>5. QED
      BY <1>3, <2>2, <2>4, <3>4 DEF Kind
  <2>5. QED
    BY <1>3, <2>2, <2>3, <2>4 DEF Formed
<1>4. ASSUME Kind(lines, i - 2, "name")
      PROVE  i - 2 \in Before(lines, i) /\ Is(lines, i - 2, "name")
  <2>1. i - 2 \in 1 .. i - 1 /\ \A m \in i - 2 .. i - 1 : m = i - 2 \/ m = i - 1
    <3>1. i - 2 \in 1 .. Len(lines)
      BY <1>1, <1>4 DEF Kind
    <3>2. QED
      BY <1>1, <3>1
  <2>2. i - 2 \notin KeysAt(lines) /\ i - 1 \notin KeysAt(lines)
    BY <1>1, <1>2, <1>4 DEF Kind, Is
  <2>3. QED
    BY <1>4, <2>1, <2>2 DEF Before, Kind
<1>5. ASSUME Kind(lines, i - 3, "name"), Kind(lines, i - 2, "group")
      PROVE  i - 3 \in Before(lines, i) /\ Is(lines, i - 3, "name")
  <2>1. i - 3 \in 1 .. i - 1 /\ \A m \in i - 3 .. i - 1 : m = i - 3 \/ m = i - 2 \/ m = i - 1
    <3>1. i - 3 \in 1 .. Len(lines)
      BY <1>1, <1>5 DEF Kind
    <3>2. QED
      BY <1>1, <3>1
  <2>2. i - 3 \notin KeysAt(lines) /\ i - 2 \notin KeysAt(lines) /\ i - 1 \notin KeysAt(lines)
    BY <1>1, <1>2, <1>5 DEF Kind, Is
  <2>3. QED
    BY <1>5, <2>1, <2>2 DEF Before, Kind
<1>6. QED
  BY <1>3, <1>4, <1>5

(* The group markers before a key.                                         *)
LEMMA GroupOfKey ==
    ASSUME NEW lines \in Seq(Lines), Formed(lines), NEW i \in KeysAt(lines)
    PROVE  (\E j \in Before(lines, i) : Is(lines, j, "group")) <=>
               \/ Kind(lines, i - 2, "group")
               \/ Kind(lines, i - 2, "name") /\ Kind(lines, i - 3, "group")
<1>1. /\ i \in 2 .. Len(lines) /\ Len(lines) \in Nat /\ DOMAIN lines = 1 .. Len(lines)
      /\ Kind(lines, i - 1, "Peer")
  BY RangeOfKey
<1>2. \A j : j \in KeysAt(lines) <=> j \in 1 .. Len(lines) /\ lines[j].line = "PublicKey"
  BY <1>1 DEF KeysAt, Is
<1>3. ASSUME NEW j \in Before(lines, i), Is(lines, j, "group")
      PROVE  \/ Kind(lines, i - 2, "group")
             \/ Kind(lines, i - 2, "name") /\ Kind(lines, i - 3, "group")
  <2>1. j \in 1 .. i - 1 /\ \A m \in j .. i - 1 : m \notin KeysAt(lines)
    BY <1>3 DEF Before
  <2>2. j # i - 1
    BY <1>1, <1>3 DEF Kind, Is
  <2>3. i - 2 \in 1 .. Len(lines) /\ i - 2 \in j .. i - 1 /\ (i - 2) + 1 = i - 1 /\ (i - 2) - 1 = i - 3
    BY <1>1, <2>1, <2>2
  <2>4. \A m \in j + 1 .. i - 2 : ~Is(lines, m, "AllowedIPs") \/ m - 1 \notin j .. i - 1
    <3> SUFFICES ASSUME NEW m \in j + 1 .. i - 2, Is(lines, m, "AllowedIPs")
                 PROVE  m - 1 \notin j .. i - 1
      OBVIOUS
    <3>1. m \in DOMAIN lines
      BY <1>1, <2>1
    <3>2. m - 1 \in KeysAt(lines)
      BY <3>1, <1>2, <1>1 DEF Formed, Kind, Is
    <3>3. QED
      BY <2>1, <3>2
  <2>5. ASSUME NEW m \in j .. i - 2, Is(lines, m, "name") \/ m = i - 2
        PROVE  Is(lines, m, "group") \/ Is(lines, m, "name")
    <3>1. m \in 1 .. Len(lines) /\ m \in j .. i - 1
      BY <1>1, <2>1
    <3>2. lines[m].line \in {"Peer", "group", "name", "PublicKey", "AllowedIPs"}
      <4>1. lines[m] \in Lines
        BY <3>1
      <4>2. QED
        BY <4>1, LineKinds
    <3>3. ~Is(lines, m, "PublicKey")
      BY <1>2, <2>1, <3>1 DEF Is
    <3>4. CASE m = i - 2 /\ Is(lines, m, "AllowedIPs")
      <4>1. m # j
        BY <1>3, <3>4 DEF Is
      <4>2. m \in j + 1 .. i - 2 /\ m - 1 \in j .. i - 1
        BY <1>1, <2>1, <4>1
      <4>3. QED
        BY <2>4, <3>4, <4>2
    <3>5. CASE m = i - 2 /\ Is(lines, m, "Peer")
      <4>1. Kind(lines, m + 1, "PublicKey")
        BY <1>1, <3>1, <3>5 DEF Formed
      <4>2. QED
        BY <1>1, <2>3, <3>5, <4>1 DEF Kind, Is
    <3>6. QED
      BY <2>5, <3>2, <3>3, <3>4, <3>5 DEF Is
  <2>6. Is(lines, i - 2, "group") \/ Is(lines, i - 2, "name")
    <3>1. i - 2 \in j .. i - 2
      BY <1>1, <2>1, <2>3
    <3>2. QED
      BY <2>5, <3>1
  <2>7. ASSUME Is(lines, i - 2, "name")
        PROVE  Kind(lines, i - 3, "group")
    <3>1. j # i - 2 /\ i - 3 \in 1 .. Len(lines) /\ i - 3 \in j .. i - 1 /\ (i - 3) + 1 = i - 2
          /\ (i - 3) + 2 = i - 1
      <4>1. j # i - 2
        BY <1>3, <2>7 DEF Is
      <4>2. QED
        BY <1>1, <2>1, <2>2, <2>3, <4>1
    <3>2. lines[i - 3].line \in {"Peer", "group", "name", "PublicKey", "AllowedIPs"}
      <4>1. lines[i - 3] \in Lines
        BY <3>1
      <4>2. QED
        BY <4>1, LineKinds
    <3>3. lines[i - 3].line # "PublicKey"
      BY <1>2, <2>1, <3>1
    <3>4. lines[i - 3].line # "Peer"
      BY <1>1, <2>7, <3>1 DEF Formed, Kind, Is
    <3>5. lines[i - 3].line # "name"
      BY <1>1, <2>7, <3>1 DEF Formed, Kind, Is
    <3>6. lines[i - 3].line # "AllowedIPs"
      <4> SUFFICES ASSUME lines[i - 3].line = "AllowedIPs"
                   PROVE  FALSE
        OBVIOUS
      <4>1. j # i - 3
        BY <1>3 DEF Is
      <4>2. i - 3 \in j + 1 .. i - 2 /\ (i - 3) - 1 \in j .. i - 1
        BY <1>1, <2>1, <3>1, <4>1
      <4>3. QED
        BY <2>4, <4>2 DEF Is
    <3>7. QED
      BY <1>1, <3>1, <3>2, <3>3, <3>4, <3>5, <3>6 DEF Kind, Is
  <2>8. QED
    BY <1>1, <2>3, <2>6, <2>7 DEF Kind
<1>4. ASSUME Kind(lines, i - 2, "group")
      PROVE  i - 2 \in Before(lines, i) /\ Is(lines, i - 2, "group")
  <2>1. i - 2 \in 1 .. i - 1 /\ \A m \in i - 2 .. i - 1 : m = i - 2 \/ m = i - 1
    <3>1. i - 2 \in 1 .. Len(lines)
      BY <1>1, <1>4 DEF Kind
    <3>2. QED
      BY <1>1, <3>1
  <2>2. i - 2 \notin KeysAt(lines) /\ i - 1 \notin KeysAt(lines)
    BY <1>1, <1>2, <1>4 DEF Kind, Is
  <2>3. QED
    BY <1>4, <2>1, <2>2 DEF Before, Kind
<1>5. ASSUME Kind(lines, i - 3, "group"), Kind(lines, i - 2, "name")
      PROVE  i - 3 \in Before(lines, i) /\ Is(lines, i - 3, "group")
  <2>1. i - 3 \in 1 .. i - 1 /\ \A m \in i - 3 .. i - 1 : m = i - 3 \/ m = i - 2 \/ m = i - 1
    <3>1. i - 3 \in 1 .. Len(lines)
      BY <1>1, <1>5 DEF Kind
    <3>2. QED
      BY <1>1, <3>1
  <2>2. i - 3 \notin KeysAt(lines) /\ i - 2 \notin KeysAt(lines) /\ i - 1 \notin KeysAt(lines)
    BY <1>1, <1>2, <1>5 DEF Kind, Is
  <2>3. QED
    BY <1>5, <2>1, <2>2 DEF Before, Kind
<1>6. QED
  BY <1>3, <1>4, <1>5

LEMMA LastOfOne ==
    ASSUME NEW lines, NEW i \in Nat
    PROVE  LastMarked(lines, {i}) = lines[i].is /\ LastMarked(lines, {}) = Nil
  BY DEF LastMarked

(* A peer reads the same from the lines beside its key as from all lines   *)
(* back to the last key.                                                   *)
LEMMA PeerIsLocal ==
    ASSUME NEW lines \in Seq(Lines), Formed(lines), NEW i \in KeysAt(lines)
    PROVE  PeerAt(lines, i) = PeerBy(lines, i)
<1> DEFINE named == {j \in Before(lines, i) : Is(lines, j, "name")}
           grouped == \E j \in Before(lines, i) : Is(lines, j, "group")
           range == LastMarked(lines, {j \in After(lines, i) : Is(lines, j, "AllowedIPs")})
           Fields(n, g, r) == [key |-> lines[i].is, name |-> n, group |-> g, range |-> r]
<1>1. i \in 2 .. Len(lines) /\ Len(lines) \in Nat /\ DOMAIN lines = 1 .. Len(lines)
  BY RangeOfKey
<1>2. range = lines[i + 1].is
  <2>1. {j \in After(lines, i) : Is(lines, j, "AllowedIPs")} = {i + 1}
    BY RangeOfKey
  <2>2. LastMarked(lines, {i + 1}) = lines[i + 1].is
    <3>1. i + 1 \in Nat
      BY <1>1
    <3>2. QED
      BY <3>1, LastOfOne
  <2>3. QED
    BY <2>1, <2>2, Zenon
<1>3. LastMarked(lines, named) = NameBy(lines, i)
  <2>1. \A j : j \in named <=>
            \/ j = i - 2 /\ Kind(lines, i - 2, "name")
            \/ j = i - 3 /\ Kind(lines, i - 3, "name") /\ Kind(lines, i - 2, "group")
    BY NameOfKey
  <2> HIDE DEF named
  <2>2. CASE Kind(lines, i - 2, "name")
    <3>1. ~Kind(lines, i - 2, "group")
      BY <2>2 DEF Kind, Is
    <3>2. named = {i - 2}
      BY <2>1, <2>2, <3>1
    <3>3. i - 2 \in Nat
      BY <1>1
    <3>4. QED
      BY <2>2, <3>2, <3>3, LastOfOne DEF NameBy
  <2>3. CASE Kind(lines, i - 2, "group") /\ Kind(lines, i - 3, "name")
    <3>1. ~Kind(lines, i - 2, "name")
      BY <2>3 DEF Kind, Is
    <3>2. \A j : j \in named <=> j = i - 3
      BY <2>1, <2>3, <3>1, Zenon
    <3>3. named = {i - 3}
      BY <3>2, Zenon
    <3>4. i - 3 \in 1 .. Len(lines)
      BY <1>1, <2>3, Zenon DEF Kind
    <3>5. i - 3 \in Nat
      BY <1>1, <3>4
    <3>6. QED
      BY <2>3, <3>1, <3>3, <3>5, LastOfOne DEF NameBy
  <2>4. CASE ~Kind(lines, i - 2, "name") /\ ~(Kind(lines, i - 2, "group") /\ Kind(lines, i - 3, "name"))
    <3>1. named = {}
      BY <2>1, <2>4
    <3>2. QED
      BY <1>1, <2>4, <3>1, LastOfOne DEF NameBy
  <2>5. QED
    BY <2>2, <2>3, <2>4
<1>4. grouped = GroupBy(lines, i)
  <2>1. grouped <=> GroupBy(lines, i)
    BY GroupOfKey, Zenon DEF GroupBy
  <2>2. QED
    BY <2>1, Zenon DEF GroupBy
<1>5. PeerAt(lines, i) = Fields(LastMarked(lines, named), grouped, range)
  BY Zenon DEF PeerAt
<1>6. PeerBy(lines, i) = Fields(NameBy(lines, i), GroupBy(lines, i), lines[i + 1].is)
  BY Zenon DEF PeerBy
<1> HIDE DEF named, grouped, range
<1>7. Fields(LastMarked(lines, named), grouped, range) = Fields(NameBy(lines, i), GroupBy(lines, i), lines[i + 1].is)
  BY <1>2, <1>3, <1>4, Zenon
<1>8. QED
  BY <1>5, <1>6, <1>7, Zenon

--------------------------------------------------------------------------------
(* An edit that keeps the lines of a peer together                         *)

Stays(parts, k) == parts[k] # <<>>

(* An edit takes out or changes the lines of a peer together.              *)
KeepsKind(lines, parts, k) ==
    Stays(parts, k) =>
        /\ parts[k][1].line = lines[k].line
        /\ \/ Len(parts[k]) = 1
           \/ Len(parts[k]) = 2 /\ lines[k].line = "name" /\ parts[k][2] = GroupLine

KeepsPeer(lines, parts, k) ==
    /\ Is(lines, k, "Peer") => (Stays(parts, k) <=> Stays(parts, k + 1))
    /\ Is(lines, k, "PublicKey") => (Stays(parts, k) <=> Stays(parts, k + 1))
    /\ Is(lines, k, "name") /\ Kind(lines, k + 1, "Peer") => (Stays(parts, k) <=> Stays(parts, k + 1))
    /\ Is(lines, k, "name") /\ Kind(lines, k + 1, "group") =>
          /\ Stays(parts, k) <=> Stays(parts, k + 2)
          /\ Stays(parts, k + 1) => Stays(parts, k) /\ Len(parts[k]) = 1

KeepsApart(lines, parts, j, k) ==
    Stays(parts, j) /\ Stays(parts, k) /\ parts[j][1] = parts[k][1]
       /\ lines[k].line \in {"PublicKey", "name"} => j = k

Keeps(lines, parts) ==
    \A k \in 1 .. Len(lines) : /\ KeepsKind(lines, parts, k)
                               /\ KeepsPeer(lines, parts, k)
                               /\ \A j \in 1 .. Len(lines) : KeepsApart(lines, parts, j, k)

(* Where the lines come to stand, one or two for each that stays.          *)
StandsAt(lines, out, at, parts, k) ==
    /\ at[k] \in Nat /\ at[k + 1] \in Nat
    /\ ~Stays(parts, k) => at[k + 1] = at[k]
    /\ Stays(parts, k) =>
          /\ at[k] \in 1 .. Len(out) /\ out[at[k]] = parts[k][1] /\ Is(out, at[k], lines[k].line)
          /\ \/ at[k + 1] = at[k] + 1
             \/ /\ at[k + 1] = at[k] + 2 /\ lines[k].line = "name" /\ Len(parts[k]) = 2
                /\ at[k] + 1 \in 1 .. Len(out) /\ out[at[k] + 1] = GroupLine
          /\ Len(parts[k]) = 1 => at[k + 1] = at[k] + 1
          /\ Len(parts[k]) = 2 => at[k + 1] = at[k] + 2

ComesFrom(lines, out, at, parts, p) ==
    \E k \in 1 .. Len(lines) :
        /\ Stays(parts, k)
        /\ \/ p = at[k]
           \/ p = at[k] + 1 /\ at[k + 1] = at[k] + 2 /\ lines[k].line = "name" /\ out[p] = GroupLine

LEMMA OneOrTwo ==
    ASSUME NEW b, b = 1 \/ b = 2
    PROVE  /\ b \in Nat /\ 1 \in 1 .. b /\ (b = 2 => 2 \in 1 .. b)
           /\ \A q \in 1 .. b : q = 1 \/ (q = 2 /\ b = 2)
  OBVIOUS

(* Where the lines come to stand when the edit keeps the lines of a peer   *)
(* together.                                                               *)
LEMMA Standing ==
    ASSUME NEW lines \in Seq(Lines), NEW out, NEW at, NEW parts,
           Edited(lines, out, at, parts), Keeps(lines, parts)
    PROVE  /\ \A k \in 1 .. Len(lines) : StandsAt(lines, out, at, parts, k)
           /\ \A p \in 1 .. Len(out) : ComesFrom(lines, out, at, parts, p)
<1>1. /\ Len(lines) \in Nat /\ out \in Seq(Lines) /\ Len(out) \in Nat
      /\ at \in [1 .. Len(lines) + 1 -> Nat] /\ parts \in [1 .. Len(lines) -> Seq(Lines)]
  BY DEF Edited
<1>2. ASSUME NEW k \in 1 .. Len(lines)
      PROVE  /\ parts[k] \in Seq(Lines) /\ Len(parts[k]) \in Nat /\ at[k] \in Nat /\ at[k + 1] \in Nat
             /\ ~Stays(parts, k) <=> Len(parts[k]) = 0
             /\ at[k + 1] = at[k] + Len(parts[k])
             /\ \A q \in 1 .. Len(parts[k]) :
                   at[k] + q - 1 \in 1 .. Len(out) /\ out[at[k] + q - 1] = parts[k][q]
  <2>1. parts[k] \in Seq(Lines) /\ Len(parts[k]) \in Nat
    BY <1>1
  <2>2. at[k] \in Nat /\ at[k + 1] \in Nat
    <3>1. k \in 1 .. Len(lines) + 1 /\ k + 1 \in 1 .. Len(lines) + 1
      BY <1>1
    <3>2. QED
      BY <1>1, <3>1
  <2>3. ~Stays(parts, k) <=> Len(parts[k]) = 0
    BY <2>1 DEF Stays
  <2>4. QED
    BY <2>1, <2>2, <2>3 DEF Edited
<1>3. ASSUME NEW k \in 1 .. Len(lines), Stays(parts, k)
      PROVE  /\ parts[k][1].line = lines[k].line
             /\ Len(parts[k]) = 1 \/ Len(parts[k]) = 2
             /\ Len(parts[k]) = 2 => lines[k].line = "name" /\ parts[k][2] = GroupLine
  <2>1. /\ parts[k][1].line = lines[k].line
        /\ \/ Len(parts[k]) = 1
           \/ Len(parts[k]) = 2 /\ lines[k].line = "name" /\ parts[k][2] = GroupLine
    BY <1>3, Zenon DEF Keeps, KeepsKind
  <2>2. \A b : b = 1 => b # 2
    OBVIOUS
  <2>3. QED
    BY <2>1, <2>2, Zenon
<1>4. ASSUME NEW k \in 1 .. Len(lines)
      PROVE  StandsAt(lines, out, at, parts, k)
  <2>1. CASE ~Stays(parts, k)
    <3>1. at[k + 1] = at[k] + 0 /\ at[k] \in Nat
      BY <1>2, <2>1
    <3>2. at[k + 1] = at[k]
      BY <3>1
    <3>3. QED
      BY <1>2, <2>1, <3>1, <3>2, Zenon DEF StandsAt
  <2>2. CASE Stays(parts, k)
    <3>1. at[k] \in 1 .. Len(out) /\ out[at[k]] = parts[k][1]
      <4>1. 1 \in 1 .. Len(parts[k])
        <5>1. Len(parts[k]) = 1 \/ Len(parts[k]) = 2
          BY <1>3, <2>2
        <5>2. QED
          BY <5>1, OneOrTwo, Zenon
      <4>2. at[k] + 1 - 1 \in 1 .. Len(out) /\ out[at[k] + 1 - 1] = parts[k][1]
        BY <1>2, <4>1
      <4>3. at[k] + 1 - 1 = at[k]
        BY <1>2
      <4>4. QED
        BY <4>2, <4>3
    <3>2. ASSUME Len(parts[k]) = 2
          PROVE  at[k] + 1 \in 1 .. Len(out) /\ out[at[k] + 1] = GroupLine
      <4>1. 2 \in 1 .. Len(parts[k])
        BY <3>2
      <4>2. at[k] + 2 - 1 \in 1 .. Len(out) /\ out[at[k] + 2 - 1] = parts[k][2]
        BY <1>2, <4>1
      <4>3. at[k] + 2 - 1 = at[k] + 1
        BY <1>2
      <4>4. QED
        BY <1>3, <2>2, <3>2, <4>2, <4>3
    <3>3. Is(out, at[k], lines[k].line)
      BY <1>3, <2>2, <3>1 DEF Is
    <3>4. QED
      BY <1>2, <1>3, <2>2, <3>1, <3>2, <3>3 DEF StandsAt
  <2>3. QED
    BY <2>1, <2>2
<1>5. ASSUME NEW p \in 1 .. Len(out)
      PROVE  ComesFrom(lines, out, at, parts, p)
  <2>1. PICK k \in 1 .. Len(lines) : \E q \in 1 .. Len(parts[k]) : p = at[k] + q - 1
    BY DEF Edited
  <2>2. PICK q \in 1 .. Len(parts[k]) : p = at[k] + q - 1
    BY <2>1
  <2>3. Stays(parts, k)
    <3>1. Len(parts[k]) \in Nat /\ 1 .. Len(parts[k]) # {}
      BY <1>2, <2>2
    <3>2. Len(parts[k]) # 0
      BY <3>1
    <3>3. QED
      BY <1>2, <3>2
  <2>4. q = 1 \/ (q = 2 /\ Len(parts[k]) = 2)
    <3>1. q \in Nat /\ Len(parts[k]) \in Nat
      BY <1>2, <2>2
    <3>2. Len(parts[k]) = 1 \/ Len(parts[k]) = 2
      BY <1>3, <2>3
    <3>3. QED
      BY <2>2, <3>2, OneOrTwo, Zenon
  <2>5. CASE q = 1
    <3>1. p = at[k]
      BY <1>2, <2>2, <2>5
    <3>2. QED
      BY <2>3, <3>1 DEF ComesFrom
  <2>6. CASE q = 2 /\ Len(parts[k]) = 2
    <3>1. p = at[k] + 1 /\ at[k + 1] = at[k] + 2
      <4>1. at[k] \in Nat /\ at[k + 1] = at[k] + Len(parts[k])
        BY <1>2
      <4>2. QED
        BY <2>2, <2>6, <4>1
    <3>2. out[p] = GroupLine /\ lines[k].line = "name"
      <4>1. out[p] = parts[k][2]
        BY <1>2, <2>2, <2>6
      <4>2. QED
        BY <1>3, <2>3, <2>6, <4>1
    <3>3. QED
      BY <2>3, <3>1, <3>2 DEF ComesFrom
  <2>7. QED
    BY <2>4, <2>5, <2>6
<1>6. QED
  BY <1>4, <1>5

Stand(lines, out, at, parts) ==
    /\ Keeps(lines, parts)
    /\ out \in Seq(Lines)
    /\ \A k \in 1 .. Len(lines) : StandsAt(lines, out, at, parts, k)
    /\ \A p \in 1 .. Len(out) : ComesFrom(lines, out, at, parts, p)

LEMMA SequenceDomain ==
    ASSUME NEW lines \in Seq(Lines)
    PROVE  DOMAIN lines = 1 .. Len(lines) /\ Len(lines) \in Nat
  OBVIOUS

LEMMA KindHere ==
    ASSUME NEW lines \in Seq(Lines), NEW k \in DOMAIN lines
    PROVE  /\ k \in 1 .. Len(lines) /\ k \in Nat /\ k - 1 + 1 = k /\ k - 2 + 2 = k /\ k - 2 + 1 = k - 1
           /\ k + 1 - 1 = k
           /\ Len(lines) \in Nat /\ DOMAIN lines = 1 .. Len(lines)
  OBVIOUS

(* A line that stays is there with its kind.                               *)
LEMMA StandsHere ==
    ASSUME NEW lines \in Seq(Lines), NEW out, NEW at, NEW parts, Stand(lines, out, at, parts),
           NEW k, NEW what, Kind(lines, k, what), Stays(parts, k)
    PROVE  Kind(out, at[k], what) /\ at[k] \in Nat /\ at[k + 1] \in Nat /\ k \in 1 .. Len(lines)
           /\ out[at[k]] = parts[k][1]
<1>1. k \in 1 .. Len(lines) /\ lines[k].line = what
  BY KindHere DEF Kind, Is
<1>2. StandsAt(lines, out, at, parts, k)
  BY <1>1 DEF Stand
<1>3. /\ at[k] \in Nat /\ at[k + 1] \in Nat /\ at[k] \in 1 .. Len(out) /\ Is(out, at[k], lines[k].line)
      /\ out[at[k]] = parts[k][1]
  BY <1>2 DEF StandsAt
<1>4. DOMAIN out = 1 .. Len(out)
  <2>1. out \in Seq(Lines)
    BY DEF Stand
  <2>2. QED
    BY <2>1, SequenceDomain
<1>5. QED
  BY <1>1, <1>3, <1>4 DEF Kind

Adjacent(at, k) == at[k + 1] = at[k] + 1

Level(at, k) == at[k + 1] = at[k]

AfterName(out, at, parts, k) ==
    \/ Adjacent(at, k)
    \/ /\ at[k + 1] = at[k] + 2 /\ Len(parts[k]) = 2
       /\ Kind(out, at[k] + 1, "group")

(* A line other than a name is followed by what comes after it.            *)
LEMMA StandsNext ==
    ASSUME NEW lines \in Seq(Lines), NEW out, NEW at, NEW parts, Stand(lines, out, at, parts),
           NEW k, NEW what, Kind(lines, k, what), Stays(parts, k), what # "name"
    PROVE  Adjacent(at, k)
<1>1. k \in 1 .. Len(lines) /\ lines[k].line = what
  BY KindHere DEF Kind, Is
<1>2. StandsAt(lines, out, at, parts, k)
  BY <1>1 DEF Stand
<1>3. QED
  BY <1>1, <1>2 DEF StandsAt, Adjacent

(* After a name stands what comes after it, or a new group line first.     *)
LEMMA StandsNamed ==
    ASSUME NEW lines \in Seq(Lines), NEW out, NEW at, NEW parts, Stand(lines, out, at, parts),
           NEW k, Kind(lines, k, "name"), Stays(parts, k)
    PROVE  AfterName(out, at, parts, k)
<1>1. k \in 1 .. Len(lines) /\ lines[k].line = "name"
  BY KindHere DEF Kind, Is
<1>2. StandsAt(lines, out, at, parts, k)
  BY <1>1 DEF Stand
<1>3. \/ at[k + 1] = at[k] + 1
      \/ /\ at[k + 1] = at[k] + 2 /\ Len(parts[k]) = 2
         /\ at[k] + 1 \in 1 .. Len(out) /\ out[at[k] + 1] = GroupLine
  <2>1. Stays(parts, k) => \/ at[k + 1] = at[k] + 1
                            \/ /\ at[k + 1] = at[k] + 2 /\ lines[k].line = "name" /\ Len(parts[k]) = 2
                               /\ at[k] + 1 \in 1 .. Len(out) /\ out[at[k] + 1] = GroupLine
    BY <1>2, Zenon DEF StandsAt
  <2>2. QED
    BY <2>1, Zenon
<1>4. DOMAIN out = 1 .. Len(out)
  <2>1. out \in Seq(Lines)
    BY DEF Stand
  <2>2. QED
    BY <2>1, SequenceDomain
<1>5. at[k] + 1 \in 1 .. Len(out) /\ out[at[k] + 1] = GroupLine => Kind(out, at[k] + 1, "group")
  BY <1>4, LineFacts DEF Kind, Is
<1>6. QED
  BY <1>3, <1>5 DEF AfterName, Adjacent

LEMMA GoneNext ==
    ASSUME NEW lines \in Seq(Lines), NEW out, NEW at, NEW parts, Stand(lines, out, at, parts),
           NEW k, NEW what, Kind(lines, k, what), ~Stays(parts, k)
    PROVE  Level(at, k)
<1>1. k \in 1 .. Len(lines) /\ lines[k].line = what
  BY KindHere DEF Kind, Is
<1>2. StandsAt(lines, out, at, parts, k)
  BY <1>1 DEF Stand
<1>3. QED
  BY <1>2 DEF StandsAt, Level

(* What the lines that stay are followed by and follow                     *)
LEMMA StandFormed ==
    ASSUME NEW lines \in Seq(Lines), Formed(lines), NEW out, NEW at, NEW parts,
           Stand(lines, out, at, parts), NEW k \in DOMAIN lines, Stays(parts, k)
    PROVE  /\ Is(lines, k, "Peer") => Kind(out, at[k] + 1, "PublicKey")
           /\ Is(lines, k, "PublicKey") => Kind(out, at[k] - 1, "Peer") /\ Kind(out, at[k] + 1, "AllowedIPs")
           /\ Is(lines, k, "AllowedIPs") => Kind(out, at[k] - 1, "PublicKey")
           /\ Is(lines, k, "name") =>
                 \/ Kind(out, at[k] + 1, "Peer")
                 \/ Kind(out, at[k] + 1, "group") /\ Kind(out, at[k] + 2, "Peer")
<1>1. \A i \in 1 .. Len(lines) : KeepsPeer(lines, parts, i)
  BY DEF Stand, Keeps
<1>2. k \in 1 .. Len(lines) /\ k - 1 + 1 = k /\ k + 1 + 1 = k + 2 /\ DOMAIN lines = 1 .. Len(lines)
  BY KindHere
<1>3. \A a \in Nat : a + 1 - 1 = a /\ a + 1 + 1 = a + 2
  OBVIOUS
<1>4. ASSUME NEW i, NEW what, NEW next, Kind(lines, i, what), Kind(lines, i + 1, next),
             what # "name", Stays(parts, i), Stays(parts, i + 1)
      PROVE  /\ Kind(out, at[i] + 1, next)
             /\ Kind(out, at[i + 1] - 1, what)
  <2>1. at[i + 1] = at[i] + 1 /\ at[i] \in Nat
    <3>1. Adjacent(at, i)
      BY <1>4, StandsNext
    <3>2. at[i] \in Nat
      BY <1>4, StandsHere, Zenon
    <3>3. QED
      BY <3>1, <3>2 DEF Adjacent
  <2>2. Kind(out, at[i], what) /\ Kind(out, at[i + 1], next)
    BY <1>4, StandsHere
  <2>3. QED
    BY <1>3, <2>1, <2>2
<1>5. ASSUME NEW i, Kind(lines, i, "group"), Stays(parts, i)
      PROVE  Adjacent(at, i)
  <2>1. ASSUME NEW what, what # "name", Kind(lines, i, what)
        PROVE  Adjacent(at, i)
    BY <1>5, <2>1, StandsNext
  <2>2. QED
    BY <1>5, <2>1
<1>6. ASSUME Is(lines, k, "Peer") PROVE Kind(out, at[k] + 1, "PublicKey")
  <2>1. Kind(lines, k, "Peer") /\ Kind(lines, k + 1, "PublicKey")
    BY <1>6 DEF Formed, Kind
  <2>2. Stays(parts, k + 1)
    BY <1>1, <1>2, <1>6 DEF KeepsPeer
  <2>3. QED
    BY <1>4, <2>1, <2>2
<1>7. ASSUME Is(lines, k, "PublicKey")
      PROVE  Kind(out, at[k] - 1, "Peer") /\ Kind(out, at[k] + 1, "AllowedIPs")
  <2>1. Kind(lines, k, "PublicKey") /\ Kind(lines, k + 1, "AllowedIPs") /\ Kind(lines, k - 1, "Peer")
    BY <1>7 DEF Formed, Kind
  <2>2. Stays(parts, k + 1)
    BY <1>1, <1>2, <1>7 DEF KeepsPeer
  <2>3. Stays(parts, k - 1)
    <3>1. KeepsPeer(lines, parts, k - 1) /\ Is(lines, k - 1, "Peer")
      BY <1>1, <1>2, <2>1 DEF Kind
    <3>2. QED
      BY <1>2, <3>1 DEF KeepsPeer
  <2>4. Kind(out, at[k] + 1, "AllowedIPs")
    BY <1>4, <2>1, <2>2
  <2>5. Kind(out, at[k - 1 + 1] - 1, "Peer")
    BY <1>2, <1>4, <2>1, <2>3
  <2>6. QED
    BY <1>2, <2>4, <2>5
<1>8. ASSUME Is(lines, k, "AllowedIPs") PROVE Kind(out, at[k] - 1, "PublicKey")
  <2>1. Kind(lines, k, "AllowedIPs") /\ Kind(lines, k - 1, "PublicKey")
    BY <1>8 DEF Formed, Kind
  <2>2. Stays(parts, k - 1)
    <3>1. KeepsPeer(lines, parts, k - 1) /\ Is(lines, k - 1, "PublicKey")
      BY <1>1, <1>2, <2>1 DEF Kind
    <3>2. QED
      BY <1>2, <3>1 DEF KeepsPeer
  <2>3. Kind(out, at[k - 1 + 1] - 1, "PublicKey")
    BY <1>2, <1>4, <2>1, <2>2
  <2>4. QED
    BY <1>2, <2>3
<1>9. ASSUME Is(lines, k, "name")
      PROVE  \/ Kind(out, at[k] + 1, "Peer")
             \/ Kind(out, at[k] + 1, "group") /\ Kind(out, at[k] + 2, "Peer")
  <2>1. Kind(lines, k, "name") /\ at[k] \in Nat
    BY <1>9, StandsHere DEF Kind
  <2>2. \/ at[k + 1] = at[k] + 1
        \/ at[k + 1] = at[k] + 2 /\ Kind(out, at[k] + 1, "group")
    <3>1. AfterName(out, at, parts, k)
      BY <1>9, <2>1, StandsNamed
    <3>2. QED
      BY <3>1 DEF AfterName, Adjacent
  <2>3. CASE Kind(lines, k + 1, "Peer")
    <3>1. Stays(parts, k + 1)
      BY <1>1, <1>2, <1>9, <2>3 DEF KeepsPeer
    <3>2. Kind(out, at[k + 1], "Peer")
      BY <2>3, <3>1, StandsHere
    <3>3. QED
      BY <2>2, <3>2
  <2>4. CASE Kind(lines, k + 1, "group") /\ Kind(lines, k + 2, "Peer")
    <3>1. Stays(parts, k + 2) /\ (Stays(parts, k + 1) => Len(parts[k]) = 1)
      BY <1>1, <1>2, <1>9, <2>4 DEF KeepsPeer
    <3>2. Kind(out, at[k + 2], "Peer")
      BY <2>4, <3>1, StandsHere
    <3>3. CASE Stays(parts, k + 1)
      <4>1. at[k + 1] = at[k] + 1
        <5>1. Len(parts[k]) = 1 => at[k + 1] = at[k] + 1
          <6>1. StandsAt(lines, out, at, parts, k)
            BY <1>2 DEF Stand
          <6>2. QED
            BY <6>1 DEF StandsAt
        <5>2. QED
          BY <3>1, <3>3, <5>1
      <4>2. at[k + 1 + 1] = at[k + 1] + 1 /\ Kind(out, at[k + 1], "group")
        <5>1. Kind(lines, k + 1, "group") /\ "group" # "name"
          BY <2>4
        <5>2. Adjacent(at, k + 1)
          BY <3>3, <5>1, <1>5, Zenon
        <5>3. Kind(out, at[k + 1], "group")
          BY <3>3, <5>1, StandsHere, Zenon
        <5>4. QED
          BY <5>2, <5>3 DEF Adjacent
      <4>3. at[k + 2] = at[k] + 2
        <5>1. at[k + 2] = at[k] + 1 + 1
          BY <1>2, <4>1, <4>2, Zenon
        <5>2. QED
          BY <1>3, <2>1, <5>1
      <4>4. QED
        BY <3>2, <4>1, <4>2, <4>3
    <3>4. CASE ~Stays(parts, k + 1)
      <4>1. at[k + 1 + 1] = at[k + 1]
        <5>1. Level(at, k + 1)
          BY <2>4, <3>4, GoneNext
        <5>2. QED
          BY <5>1 DEF Level
      <4>2. QED
        BY <1>2, <2>2, <3>2, <4>1
    <3>5. QED
      BY <3>3, <3>4
  <2>5. QED
    BY <1>9, <2>3, <2>4 DEF Formed
<1>10. QED
  BY <1>6, <1>7, <1>8, <1>9

NewGroup(out, p) == out[p] = GroupLine /\ Kind(out, p - 1, "name")

FirstOf(lines, out, at, parts, p, k) ==
    /\ Stays(parts, k) /\ p = at[k]
    /\ out[p] = parts[k][1] /\ out[p].line = lines[k].line

LEMMA OneBefore ==
    /\ \A a \in Nat : a + 1 - 1 = a /\ a + 2 - 1 = a + 1
    /\ \A a \in Nat : \A b : b = a + 1 => b - 1 = a
    /\ \A a \in Nat : \A b : b = a + 2 => b - 1 = a + 1
  OBVIOUS

(* Each line that comes out is the first of one that stays, or a new group *)
(* line after a name.                                                      *)
LEMMA OutIs ==
    ASSUME NEW lines \in Seq(Lines), NEW out, NEW at, NEW parts, Stand(lines, out, at, parts),
           NEW p \in DOMAIN out
    PROVE  NewGroup(out, p) \/ \E k \in DOMAIN lines : FirstOf(lines, out, at, parts, p, k)
<1>1. out \in Seq(Lines)
  BY DEF Stand
<1>2. p \in 1 .. Len(out) /\ DOMAIN out = 1 .. Len(out) /\ DOMAIN lines = 1 .. Len(lines)
  BY <1>1, SequenceDomain
<1>3. PICK k \in 1 .. Len(lines) :
          /\ Stays(parts, k)
          /\ \/ p = at[k]
             \/ p = at[k] + 1 /\ at[k + 1] = at[k] + 2 /\ lines[k].line = "name" /\ out[p] = GroupLine
  <2>1. ComesFrom(lines, out, at, parts, p)
    BY <1>2 DEF Stand
  <2>2. QED
    BY <2>1, Zenon DEF ComesFrom
<1>4. Kind(lines, k, lines[k].line)
  BY <1>2, <1>3 DEF Kind, Is
<1>5. Kind(out, at[k], lines[k].line) /\ at[k] \in Nat /\ out[at[k]] = parts[k][1]
  <2>1. ASSUME NEW what, Kind(lines, k, what)
        PROVE  Kind(out, at[k], what) /\ at[k] \in Nat /\ out[at[k]] = parts[k][1]
    <3>1. Stays(parts, k)
      BY <1>3
    <3>2. QED
      BY <2>1, <3>1, StandsHere
  <2>2. QED
    BY <1>4, <2>1, Zenon
<1>6. CASE p = at[k]
  <2>1. out[p].line = lines[k].line
    BY <1>5, <1>6 DEF Kind, Is
  <2>2. QED
    BY <1>2, <1>3, <1>5, <1>6, <2>1 DEF FirstOf
<1>7. CASE p = at[k] + 1 /\ lines[k].line = "name" /\ out[p] = GroupLine
  <2>1. p - 1 = at[k]
    BY <1>5, <1>7, OneBefore, Zenon
  <2>2. QED
    BY <1>5, <1>7, <2>1 DEF NewGroup
<1>8. QED
  BY <1>3, <1>6, <1>7

(* Such an edit keeps the form of the file.                                *)
LEMMA EditStaysFormed ==
    ASSUME NEW lines \in Seq(Lines), Formed(lines), NEW out, NEW at, NEW parts,
           Stand(lines, out, at, parts)
    PROVE  WellFormed(out)
<1>1. out \in Seq(Lines)
  BY DEF Stand
<1>2. GroupLine.line = "group"
  BY LineFacts
<1>3. ASSUME NEW p \in DOMAIN out
      PROVE  /\ Is(out, p, "Peer") => Kind(out, p + 1, "PublicKey")
             /\ Is(out, p, "PublicKey") => Kind(out, p - 1, "Peer") /\ Kind(out, p + 1, "AllowedIPs")
             /\ Is(out, p, "AllowedIPs") => Kind(out, p - 1, "PublicKey")
             /\ Is(out, p, "name") =>
                   \/ Kind(out, p + 1, "Peer")
                   \/ Kind(out, p + 1, "group") /\ Kind(out, p + 2, "Peer")
  <2>1. CASE NewGroup(out, p)
    BY <1>2, <2>1 DEF Is, NewGroup
  <2>2. ASSUME NEW k \in DOMAIN lines, FirstOf(lines, out, at, parts, p, k)
        PROVE  /\ Is(out, p, "Peer") => Kind(out, p + 1, "PublicKey")
               /\ Is(out, p, "PublicKey") => Kind(out, p - 1, "Peer") /\ Kind(out, p + 1, "AllowedIPs")
               /\ Is(out, p, "AllowedIPs") => Kind(out, p - 1, "PublicKey")
               /\ Is(out, p, "name") =>
                     \/ Kind(out, p + 1, "Peer")
                     \/ Kind(out, p + 1, "group") /\ Kind(out, p + 2, "Peer")
    <3>1. \A what : Is(out, p, what) <=> Is(lines, k, what)
      BY <2>2 DEF Is, FirstOf
    <3>2. /\ Is(lines, k, "Peer") => Kind(out, at[k] + 1, "PublicKey")
          /\ Is(lines, k, "PublicKey") => Kind(out, at[k] - 1, "Peer") /\ Kind(out, at[k] + 1, "AllowedIPs")
          /\ Is(lines, k, "AllowedIPs") => Kind(out, at[k] - 1, "PublicKey")
          /\ Is(lines, k, "name") =>
                \/ Kind(out, at[k] + 1, "Peer")
                \/ Kind(out, at[k] + 1, "group") /\ Kind(out, at[k] + 2, "Peer")
      BY <2>2, StandFormed DEF FirstOf
    <3>3. p = at[k]
      BY <2>2 DEF FirstOf
    <3>4. QED
      BY <3>1, <3>2, <3>3
  <2>3. QED
    BY <2>1, <2>2, OutIs
<1>4. ASSUME NEW p \in DOMAIN out, NEW r \in DOMAIN out, out[p] = out[r],
             out[p].line \in {"PublicKey", "name"}
      PROVE  p = r
  <2>1. PICK k \in DOMAIN lines : FirstOf(lines, out, at, parts, p, k)
    <3>1. ~NewGroup(out, p)
      BY <1>2, <1>4 DEF NewGroup
    <3>2. QED
      BY <3>1, OutIs
  <2>2. out[r].line \in {"PublicKey", "name"}
    BY <1>4
  <2>3. PICK j \in DOMAIN lines : FirstOf(lines, out, at, parts, r, j)
    <3>1. ~NewGroup(out, r)
      BY <1>2, <2>2 DEF NewGroup
    <3>2. QED
      BY <3>1, OutIs
  <2>4. KeepsApart(lines, parts, j, k)
    <3>1. DOMAIN lines = 1 .. Len(lines)
      BY SequenceDomain
    <3>2. QED
      BY <3>1 DEF Stand, Keeps
  <2>5. j = k
    BY <1>4, <2>1, <2>3, <2>4 DEF KeepsApart, FirstOf
  <2>6. QED
    BY <2>1, <2>3, <2>5 DEF FirstOf
<1>5. QED
  BY <1>1, <1>3, <1>4 DEF WellFormed, Formed, OnceEach

(* Such an edit keeps markers together.                                    *)
LEMMA EditStaysTidy ==
    ASSUME NEW lines \in Seq(Lines), TidyLines(lines), NEW out, NEW at, NEW parts,
           Stand(lines, out, at, parts)
    PROVE  TidyLines(out)
<1>1. \A i \in 1 .. Len(lines) : KeepsPeer(lines, parts, i)
  BY DEF Stand, Keeps
<1>2. GroupLine.line = "group"
  BY LineFacts
<1>3. ASSUME NEW j, Kind(lines, j, "name"), Stays(parts, j), NEW p, p = at[j + 1]
      PROVE  Kind(out, p - 1, "name") \/ (Len(parts[j]) = 2 /\ Kind(out, p - 1, "group"))
  <2>1. Kind(out, at[j], "name") /\ at[j] \in Nat
    BY <1>3, StandsHere
  <2>2. AfterName(out, at, parts, j)
    BY <1>3, StandsNamed
  <2>3. CASE at[j + 1] = at[j] + 1
    <3>1. p - 1 = at[j]
      BY <1>3, <2>1, <2>3, OneBefore, Zenon
    <3>2. QED
      BY <2>1, <3>1
  <2>4. CASE at[j + 1] = at[j] + 2 /\ Len(parts[j]) = 2 /\ Kind(out, at[j] + 1, "group")
    <3>1. p - 1 = at[j] + 1
      BY <1>3, <2>1, <2>4, OneBefore, Zenon
    <3>2. QED
      BY <2>4, <3>1
  <2>5. QED
    BY <2>2, <2>3, <2>4 DEF AfterName, Adjacent
<1>4. ASSUME NEW j, Kind(lines, j, "group"), Stays(parts, j), NEW p, p = at[j + 1]
      PROVE  Kind(out, p - 1, "group")
  <2>1. Kind(out, at[j], "group") /\ at[j] \in Nat
    BY <1>4, StandsHere
  <2>2. ASSUME NEW what, what # "name", Kind(lines, j, what)
        PROVE  Adjacent(at, j)
    BY <1>4, <2>2, StandsNext
  <2>3. Adjacent(at, j)
    BY <1>4, <2>2
  <2>4. p - 1 = at[j]
    BY <1>4, <2>1, <2>3, OneBefore, Zenon DEF Adjacent
  <2>5. QED
    BY <2>1, <2>4
<1>5. ASSUME NEW k \in DOMAIN lines, Stays(parts, k), Is(lines, k, "group")
      PROVE  Kind(out, at[k] - 1, "name")
  <2>1. Kind(lines, k - 1, "name") /\ k - 1 + 1 = k /\ k - 1 \in 1 .. Len(lines)
    <3>1. Kind(lines, k - 1, "name")
      BY <1>5 DEF TidyLines
    <3>2. k - 1 \in DOMAIN lines
      BY <3>1 DEF Kind
    <3>3. QED
      BY <3>1, <3>2, KindHere
  <2>2. Stays(parts, k - 1) /\ Len(parts[k - 1]) = 1
    <3>1. Kind(lines, k - 1 + 1, "group") /\ Is(lines, k - 1, "name")
      BY <1>5, <2>1 DEF Kind
    <3>2. KeepsPeer(lines, parts, k - 1)
      BY <1>1, <2>1
    <3>3. Stays(parts, k - 1 + 1)
      BY <1>5, <2>1
    <3>4. QED
      BY <3>1, <3>2, <3>3, Zenon DEF KeepsPeer
  <2>3. Kind(out, at[k] - 1, "name") \/ Len(parts[k - 1]) = 2
    BY <1>3, <2>1, <2>2
  <2>4. \A b : b = 1 => b # 2
    OBVIOUS
  <2>5. QED
    BY <2>2, <2>3, <2>4, Zenon
<1>6. ASSUME NEW k \in DOMAIN lines, Stays(parts, k), Is(lines, k, "Peer")
      PROVE  Kind(out, at[k] - 1, "name") \/ Kind(out, at[k] - 1, "group")
  <2>1. Kind(lines, k - 1, "name") \/ Kind(lines, k - 1, "group")
    BY <1>6 DEF TidyLines
  <2>2. k - 1 \in DOMAIN lines
    BY <2>1 DEF Kind
  <2>3. k - 1 + 1 = k /\ k - 1 \in 1 .. Len(lines) /\ k - 1 - 1 = k - 2 /\ k - 2 + 1 = k - 1
    BY <2>2, KindHere
  <2>4. CASE Kind(lines, k - 1, "name")
    <3>1. Stays(parts, k - 1)
      <4>1. Kind(lines, k - 1 + 1, "Peer") /\ Is(lines, k - 1, "name")
        BY <1>6, <2>3, <2>4 DEF Kind
      <4>2. KeepsPeer(lines, parts, k - 1)
        BY <1>1, <2>3
      <4>3. Stays(parts, k - 1 + 1)
        BY <1>6, <2>3
      <4>4. QED
        BY <4>1, <4>2, <4>3, Zenon DEF KeepsPeer
    <3>2. QED
      BY <1>3, <2>3, <2>4, <3>1
  <2>5. CASE Kind(lines, k - 1, "group") /\ Stays(parts, k - 1)
    BY <1>4, <2>3, <2>5
  <2>6. CASE Kind(lines, k - 1, "group") /\ ~Stays(parts, k - 1)
    <3>1. Kind(lines, k - 2, "name")
      BY <2>2, <2>3, <2>6 DEF TidyLines, Kind
    <3>2. k - 2 \in 1 .. Len(lines) /\ k - 2 + 2 = k
      <4>1. k - 2 \in DOMAIN lines
        BY <3>1 DEF Kind
      <4>2. QED
        BY <4>1, KindHere
    <3>3. Stays(parts, k - 2)
      <4>1. Kind(lines, k - 2 + 1, "group") /\ Is(lines, k - 2, "name")
        BY <2>3, <2>6, <3>1 DEF Kind
      <4>2. KeepsPeer(lines, parts, k - 2)
        BY <1>1, <3>2
      <4>3. Stays(parts, k - 2 + 2)
        BY <1>6, <3>2
      <4>4. QED
        BY <4>1, <4>2, <4>3, Zenon DEF KeepsPeer
    <3>4. Level(at, k - 1)
      BY <2>6, GoneNext
    <3>5. at[k] = at[k - 2 + 1]
      BY <2>3, <3>4 DEF Level
    <3>6. QED
      BY <1>3, <3>1, <3>3, <3>5
  <2>7. QED
    BY <2>1, <2>4, <2>5, <2>6
<1>7. ASSUME NEW p \in DOMAIN out
      PROVE  /\ Is(out, p, "group") => Kind(out, p - 1, "name")
             /\ Is(out, p, "Peer") => Kind(out, p - 1, "name") \/ Kind(out, p - 1, "group")
  <2>1. CASE NewGroup(out, p)
    BY <1>2, <2>1 DEF Is, NewGroup
  <2>2. ASSUME NEW k \in DOMAIN lines, FirstOf(lines, out, at, parts, p, k)
        PROVE  /\ Is(out, p, "group") => Kind(out, p - 1, "name")
               /\ Is(out, p, "Peer") => Kind(out, p - 1, "name") \/ Kind(out, p - 1, "group")
    BY <1>5, <1>6, <2>2 DEF Is, FirstOf
  <2>3. QED
    BY <2>1, <2>2, OutIs
<1>8. QED
  BY <1>7 DEF TidyLines

--------------------------------------------------------------------------------
(* The two helpers are such edits                                          *)

LEMMA Single == \A l : <<l>> # <<>> /\ <<l>>[1] = l /\ Len(<<l>>) = 1
  OBVIOUS

(* The lines after a marker are reached with the line before them.         *)
LEMMA ReachGoesOn ==
    ASSUME NEW lines \in Seq(Lines), NEW n, NEW k \in DOMAIN lines, k + 1 \in DOMAIN lines,
           ~Is(lines, k + 1, "name")
    PROVE  k \in Reach(lines, n) <=> k + 1 \in Reach(lines, n)
<1>1. k + 1 \in 1 .. Len(lines) 
  BY SequenceDomain
<1>2. lines[k + 1] # NameLine(n)
  BY LineFacts DEF Is
<1>3. ASSUME NEW i \in 1 .. Len(lines), i - 1 = k, lines[i] # NameLine(n), ~Is(lines, i, "name")
      PROVE  i \in Reach(lines, n) <=> k \in Reach(lines, n)
  BY <1>3, ReachStep DEF Is
<1>4. ASSUME NEW i, i = k + 1
      PROVE  i \in Reach(lines, n) <=> k \in Reach(lines, n)
  <2>1. i \in 1 .. Len(lines) /\ i - 1 = k
    <3>1. i \in 1 .. Len(lines)
      BY <1>1, <1>4
    <3>2. k \in Nat
      BY KindHere
    <3>3. QED
      BY <1>4, <3>1, <3>2, OneBefore, Zenon
  <2>2. lines[i] # NameLine(n) /\ ~Is(lines, i, "name")
    BY <1>2, <1>4
  <2>3. QED
    BY <1>3, <2>1, <2>2
<1>5. QED
  BY <1>4

(* What stands beside a line of a formed file                              *)
LEMMA FormedBeside ==
    ASSUME NEW lines \in Seq(Lines), Formed(lines), NEW k \in DOMAIN lines
    PROVE  /\ Is(lines, k, "Peer") => k + 1 \in DOMAIN lines /\ ~Is(lines, k + 1, "name") /\ Is(lines, k + 1, "PublicKey")
           /\ Is(lines, k, "PublicKey") => k + 1 \in DOMAIN lines /\ ~Is(lines, k + 1, "name") /\ Is(lines, k + 1, "AllowedIPs")
  BY DEF Formed, Kind, Is

(* Removal and update take out what they take out of a peer as a whole.    *)
LEMMA RemoveKeeps ==
    ASSUME NEW lines, WellFormed(lines), NEW n
    PROVE  Keeps(lines, Removed(lines, n))
<1> DEFINE parts == Removed(lines, n)
<1>1. lines \in Seq(Lines) /\ Formed(lines) /\ OnceEach(lines)
  BY DEF WellFormed
<1>2. DOMAIN lines = 1 .. Len(lines)
  BY <1>1, SequenceDomain
<1>3. ASSUME NEW k \in 1 .. Len(lines)
      PROVE  /\ Stays(parts, k) <=> k \notin Reach(lines, n)
             /\ Stays(parts, k) => parts[k] = <<lines[k]>>
  BY DEF Stays, Removed
<1> HIDE DEF parts
<1>4. ASSUME NEW k \in 1 .. Len(lines), Stays(parts, k)
      PROVE  parts[k][1] = lines[k] /\ Len(parts[k]) = 1
  BY <1>3, <1>4, Single, Zenon
<1>5. ASSUME NEW k \in DOMAIN lines, k + 1 \in DOMAIN lines, ~Is(lines, k + 1, "name")
      PROVE  Stays(parts, k) <=> Stays(parts, k + 1)
  BY <1>1, <1>2, <1>3, <1>5, ReachGoesOn
<1>6. ASSUME NEW k \in 1 .. Len(lines)
      PROVE  KeepsPeer(lines, parts, k)
  <2>1. /\ Is(lines, k, "Peer") => (Stays(parts, k) <=> Stays(parts, k + 1))
        /\ Is(lines, k, "PublicKey") => (Stays(parts, k) <=> Stays(parts, k + 1))
    BY <1>1, <1>2, <1>5, FormedBeside
  <2>2. ASSUME NEW what, what # "name", Kind(lines, k + 1, what)
        PROVE  Stays(parts, k) <=> Stays(parts, k + 1)
    BY <1>2, <1>5, <2>2 DEF Kind, Is
  <2>3. ASSUME Is(lines, k, "name"), Kind(lines, k + 1, "group")
        PROVE  /\ Stays(parts, k) <=> Stays(parts, k + 2)
               /\ Stays(parts, k + 1) => Stays(parts, k) /\ Len(parts[k]) = 1
    <3>1. Stays(parts, k) <=> Stays(parts, k + 1)
      BY <2>2, <2>3
    <3>2. Kind(lines, k + 2, "Peer") /\ k + 1 + 1 = k + 2
      <4>1. Kind(lines, k + 1, "Peer") \/ Kind(lines, k + 2, "Peer")
        BY <1>1, <1>2, <2>3 DEF Formed
      <4>2. ~Kind(lines, k + 1, "Peer")
        BY <2>3 DEF Kind, Is
      <4>3. QED
        BY <4>1, <4>2
    <3>3. Stays(parts, k + 1) <=> Stays(parts, k + 2)
      <4>1. k + 1 \in DOMAIN lines /\ k + 1 + 1 \in DOMAIN lines /\ ~Is(lines, k + 1 + 1, "name")
        BY <2>3, <3>2 DEF Kind, Is
      <4>2. Stays(parts, k + 1) <=> Stays(parts, k + 1 + 1)
        BY <1>5, <4>1
      <4>3. QED
        BY <3>2, <4>2
    <3>4. QED
      BY <1>4, <3>1, <3>3
  <2>4. QED
    BY <2>1, <2>2, <2>3 DEF KeepsPeer
<1>7. ASSUME NEW k \in 1 .. Len(lines), NEW j \in 1 .. Len(lines)
      PROVE  KeepsApart(lines, parts, j, k)
  <2> SUFFICES ASSUME Stays(parts, j), Stays(parts, k), parts[j][1] = parts[k][1],
                      lines[k].line \in {"PublicKey", "name"}
               PROVE  j = k
    BY DEF KeepsApart
  <2>1. lines[j] = lines[k] /\ lines[j].line \in {"PublicKey", "name"}
    BY <1>4
  <2>2. QED
    BY <1>1, <1>2, <2>1 DEF OnceEach
<1>8. ASSUME NEW k \in 1 .. Len(lines)
      PROVE  KeepsKind(lines, parts, k)
  BY <1>4 DEF KeepsKind
<1>9. QED
  BY <1>6, <1>7, <1>8 DEF Keeps, parts

RenewedIs(lines, n, new, group, r, k, part) ==
    /\ lines[k] = NameLine(n) => /\ part[1] = NameLine(new)
                                 /\ Len(part) = 1 \/ (Len(part) = 2 /\ part[2] = GroupLine)
                                 /\ part = Marked(new, group)
    /\ lines[k] # NameLine(n) /\ k \notin Reach(lines, n) => part = <<lines[k]>>
    /\ lines[k] # NameLine(n) /\ k \in Reach(lines, n) =>
          /\ Is(lines, k, "group") => part = <<>>
          /\ Is(lines, k, "AllowedIPs") => part = <<RangeLine(r)>>
          /\ ~Is(lines, k, "group") /\ ~Is(lines, k, "AllowedIPs") => part = <<lines[k]>>
    /\ part = <<>> <=> lines[k] # NameLine(n) /\ k \in Reach(lines, n) /\ Is(lines, k, "group")
    /\ part # <<>> /\ lines[k] # NameLine(n) =>
          Len(part) = 1 /\ (part = <<lines[k]>> \/ (Is(lines, k, "AllowedIPs") /\ part = <<RangeLine(r)>>))

LEMMA MarkedIs ==
    ASSUME NEW new, NEW group
    PROVE  /\ Marked(new, group)[1] = NameLine(new) /\ Marked(new, group) # <<>>
           /\ \/ Len(Marked(new, group)) = 1
              \/ Len(Marked(new, group)) = 2 /\ Marked(new, group)[2] = GroupLine
<1>1. CASE group
  BY <1>1 DEF Marked
<1>2. CASE ~group
  BY <1>2 DEF Marked
<1>3. QED
  BY <1>1, <1>2

(* What an update makes of each line.                                      *)
LEMMA RenewedParts ==
    ASSUME NEW lines \in Seq(Lines), NEW n, NEW new, NEW group, NEW r, NEW k \in 1 .. Len(lines)
    PROVE  RenewedIs(lines, n, new, group, r, k, Renewed(lines, n, new, group, r)[k])
<1> DEFINE part == UpdatedLine(k \in Reach(lines, n), lines[k], n, new, group, r)
<1>1. Renewed(lines, n, new, group, r)[k] = part
  BY DEF Renewed
<1>2. RenewedIs(lines, n, new, group, r, k, part)
  <2>1. CASE lines[k] = NameLine(n)
    <3>1. part = Marked(new, group)
      BY <2>1, LineFacts DEF UpdatedLine
    <3> HIDE DEF part
    <3>2. QED
      BY <2>1, <3>1, MarkedIs DEF RenewedIs
  <2>2. CASE lines[k] # NameLine(n) /\ k \notin Reach(lines, n)
    <3>1. part = <<lines[k]>>
      BY <2>2 DEF UpdatedLine
    <3> HIDE DEF part
    <3>2. QED
      BY <2>2, <3>1 DEF RenewedIs
  <2>3. CASE lines[k] # NameLine(n) /\ k \in Reach(lines, n) /\ Is(lines, k, "group")
    <3>1. part = <<>>
      BY <2>3 DEF UpdatedLine, Is
    <3> HIDE DEF part
    <3>2. QED
      BY <2>3, <3>1 DEF RenewedIs, Is
  <2>4. CASE lines[k] # NameLine(n) /\ k \in Reach(lines, n) /\ Is(lines, k, "AllowedIPs")
    <3>1. part = <<RangeLine(r)>>
      BY <2>4 DEF UpdatedLine, Is
    <3> HIDE DEF part
    <3>2. QED
      BY <2>4, <3>1 DEF RenewedIs, Is
  <2>5. CASE lines[k] # NameLine(n) /\ ~Is(lines, k, "group") /\ ~Is(lines, k, "AllowedIPs")
    <3>1. part = <<lines[k]>>
      BY <2>5 DEF UpdatedLine, Is
    <3> HIDE DEF part
    <3>2. QED
      BY <2>5, <3>1 DEF RenewedIs, Is
  <2>6. QED
    BY <2>1, <2>2, <2>3, <2>4, <2>5
<1>3. QED
  BY <1>1, <1>2

(* An update keeps the lines of a peer together; the new name is the old   *)
(* one or not in the file (wireguard_peer_update.sh).                      *)
LEMMA UpdateKeeps ==
    ASSUME NEW lines, WellFormed(lines), NEW n, NEW new \in PeerNames, NEW group, NEW r \in Ranges,
           new = n \/ new \notin NamesIn(lines)
    PROVE  Keeps(lines, Renewed(lines, n, new, group, r))
<1> DEFINE parts == Renewed(lines, n, new, group, r)
<1>1. lines \in Seq(Lines) /\ Formed(lines) /\ OnceEach(lines)
  BY DEF WellFormed
<1>2. DOMAIN lines = 1 .. Len(lines)
  BY <1>1, SequenceDomain
<1>3. ASSUME NEW k \in 1 .. Len(lines)
      PROVE  RenewedIs(lines, n, new, group, r, k, parts[k])
  BY <1>1, RenewedParts
<1> HIDE DEF parts
<1>4. ASSUME NEW k \in 1 .. Len(lines)
      PROVE  Stays(parts, k) <=> ~(lines[k] # NameLine(n) /\ k \in Reach(lines, n) /\ Is(lines, k, "group"))
  BY <1>3, Zenon DEF RenewedIs, Stays
<1>5. ASSUME NEW k \in 1 .. Len(lines), ~Is(lines, k, "group")
      PROVE  Stays(parts, k)
  BY <1>4, <1>5
<1>6. ASSUME NEW k \in 1 .. Len(lines), lines[k] = NameLine(n)
      PROVE  /\ parts[k][1] = NameLine(new) /\ Is(lines, k, "name")
             /\ Len(parts[k]) = 1 \/ (Len(parts[k]) = 2 /\ parts[k][2] = GroupLine)
  <2>1. /\ parts[k][1] = NameLine(new)
        /\ Len(parts[k]) = 1 \/ (Len(parts[k]) = 2 /\ parts[k][2] = GroupLine)
    BY <1>3, <1>6, Zenon DEF RenewedIs
  <2>2. Is(lines, k, "name")
    BY <1>6, LineFacts DEF Is
  <2>3. QED
    BY <2>1, <2>2
<1>7. ASSUME NEW k \in 1 .. Len(lines), lines[k] # NameLine(n), Stays(parts, k)
      PROVE  /\ Len(parts[k]) = 1 /\ parts[k][1].line = lines[k].line
             /\ ~Is(lines, k, "AllowedIPs") => parts[k][1] = lines[k]
  <2>1. parts[k] = <<lines[k]>> \/ (Is(lines, k, "AllowedIPs") /\ parts[k] = <<RangeLine(r)>>)
    BY <1>3, <1>7, Zenon DEF RenewedIs, Stays
  <2>2. CASE parts[k] = <<lines[k]>>
    BY <2>2, Single
  <2>3. CASE Is(lines, k, "AllowedIPs") /\ parts[k] = <<RangeLine(r)>>
    <3>1. parts[k][1] = RangeLine(r) /\ Len(parts[k]) = 1
      BY <2>3, Single, Zenon
    <3>2. RangeLine(r).line = "AllowedIPs"
      BY LineFacts
    <3>3. QED
      BY <2>3, <3>1, <3>2 DEF Is
  <2>4. QED
    BY <2>1, <2>2, <2>3
<1>8. ASSUME NEW k \in 1 .. Len(lines)
      PROVE  KeepsKind(lines, parts, k)
  <2>1. CASE lines[k] = NameLine(n)
    BY <1>6, <2>1, LineFacts DEF KeepsKind, Is
  <2>2. CASE lines[k] # NameLine(n)
    BY <1>7, <2>2 DEF KeepsKind
  <2>3. QED
    BY <2>1, <2>2
<1>9. ASSUME NEW k, NEW what, Kind(lines, k, what), what # "group"
      PROVE  Stays(parts, k)
  BY <1>2, <1>5, <1>9 DEF Kind, Is
<1>10. ASSUME NEW k \in 1 .. Len(lines)
       PROVE  KeepsPeer(lines, parts, k)
  <2>1. ASSUME Is(lines, k, "Peer")
        PROVE  Stays(parts, k) /\ Stays(parts, k + 1)
    <3>1. Kind(lines, k, "Peer") /\ Kind(lines, k + 1, "PublicKey")
      BY <1>1, <1>2, <2>1 DEF Formed, Kind
    <3>2. QED
      BY <3>1, <1>9
  <2>2. ASSUME Is(lines, k, "PublicKey")
        PROVE  Stays(parts, k) /\ Stays(parts, k + 1)
    <3>1. Kind(lines, k, "PublicKey") /\ Kind(lines, k + 1, "AllowedIPs")
      BY <1>1, <1>2, <2>2 DEF Formed, Kind
    <3>2. QED
      BY <3>1, <1>9
  <2>3. ASSUME Is(lines, k, "name"), Kind(lines, k + 1, "Peer")
        PROVE  Stays(parts, k) /\ Stays(parts, k + 1)
    <3>1. Kind(lines, k, "name")
      BY <1>2, <2>3 DEF Kind
    <3>2. QED
      BY <2>3, <3>1, <1>9
  <2>4. ASSUME Is(lines, k, "name"), Kind(lines, k + 1, "group")
        PROVE  /\ Stays(parts, k) /\ Stays(parts, k + 2)
               /\ Stays(parts, k + 1) => Len(parts[k]) = 1
    <3>1. Kind(lines, k, "name")
      BY <1>2, <2>4 DEF Kind
    <3>2. Kind(lines, k + 2, "Peer")
      <4>1. Kind(lines, k + 1, "Peer") \/ Kind(lines, k + 2, "Peer")
        BY <1>1, <1>2, <2>4 DEF Formed
      <4>2. ~Kind(lines, k + 1, "Peer")
        BY <2>4 DEF Kind, Is
      <4>3. QED
        BY <4>1, <4>2
    <3>3. Stays(parts, k) /\ Stays(parts, k + 2)
      BY <3>1, <3>2, <1>9
    <3>4. ASSUME Stays(parts, k + 1)
          PROVE  lines[k] # NameLine(n)
      <4>1. k + 1 \in 1 .. Len(lines) /\ k + 1 \in DOMAIN lines /\ Is(lines, k + 1, "group")
        BY <1>2, <2>4 DEF Kind
      <4>2. ~Is(lines, k + 1, "name") /\ lines[k + 1] # NameLine(n)
        BY <4>1, LineFacts DEF Is
      <4>3. k + 1 \notin Reach(lines, n)
        BY <1>4, <3>4, <4>1, <4>2
      <4>4. k \notin Reach(lines, n)
        BY <1>1, <1>2, <4>1, <4>2, <4>3, ReachGoesOn
      <4>5. QED
        BY <1>1, <4>4, ReachStep
    <3>5. QED
      BY <1>7, <3>3, <3>4
  <2>5. QED
    BY <2>1, <2>2, <2>3, <2>4 DEF KeepsPeer
<1>11. ASSUME NEW k \in 1 .. Len(lines), NEW j \in 1 .. Len(lines)
       PROVE  KeepsApart(lines, parts, j, k)
  <2> SUFFICES ASSUME Stays(parts, j), Stays(parts, k), parts[j][1] = parts[k][1],
                      lines[k].line \in {"PublicKey", "name"}
               PROVE  j = k
    BY DEF KeepsApart
  <2>1. ASSUME NEW i \in 1 .. Len(lines), lines[i] # NameLine(n), Stays(parts, i), parts[i][1] = NameLine(new)
        PROVE  FALSE
    <3>1. lines[i].line = "name"
      <4>1. parts[i][1].line = lines[i].line
        BY <1>7, <2>1
      <4>2. NameLine(new).line = "name"
        BY LineFacts
      <4>3. QED
        BY <2>1, <4>1, <4>2
    <3>2. lines[i] = NameLine(new)
      BY <1>7, <2>1, <3>1 DEF Is
    <3>3. new \in NamesIn(lines)
      <4>1. lines[i].is = new
        BY <3>2, LineFacts
      <4>2. i \in {j0 \in DOMAIN lines : Is(lines, j0, "name")}
        BY <1>2, <3>1 DEF Is
      <4>3. QED
        BY <4>1, <4>2, Zenon DEF NamesIn
    <3>4. QED
      BY <2>1, <3>2, <3>3
  <2>2. lines[j] = NameLine(n) <=> lines[k] = NameLine(n)
    BY <1>6, <2>1
  <2>3. CASE lines[k] = NameLine(n)
    BY <1>1, <1>2, <2>2, <2>3 DEF OnceEach
  <2>4. CASE lines[k] # NameLine(n)
    <3>1. parts[k][1] = lines[k] /\ parts[j][1].line = lines[j].line
      BY <1>7, <2>2, <2>4 DEF Is
    <3>2. parts[j][1] = lines[j]
      BY <1>7, <2>2, <2>4, <3>1 DEF Is
    <3>3. QED
      BY <1>1, <1>2, <3>1, <3>2 DEF OnceEach
  <2>5. QED
    BY <2>3, <2>4
<1>12. QED
  BY <1>8, <1>10, <1>11 DEF Keeps, parts

(* The edits keep a file formed and tidy.                                  *)
LEMMA EditKeeps ==
    ASSUME NEW lines, WellFormed(lines), NEW out, NEW at, NEW parts, Edited(lines, out, at, parts),
           Keeps(lines, parts)
    PROVE  Stand(lines, out, at, parts) /\ WellFormed(out) /\ (TidyLines(lines) => TidyLines(out))
<1>1. lines \in Seq(Lines) /\ Formed(lines)
  BY DEF WellFormed
<1>2. Stand(lines, out, at, parts)
  <2>1. out \in Seq(Lines)
    BY DEF Edited
  <2>2. QED
    BY <1>1, <2>1, Standing DEF Stand
<1>3. WellFormed(out)
  BY <1>1, <1>2, EditStaysFormed
<1>4. TidyLines(lines) => TidyLines(out)
  BY <1>1, <1>2, EditStaysTidy
<1>5. QED
  BY <1>2, <1>3, <1>4

(* What wireguard_peer_remove.sh writes has the form again.                *)
LEMMA RemoveIsSound ==
    ASSUME NEW lines, WellFormed(lines), NEW n
    PROVE  /\ WellFormed(RemovePeer(lines, n))
           /\ TidyLines(lines) => TidyLines(RemovePeer(lines, n))
<1>1. lines \in Seq(Lines)
  BY DEF WellFormed
<1>2. PICK at : Edited(lines, RemovePeer(lines, n), at, Removed(lines, n))
  BY <1>1, RemoveEdits
<1>3. Keeps(lines, Removed(lines, n))
  BY RemoveKeeps
<1>4. QED
  BY <1>2, <1>3, EditKeeps

(* What wireguard_peer_update.sh writes has the form again.                *)
LEMMA UpdateIsSound ==
    ASSUME NEW lines, WellFormed(lines), NEW n, NEW new \in PeerNames, NEW group, NEW r \in Ranges,
           new = n \/ new \notin NamesIn(lines)
    PROVE  /\ WellFormed(UpdatePeer(lines, n, new, group, r))
           /\ TidyLines(lines) => TidyLines(UpdatePeer(lines, n, new, group, r))
<1>1. lines \in Seq(Lines)
  BY DEF WellFormed
<1>2. PICK at : Edited(lines, UpdatePeer(lines, n, new, group, r), at, Renewed(lines, n, new, group, r))
  BY <1>1, UpdateEdits
<1>3. Keeps(lines, Renewed(lines, n, new, group, r))
  BY UpdateKeeps
<1>4. QED
  BY <1>2, <1>3, EditKeeps

--------------------------------------------------------------------------------
(* Files joined one after the other                                        *)

(* Two sequences with no name and no key in common                         *)
Disjoint(a, b) ==
    \A i \in DOMAIN a, j \in DOMAIN b : a[i] = b[j] => a[i].line \notin {"PublicKey", "name"}

(* Where the lines of two files stand in their concatenation.              *)
LEMMA AppendedAt ==
    ASSUME NEW a \in Seq(Lines), NEW b \in Seq(Lines)
    PROVE  /\ a \o b \in Seq(Lines)
           /\ \A i \in DOMAIN a : i \in DOMAIN (a \o b) /\ (a \o b)[i] = a[i]
           /\ \A j \in DOMAIN b : Len(a) + j \in DOMAIN (a \o b) /\ (a \o b)[Len(a) + j] = b[j]
           /\ \A p \in DOMAIN (a \o b) : p \in DOMAIN a \/ \E j \in DOMAIN b : p = Len(a) + j
<1>1. /\ a \o b \in Seq(Lines) /\ Len(a \o b) = Len(a) + Len(b) /\ Len(a) \in Nat /\ Len(b) \in Nat
      /\ DOMAIN (a \o b) = 1 .. Len(a) + Len(b) /\ DOMAIN a = 1 .. Len(a) /\ DOMAIN b = 1 .. Len(b)
  OBVIOUS
<1>2. \A p \in 1 .. Len(a) + Len(b) : (a \o b)[p] = IF p <= Len(a) THEN a[p] ELSE b[p - Len(a)]
  OBVIOUS
<1>3. ASSUME NEW m \in Nat, NEW n \in Nat
      PROVE  /\ \A i \in 1 .. m : i \in 1 .. m + n /\ i <= m
             /\ \A j \in 1 .. n : m + j \in 1 .. m + n /\ ~(m + j <= m) /\ m + j - m = j
             /\ \A p \in 1 .. m + n : p \in 1 .. m \/ (p - m \in 1 .. n /\ p = m + (p - m))
  OBVIOUS
<1>4. /\ \A i \in 1 .. Len(a) : i \in 1 .. Len(a) + Len(b) /\ i <= Len(a)
      /\ \A j \in 1 .. Len(b) : Len(a) + j \in 1 .. Len(a) + Len(b) /\ ~(Len(a) + j <= Len(a)) /\ Len(a) + j - Len(a) = j
      /\ \A p \in 1 .. Len(a) + Len(b) : p \in 1 .. Len(a) \/ (p - Len(a) \in 1 .. Len(b) /\ p = Len(a) + (p - Len(a)))
  BY <1>1, <1>3
<1>5. ASSUME NEW i \in DOMAIN a
      PROVE  i \in DOMAIN (a \o b) /\ (a \o b)[i] = a[i]
  BY <1>1, <1>2, <1>4
<1>6. ASSUME NEW j \in DOMAIN b
      PROVE  Len(a) + j \in DOMAIN (a \o b) /\ (a \o b)[Len(a) + j] = b[j]
  BY <1>1, <1>2, <1>4
<1>7. ASSUME NEW p \in DOMAIN (a \o b)
      PROVE  p \in DOMAIN a \/ \E j \in DOMAIN b : p = Len(a) + j
  <2>1. p \in 1 .. Len(a) \/ (p - Len(a) \in 1 .. Len(b) /\ p = Len(a) + (p - Len(a)))
    BY <1>1, <1>4
  <2>2. QED
    BY <1>1, <2>1, Zenon
<1>8. QED
  BY <1>1, <1>5, <1>6, <1>7

LEMMA AppendedKinds ==
    ASSUME NEW a \in Seq(Lines), NEW b \in Seq(Lines), NEW i, NEW what
    PROVE  /\ Kind(a, i, what) => Kind(a \o b, i, what)
           /\ Kind(b, i, what) => Kind(a \o b, Len(a) + i, what)
  BY AppendedAt DEF Kind, Is

(* What is asked of a line beside others is so however lines are joined.   *)
LEMMA AppendedStaysFormed ==
    ASSUME NEW a, NEW b, WellFormed(a), WellFormed(b), Disjoint(a, b)
    PROVE  WellFormed(a \o b)
<1>1. a \in Seq(Lines) /\ b \in Seq(Lines) /\ Formed(a) /\ Formed(b) /\ OnceEach(a) /\ OnceEach(b)
  BY DEF WellFormed
<1>2. ASSUME NEW s, Formed(s), NEW i \in DOMAIN s, NEW p, NEW l, l = a \o b, l[p] = s[i],
             \A what : /\ Kind(s, i + 1, what) => Kind(l, p + 1, what)
                       /\ Kind(s, i + 2, what) => Kind(l, p + 2, what)
                       /\ Kind(s, i - 1, what) => Kind(l, p - 1, what)
      PROVE  /\ Is(l, p, "Peer") => Kind(l, p + 1, "PublicKey")
             /\ Is(l, p, "PublicKey") => Kind(l, p - 1, "Peer") /\ Kind(l, p + 1, "AllowedIPs")
             /\ Is(l, p, "AllowedIPs") => Kind(l, p - 1, "PublicKey")
             /\ Is(l, p, "name") =>
                   \/ Kind(l, p + 1, "Peer")
                   \/ Kind(l, p + 1, "group") /\ Kind(l, p + 2, "Peer")
  <2>1. \A what : Is(l, p, what) <=> Is(s, i, what)
    BY <1>2 DEF Is
  <2>2. QED
    BY <1>2, <2>1 DEF Formed
<1>3. Formed(a \o b)
  <2> SUFFICES ASSUME NEW p \in DOMAIN (a \o b)
               PROVE  /\ Is(a \o b, p, "Peer") => Kind(a \o b, p + 1, "PublicKey")
                      /\ Is(a \o b, p, "PublicKey") => Kind(a \o b, p - 1, "Peer") /\ Kind(a \o b, p + 1, "AllowedIPs")
                      /\ Is(a \o b, p, "AllowedIPs") => Kind(a \o b, p - 1, "PublicKey")
                      /\ Is(a \o b, p, "name") =>
                            \/ Kind(a \o b, p + 1, "Peer")
                            \/ Kind(a \o b, p + 1, "group") /\ Kind(a \o b, p + 2, "Peer")
    BY DEF Formed
  <2>1. CASE p \in DOMAIN a
    <3>1. (a \o b)[p] = a[p]
      BY <1>1, <2>1, AppendedAt
    <3>2. \A i, what : Kind(a, i, what) => Kind(a \o b, i, what)
      BY <1>1, AppendedKinds
    <3>3. QED
      BY <1>1, <1>2, <2>1, <3>1, <3>2
  <2>2. ASSUME NEW j \in DOMAIN b, p = Len(a) + j
        PROVE  /\ Is(a \o b, p, "Peer") => Kind(a \o b, p + 1, "PublicKey")
               /\ Is(a \o b, p, "PublicKey") => Kind(a \o b, p - 1, "Peer") /\ Kind(a \o b, p + 1, "AllowedIPs")
               /\ Is(a \o b, p, "AllowedIPs") => Kind(a \o b, p - 1, "PublicKey")
               /\ Is(a \o b, p, "name") =>
                     \/ Kind(a \o b, p + 1, "Peer")
                     \/ Kind(a \o b, p + 1, "group") /\ Kind(a \o b, p + 2, "Peer")
    <3>1. (a \o b)[p] = b[j]
      BY <1>1, <2>2, AppendedAt
    <3>2. \A i, what : Kind(b, i, what) => Kind(a \o b, Len(a) + i, what)
      BY <1>1, AppendedKinds
    <3>3. Len(a) + (j + 1) = p + 1 /\ Len(a) + (j + 2) = p + 2 /\ Len(a) + (j - 1) = p - 1
      <4>1. Len(a) \in Nat /\ j \in Nat
        BY <1>1, SequenceDomain
      <4>2. QED
        BY <2>2, <4>1
    <3>4. \A what : /\ Kind(b, j + 1, what) => Kind(a \o b, p + 1, what)
                    /\ Kind(b, j + 2, what) => Kind(a \o b, p + 2, what)
                    /\ Kind(b, j - 1, what) => Kind(a \o b, p - 1, what)
      BY <3>2, <3>3, Zenon
    <3>5. QED
      BY <1>1, <1>2, <3>1, <3>4
  <2>3. QED
    BY <1>1, <2>1, <2>2, AppendedAt
<1>4. OnceEach(a \o b)
  <2> SUFFICES ASSUME NEW p \in DOMAIN (a \o b), NEW r \in DOMAIN (a \o b), (a \o b)[p] = (a \o b)[r],
                      (a \o b)[p].line \in {"PublicKey", "name"}
               PROVE  p = r
    BY DEF OnceEach
  <2>1. CASE p \in DOMAIN a /\ r \in DOMAIN a
    BY <1>1, <2>1, AppendedAt DEF OnceEach
  <2>2. ASSUME NEW j \in DOMAIN b, p = Len(a) + j, r \in DOMAIN a
        PROVE  FALSE
    <3>1. (a \o b)[p] = b[j] /\ (a \o b)[r] = a[r]
      BY <1>1, <2>2, AppendedAt
    <3>2. QED
      BY <2>2, <3>1 DEF Disjoint
  <2>3. ASSUME NEW j \in DOMAIN b, r = Len(a) + j, p \in DOMAIN a
        PROVE  FALSE
    <3>1. (a \o b)[r] = b[j] /\ (a \o b)[p] = a[p]
      BY <1>1, <2>3, AppendedAt
    <3>2. QED
      BY <2>3, <3>1 DEF Disjoint
  <2>4. ASSUME NEW i \in DOMAIN b, p = Len(a) + i, NEW j \in DOMAIN b, r = Len(a) + j
        PROVE  p = r
    <3>1. (a \o b)[p] = b[i] /\ (a \o b)[r] = b[j]
      BY <1>1, <2>4, AppendedAt
    <3>2. i = j
      BY <1>1, <3>1 DEF OnceEach
    <3>3. QED
      BY <2>4, <3>2
  <2>5. QED
    BY <1>1, <2>1, <2>2, <2>3, <2>4, AppendedAt
<1>5. a \o b \in Seq(Lines)
  BY <1>1
<1>6. QED
  BY <1>3, <1>4, <1>5 DEF WellFormed

(* Two files with their markers together keep them together.               *)
LEMMA AppendedStaysTidy ==
    ASSUME NEW a \in Seq(Lines), NEW b \in Seq(Lines), TidyLines(a), TidyLines(b)
    PROVE  TidyLines(a \o b)
<1> SUFFICES ASSUME NEW p \in DOMAIN (a \o b)
             PROVE  /\ Is(a \o b, p, "group") => Kind(a \o b, p - 1, "name")
                    /\ Is(a \o b, p, "Peer") => Kind(a \o b, p - 1, "name") \/ Kind(a \o b, p - 1, "group")
  BY DEF TidyLines
<1>1. CASE p \in DOMAIN a
  <2>1. (a \o b)[p] = a[p]
    BY <1>1, AppendedAt
  <2>2. \A i, what : Kind(a, i, what) => Kind(a \o b, i, what)
    BY AppendedKinds
  <2>3. QED
    BY <1>1, <2>1, <2>2 DEF TidyLines, Is
<1>2. ASSUME NEW j \in DOMAIN b, p = Len(a) + j
      PROVE  /\ Is(a \o b, p, "group") => Kind(a \o b, p - 1, "name")
             /\ Is(a \o b, p, "Peer") => Kind(a \o b, p - 1, "name") \/ Kind(a \o b, p - 1, "group")
  <2>1. (a \o b)[p] = b[j]
    BY <1>2, AppendedAt
  <2>2. \A i, what : Kind(b, i, what) => Kind(a \o b, Len(a) + i, what)
    BY AppendedKinds
  <2>3. Len(a) + (j - 1) = p - 1
    <3>1. Len(a) \in Nat /\ j \in Nat
      BY SequenceDomain
    <3>2. QED
      BY <1>2, <3>1
  <2>4. \A what : Kind(b, j - 1, what) => Kind(a \o b, p - 1, what)
    BY <2>2, <2>3, Zenon
  <2>5. QED
    BY <2>1, <2>4 DEF TidyLines, Is
<1>3. QED
  BY <1>1, <1>2, AppendedAt

--------------------------------------------------------------------------------
(* The lines of one peer                                                   *)

(* The lines of one peer, without and with its markers                     *)
Fields(k, r) == <<Header, KeyLine(k), RangeLine(r)>>

OfPeer(s, n, k) ==
    /\ WellFormed(s)
    /\ \A i \in DOMAIN s : /\ Is(s, i, "PublicKey") => s[i] = KeyLine(k)
                           /\ Is(s, i, "name") => n # Nil /\ s[i] = NameLine(n)

StartsPeer(s) == Kind(s, 1, "Peer") \/ (Kind(s, 1, "group") /\ Kind(s, 2, "Peer"))

LEMMA OneToThree == \A i : i \in 1 .. 3 => i = 1 \/ i = 2 \/ i = 3
  OBVIOUS

(* The section of a peer without markers has the form.                     *)
LEMMA FieldsAreFormed ==
    ASSUME NEW n, NEW k \in PublicKeys, NEW r \in Ranges
    PROVE  /\ OfPeer(Fields(k, r), n, k) /\ Kind(Fields(k, r), 1, "Peer")
           /\ \A i \in DOMAIN Fields(k, r) : /\ ~Is(Fields(k, r), i, "name") /\ ~Is(Fields(k, r), i, "group")
                                             /\ Is(Fields(k, r), i, "Peer") => i = 1
<1> DEFINE s == Fields(k, r)
<1>1. Header \in Lines /\ KeyLine(k) \in Lines /\ RangeLine(r) \in Lines
  BY LineFacts
<1>2. /\ Header.line = "Peer" /\ KeyLine(k).line = "PublicKey" /\ RangeLine(r).line = "AllowedIPs"
  BY LineFacts
<1>3. s \in Seq(Lines) /\ s[1] = Header /\ s[2] = KeyLine(k) /\ s[3] = RangeLine(r) /\ Len(s) = 3
  BY <1>1 DEF Fields
<1> HIDE DEF s
<1>4. DOMAIN s = 1 .. 3
  BY <1>3, SequenceDomain
<1>5. 1 \in 1 .. 3 /\ 2 \in 1 .. 3 /\ 3 \in 1 .. 3 /\ 1 + 1 = 2 /\ 2 + 1 = 3 /\ 2 - 1 = 1 /\ 3 - 1 = 2
  OBVIOUS
<1>6. Kind(s, 1, "Peer") /\ Kind(s, 2, "PublicKey") /\ Kind(s, 3, "AllowedIPs")
  BY <1>2, <1>3, <1>4, <1>5 DEF Kind, Is
<1>7. ASSUME NEW i \in DOMAIN s
      PROVE  /\ Is(s, i, "Peer") => i = 1
             /\ Is(s, i, "PublicKey") => i = 2 /\ s[i] = KeyLine(k)
             /\ Is(s, i, "AllowedIPs") => i = 3
             /\ ~Is(s, i, "name") /\ ~Is(s, i, "group")
  <2>1. CASE i = 1
    BY <1>2, <1>3, <2>1 DEF Is
  <2>2. CASE i = 2
    BY <1>2, <1>3, <2>2 DEF Is
  <2>3. CASE i = 3
    BY <1>2, <1>3, <2>3 DEF Is
  <2>4. QED
    BY <1>4, <2>1, <2>2, <2>3, OneToThree
<1>8. Formed(s)
  BY <1>5, <1>6, <1>7 DEF Formed
<1>9. OnceEach(s)
  <2> SUFFICES ASSUME NEW i \in DOMAIN s, NEW j \in DOMAIN s, s[i] = s[j], s[i].line \in {"PublicKey", "name"}
               PROVE  i = j
    BY DEF OnceEach
  <2>1. Is(s, i, "PublicKey") \/ Is(s, i, "name")
    BY DEF Is
  <2>2. Is(s, j, "PublicKey") \/ Is(s, j, "name")
    BY DEF Is
  <2>3. QED
    BY <1>7, <2>1, <2>2
<1>10. WellFormed(s)
  BY <1>3, <1>8, <1>9 DEF WellFormed
<1>11. QED
  BY <1>6, <1>7, <1>10 DEF OfPeer, s

LEMMA LineAlone ==
    ASSUME NEW l \in Lines
    PROVE  <<l>> \in Seq(Lines) /\ DOMAIN <<l>> = {1} /\ Len(<<l>>) = 1 /\ <<l>>[1] = l
<1>1. <<l>> \in Seq(Lines)
  OBVIOUS
<1>2. Len(<<l>>) = 1 /\ <<l>>[1] = l
  OBVIOUS
<1>3. DOMAIN <<l>> = {1}
  OBVIOUS
<1>4. QED
  BY <1>1, <1>2, <1>3

(* A file behind one more line.                                            *)
LEMMA OneLine ==
    ASSUME NEW l \in Lines, NEW s \in Seq(Lines)
    PROVE  /\ <<l>> \o s \in Seq(Lines) /\ 1 \in DOMAIN (<<l>> \o s) /\ (<<l>> \o s)[1] = l
           /\ \A j \in DOMAIN s : 1 + j \in DOMAIN (<<l>> \o s) /\ (<<l>> \o s)[1 + j] = s[j]
           /\ \A i, what : Kind(s, i, what) => Kind(<<l>> \o s, 1 + i, what)
           /\ \A p \in DOMAIN (<<l>> \o s) : p = 1 \/ \E j \in DOMAIN s : p = 1 + j
<1> DEFINE a == <<l>>
<1>1. a \in Seq(Lines) /\ DOMAIN a = {1} /\ Len(a) = 1 /\ a[1] = l
  BY LineAlone
<1> HIDE DEF a
<1>2. \A i, what : Kind(s, i, what) => Kind(a \o s, Len(a) + i, what)
  BY <1>1, AppendedKinds
<1>3. \A i, what : Kind(s, i, what) => Kind(a \o s, 1 + i, what)
  BY <1>1, <1>2
<1>4. /\ a \o s \in Seq(Lines)
      /\ \A i \in DOMAIN a : i \in DOMAIN (a \o s) /\ (a \o s)[i] = a[i]
      /\ \A j \in DOMAIN s : Len(a) + j \in DOMAIN (a \o s) /\ (a \o s)[Len(a) + j] = s[j]
      /\ \A p \in DOMAIN (a \o s) : p \in DOMAIN a \/ \E j \in DOMAIN s : p = Len(a) + j
  BY <1>1, AppendedAt
<1>5. /\ 1 \in DOMAIN (a \o s) /\ (a \o s)[1] = l
  BY <1>1, <1>4
<1>6. \A j \in DOMAIN s : 1 + j \in DOMAIN (a \o s) /\ (a \o s)[1 + j] = s[j]
  BY <1>1, <1>4
<1>7. \A p \in DOMAIN (a \o s) : p = 1 \/ \E j \in DOMAIN s : p = 1 + j
  BY <1>1, <1>4
<1>8. QED
  BY <1>3, <1>4, <1>5, <1>6, <1>7 DEF a

(* A group marker before a peer keeps the form.                            *)
LEMMA GroupedIsFormed ==
    ASSUME NEW s, NEW n, NEW k, OfPeer(s, n, k)
    PROVE  OfPeer(<<GroupLine>> \o s, n, k)
<1>1. WellFormed(s) /\ s \in Seq(Lines) /\ GroupLine \in Lines /\ GroupLine.line = "group"
  BY LineFacts DEF OfPeer, WellFormed
<1>2. <<GroupLine>> \in Seq(Lines) /\ DOMAIN <<GroupLine>> = {1} /\ <<GroupLine>>[1] = GroupLine
  BY <1>1, LineAlone
<1>3. WellFormed(<<GroupLine>>)
  BY <1>1, <1>2 DEF WellFormed, Formed, OnceEach, Is
<1>4. Disjoint(<<GroupLine>>, s)
  BY <1>1, <1>2 DEF Disjoint
<1>5. WellFormed(<<GroupLine>> \o s)
  BY <1>1, <1>3, <1>4, AppendedStaysFormed
<1>6. ASSUME NEW p \in DOMAIN (<<GroupLine>> \o s)
      PROVE  /\ Is(<<GroupLine>> \o s, p, "PublicKey") => (<<GroupLine>> \o s)[p] = KeyLine(k)
             /\ Is(<<GroupLine>> \o s, p, "name") => n # Nil /\ (<<GroupLine>> \o s)[p] = NameLine(n)
  <2>1. CASE p = 1
    <3>1. (<<GroupLine>> \o s)[p] = GroupLine
      BY <1>1, <2>1, OneLine
    <3>2. QED
      BY <1>1, <3>1 DEF Is
  <2>2. ASSUME NEW j \in DOMAIN s, p = 1 + j
        PROVE  /\ Is(<<GroupLine>> \o s, p, "PublicKey") => (<<GroupLine>> \o s)[p] = KeyLine(k)
               /\ Is(<<GroupLine>> \o s, p, "name") => n # Nil /\ (<<GroupLine>> \o s)[p] = NameLine(n)
    <3>1. (<<GroupLine>> \o s)[p] = s[j]
      BY <1>1, <2>2, OneLine
    <3>2. QED
      BY <3>1 DEF OfPeer, Is
  <2>3. QED
    BY <1>1, <2>1, <2>2, OneLine
<1>7. QED
  BY <1>5, <1>6 DEF OfPeer

LEMMA OneFurther ==
    ASSUME NEW m \in Nat, NEW j \in 1 .. m
    PROVE  1 + (j + 1) = (1 + j) + 1 /\ 1 + (j + 2) = (1 + j) + 2 /\ 1 + (j - 1) = (1 + j) - 1 /\ 1 + j # 1
  OBVIOUS

(* A name marker before a peer keeps the form.                             *)
LEMMA NamedIsFormed ==
    ASSUME NEW s, NEW n \in PeerNames, n # Nil, NEW k, OfPeer(s, n, k), StartsPeer(s),
           \A i \in DOMAIN s : ~Is(s, i, "name")
    PROVE  OfPeer(<<NameLine(n)>> \o s, n, k)
<1> DEFINE t == <<NameLine(n)>> \o s
<1>1. /\ Formed(s) /\ OnceEach(s) /\ s \in Seq(Lines) /\ NameLine(n) \in Lines
      /\ NameLine(n).line = "name" /\ DOMAIN s = 1 .. Len(s)
  BY LineFacts, SequenceDomain DEF OfPeer, WellFormed
<1>2. /\ t \in Seq(Lines) /\ t[1] = NameLine(n)
      /\ \A j \in DOMAIN s : t[1 + j] = s[j]
      /\ \A i, what : Kind(s, i, what) => Kind(t, 1 + i, what)
      /\ \A p \in DOMAIN t : p = 1 \/ \E j \in DOMAIN s : p = 1 + j
  BY <1>1, OneLine
<1> HIDE DEF t
<1>3. \A j \in DOMAIN s : 1 + (j + 1) = (1 + j) + 1 /\ 1 + (j + 2) = (1 + j) + 2 /\ 1 + (j - 1) = (1 + j) - 1
                          /\ 1 + j # 1
  BY <1>1, SequenceDomain, OneFurther
<1>4. Formed(t)
  <2>1. ASSUME NEW p, p = 1
        PROVE  /\ t[p].line = "name"
               /\ Kind(t, p + 1, "Peer") \/ (Kind(t, p + 1, "group") /\ Kind(t, p + 2, "Peer"))
    BY <1>1, <1>2, <2>1 DEF StartsPeer
  <2>2. ASSUME NEW j \in DOMAIN s, NEW p, p = 1 + j
        PROVE  /\ \A what : /\ Is(t, p, what) <=> Is(s, j, what)
                            /\ Kind(s, j + 1, what) => Kind(t, p + 1, what)
                            /\ Kind(s, j + 2, what) => Kind(t, p + 2, what)
                            /\ Kind(s, j - 1, what) => Kind(t, p - 1, what)
    <3>1. t[p] = s[j]
      BY <1>2, <2>2
    <3>2. 1 + (j + 1) = p + 1 /\ 1 + (j + 2) = p + 2 /\ 1 + (j - 1) = p - 1
      BY <1>3, <2>2
    <3>3. QED
      BY <1>2, <3>1, <3>2, Zenon DEF Is
  <2>3. ASSUME NEW p \in DOMAIN t
        PROVE  /\ Is(t, p, "Peer") => Kind(t, p + 1, "PublicKey")
               /\ Is(t, p, "PublicKey") => Kind(t, p - 1, "Peer") /\ Kind(t, p + 1, "AllowedIPs")
               /\ Is(t, p, "AllowedIPs") => Kind(t, p - 1, "PublicKey")
               /\ Is(t, p, "name") =>
                     \/ Kind(t, p + 1, "Peer")
                     \/ Kind(t, p + 1, "group") /\ Kind(t, p + 2, "Peer")
    <3>1. CASE p = 1
      BY <2>1, <3>1 DEF Is
    <3>2. CASE \E j \in DOMAIN s : p = 1 + j
      BY <1>1, <2>2, <3>2 DEF Formed
    <3>3. QED
      BY <1>2, <3>1, <3>2
  <2>4. QED
    BY <2>3 DEF Formed
<1>5. OnceEach(t)
  <2> SUFFICES ASSUME NEW p \in DOMAIN t, NEW r \in DOMAIN t, t[p] = t[r], t[p].line \in {"PublicKey", "name"}
               PROVE  p = r
    BY DEF OnceEach
  <2>1. ASSUME NEW j \in DOMAIN s
        PROVE  t[1 + j] = s[j] /\ s[j] # NameLine(n)
    BY <1>1, <1>2 DEF Is
  <2>2. ASSUME NEW i \in DOMAIN s, NEW j \in DOMAIN s, p = 1 + i, r = 1 + j
        PROVE  p = r
    <3>1. s[i] = s[j] /\ s[i].line \in {"PublicKey", "name"}
      BY <2>1, <2>2
    <3>2. i = j
      BY <1>1, <3>1 DEF OnceEach
    <3>3. QED
      BY <2>2, <3>2
  <2>3. ~(p = 1 /\ \E j \in DOMAIN s : r = 1 + j) /\ ~(r = 1 /\ \E j \in DOMAIN s : p = 1 + j)
    BY <1>2, <2>1
  <2>4. CASE p = 1 \/ r = 1
    BY <1>2, <2>3, <2>4
  <2>5. CASE p # 1 /\ r # 1
    BY <1>2, <2>2, <2>5
  <2>6. QED
    BY <2>4, <2>5
<1>6. ASSUME NEW p \in DOMAIN t
      PROVE  /\ Is(t, p, "PublicKey") => t[p] = KeyLine(k)
             /\ Is(t, p, "name") => n # Nil /\ t[p] = NameLine(n)
  <2>1. CASE p = 1
    BY <1>1, <1>2, <2>1 DEF Is
  <2>2. ASSUME NEW j \in DOMAIN s, p = 1 + j
        PROVE  /\ Is(t, p, "PublicKey") => t[p] = KeyLine(k)
               /\ Is(t, p, "name") => n # Nil /\ t[p] = NameLine(n)
    <3>1. t[p] = s[j]
      BY <1>2, <2>2
    <3>2. QED
      BY <3>1 DEF OfPeer, Is
  <2>3. QED
    BY <1>2, <2>1, <2>2
<1>7. QED
  BY <1>2, <1>4, <1>5, <1>6 DEF OfPeer, WellFormed, t

(* The concatenations of a peer's lines, grouped from the right.           *)
LEMMA FromTheRight ==
    ASSUME NEW a \in Lines, NEW b \in Lines, NEW f \in Seq(Lines)
    PROVE  /\ ((<<a>> \o <<b>>) \o <<>>) \o f = <<a>> \o (<<b>> \o f)
           /\ ((<<a>> \o <<>>) \o <<>>) \o f = <<a>> \o f
           /\ ((<<>> \o <<b>>) \o <<a>>) \o f = <<b>> \o (<<a>> \o f)
           /\ ((<<>> \o <<b>>) \o <<>>) \o f = <<b>> \o f
           /\ ((<<>> \o <<>>) \o <<a>>) \o f = <<a>> \o f
           /\ ((<<>> \o <<>>) \o <<>>) \o f = f
<1> DEFINE u == <<a>>
           v == <<b>>
           e == <<>>
<1>1. u \in Seq(Lines) /\ v \in Seq(Lines) /\ e \in Seq(Lines)
  OBVIOUS
<1>2. \A s \in Seq(Lines) : e \o s = s /\ s \o e = s
  OBVIOUS
<1>3. \A s, t, r \in Seq(Lines) : (s \o t) \o r = s \o (t \o r) /\ s \o t \in Seq(Lines)
  OBVIOUS
<1> HIDE DEF u, v, e
<1>4. u \o v \in Seq(Lines) /\ (u \o v) \o f = u \o (v \o f) /\ (v \o u) \o f = v \o (u \o f)
  BY <1>1, <1>3
<1>7. (u \o v) \o e = u \o v
  BY <1>2, <1>4
<1>8. u \o e = u /\ e \o v = v /\ e \o e = e /\ e \o u = u /\ e \o f = f
  BY <1>1, <1>2
<1>9. v \o e = v
  BY <1>1, <1>2
<1>10. ((u \o v) \o e) \o f = u \o (v \o f)
  BY <1>4, <1>7, Zenon
<1>11. ((u \o e) \o e) \o f = u \o f
  BY <1>8, Zenon
<1>12. ((e \o v) \o u) \o f = v \o (u \o f)
  BY <1>4, <1>8, Zenon
<1>13. ((e \o v) \o e) \o f = v \o f
  BY <1>8, <1>9, Zenon
<1>14. ((e \o e) \o u) \o f = u \o f
  BY <1>8, Zenon
<1>15. ((e \o e) \o e) \o f = f
  BY <1>8, Zenon
<1>6. QED
  BY <1>10, <1>11, <1>12, <1>13, <1>14, <1>15, Zenon DEF u, v, e

BlockShape(b, n, group, first, f) ==
    /\ n = Nil /\ group => b = <<GroupLine>> \o f
    /\ n = Nil /\ ~group => b = f
    /\ n \in PeerNames /\ n # Nil =>
          /\ ~group => b = <<NameLine(n)>> \o f
          /\ group /\ first => b = <<GroupLine>> \o (<<NameLine(n)>> \o f)
          /\ group /\ ~first => b = <<NameLine(n)>> \o (<<GroupLine>> \o f)

(* The ways of writing a peer, one by one.                                 *)
LEMMA BlockIs ==
    ASSUME NEW n, NEW group \in BOOLEAN, NEW first \in BOOLEAN, NEW k \in PublicKeys, NEW r \in Ranges
    PROVE  BlockShape(Block(n, group, first, k, r), n, group, first, Fields(k, r))
<1> DEFINE f == Fields(k, r)
           b == Block(n, group, first, k, r)
<1>1. GroupLine \in Lines /\ f \in Seq(Lines)
  BY LineFacts, FieldsAreFormed DEF OfPeer, WellFormed
<1>2. b = (((IF group /\ first THEN <<GroupLine>> ELSE <<>>) \o (IF n # Nil THEN <<NameLine(n)>> ELSE <<>>))
           \o (IF group /\ ~first THEN <<GroupLine>> ELSE <<>>)) \o f
  BY Zenon DEF Block, Fields
<1> HIDE DEF f, b
<1>3. ASSUME n = Nil
      PROVE  (group => b = <<GroupLine>> \o f) /\ (~group => b = f)
  <2>1. /\ ((<<GroupLine>> \o <<>>) \o <<>>) \o f = <<GroupLine>> \o f
        /\ ((<<>> \o <<>>) \o <<GroupLine>>) \o f = <<GroupLine>> \o f
        /\ ((<<>> \o <<>>) \o <<>>) \o f = f
    BY <1>1, FromTheRight
  <2>2. CASE group /\ first
    BY <1>2, <1>3, <2>1, <2>2, Zenon
  <2>3. CASE group /\ ~first
    BY <1>2, <1>3, <2>1, <2>3, Zenon
  <2>4. CASE ~group
    BY <1>2, <1>3, <2>1, <2>4, Zenon
  <2>5. QED
    BY <2>2, <2>3, <2>4, Zenon
<1>4. ASSUME n \in PeerNames, n # Nil
      PROVE  /\ ~group => b = <<NameLine(n)>> \o f
             /\ group /\ first => b = <<GroupLine>> \o (<<NameLine(n)>> \o f)
             /\ group /\ ~first => b = <<NameLine(n)>> \o (<<GroupLine>> \o f)
  <2>1. NameLine(n) \in Lines
    BY <1>4, LineFacts
  <2>2. /\ ((<<GroupLine>> \o <<NameLine(n)>>) \o <<>>) \o f = <<GroupLine>> \o (<<NameLine(n)>> \o f)
        /\ ((<<>> \o <<NameLine(n)>>) \o <<GroupLine>>) \o f = <<NameLine(n)>> \o (<<GroupLine>> \o f)
        /\ ((<<>> \o <<NameLine(n)>>) \o <<>>) \o f = <<NameLine(n)>> \o f
    BY <1>1, <2>1, FromTheRight
  <2>3. CASE group /\ first
    BY <1>2, <1>4, <2>2, <2>3, Zenon
  <2>4. CASE group /\ ~first
    BY <1>2, <1>4, <2>2, <2>4, Zenon
  <2>5. CASE ~group
    BY <1>2, <1>4, <2>2, <2>5, Zenon
  <2>6. QED
    BY <2>3, <2>4, <2>5, Zenon
<1>5. BlockShape(b, n, group, first, f)
  BY <1>3, <1>4, Zenon DEF BlockShape
<1>6. QED
  BY <1>5 DEF b, f

LEMMA BackFrom ==
    ASSUME NEW s \in Seq(Lines), NEW j \in DOMAIN s, NEW p, p = 1 + j
    PROVE  1 + (j - 1) = p - 1 /\ (j = 1 => p - 1 = 1)
<1>1. j \in Nat
  BY SequenceDomain
<1>2. QED
  BY <1>1

(* A peer that begins with its name has its markers together.              *)
LEMMA TidyAfterName ==
    ASSUME NEW n \in PeerNames, NEW s \in Seq(Lines),
           \A j \in DOMAIN s : /\ Is(s, j, "group") => j = 1
                               /\ Is(s, j, "Peer") => j = 1 \/ Kind(s, j - 1, "group")
    PROVE  TidyLines(<<NameLine(n)>> \o s)
<1> DEFINE t == <<NameLine(n)>> \o s
<1>1. NameLine(n) \in Lines /\ NameLine(n).line = "name"
  BY LineFacts
<1>2. /\ t \in Seq(Lines) /\ 1 \in DOMAIN t /\ t[1] = NameLine(n)
      /\ \A j \in DOMAIN s : t[1 + j] = s[j]
      /\ \A i, what : Kind(s, i, what) => Kind(t, 1 + i, what)
      /\ \A p \in DOMAIN t : p = 1 \/ \E j \in DOMAIN s : p = 1 + j
  BY <1>1, OneLine
<1> HIDE DEF t
<1>3. ASSUME NEW j \in DOMAIN s, NEW p, p = 1 + j
      PROVE  1 + (j - 1) = p - 1 /\ (j = 1 => p - 1 = 1)
  BY <1>3, BackFrom
<1>4. Kind(t, 1, "name")
  BY <1>1, <1>2 DEF Kind, Is
<1>5. ASSUME NEW p \in DOMAIN t
      PROVE  /\ Is(t, p, "group") => Kind(t, p - 1, "name")
             /\ Is(t, p, "Peer") => Kind(t, p - 1, "name") \/ Kind(t, p - 1, "group")
  <2>1. CASE p = 1
    BY <1>1, <1>2, <2>1 DEF Is
  <2>2. ASSUME NEW j \in DOMAIN s, p = 1 + j
        PROVE  /\ Is(t, p, "group") => Kind(t, p - 1, "name")
               /\ Is(t, p, "Peer") => Kind(t, p - 1, "name") \/ Kind(t, p - 1, "group")
    <3>1. \A what : Is(t, p, what) <=> Is(s, j, what)
      BY <1>2, <2>2 DEF Is
    <3>2. Kind(s, j - 1, "group") => Kind(t, p - 1, "group")
      BY <1>2, <1>3, <2>2, Zenon
    <3>3. j = 1 => Kind(t, p - 1, "name")
      BY <1>3, <1>4, <2>2, Zenon
    <3>4. QED
      BY <3>1, <3>2, <3>3
  <2>3. QED
    BY <1>2, <2>1, <2>2
<1>6. QED
  BY <1>5 DEF TidyLines, t

(* Every way of writing a peer                                             *)
LEMMA BlockIsFormed ==
    ASSUME NEW n \in PeerNames \cup {Nil}, NEW group \in BOOLEAN, NEW first \in BOOLEAN,
           NEW k \in PublicKeys, NEW r \in Ranges
    PROVE  /\ OfPeer(Block(n, group, first, k, r), n, k)
           /\ n # Nil /\ ~(group /\ first) => TidyLines(Block(n, group, first, k, r))
<1> DEFINE f == Fields(k, r)
           b == Block(n, group, first, k, r)
           g == <<GroupLine>> \o f
<1>1. /\ OfPeer(f, n, k) /\ Kind(f, 1, "Peer")
      /\ \A i \in DOMAIN f : /\ ~Is(f, i, "name") /\ ~Is(f, i, "group")
                             /\ Is(f, i, "Peer") => i = 1
  BY FieldsAreFormed
<1>0. b = Block(n, group, first, k, r) /\ BlockShape(b, n, group, first, f)
  BY BlockIs
<1> HIDE DEF f, b
<1>2. /\ n = Nil /\ group => b = <<GroupLine>> \o f
      /\ n = Nil /\ ~group => b = f
      /\ n \in PeerNames /\ n # Nil =>
            /\ ~group => b = <<NameLine(n)>> \o f
            /\ group /\ first => b = <<GroupLine>> \o (<<NameLine(n)>> \o f)
            /\ group /\ ~first => b = <<NameLine(n)>> \o (<<GroupLine>> \o f)
  BY <1>0, Zenon DEF BlockShape
<1> SUFFICES OfPeer(b, n, k) /\ (n # Nil /\ ~(group /\ first) => TidyLines(b))
  BY <1>0, Zenon
<1>3. f \in Seq(Lines) /\ GroupLine \in Lines /\ GroupLine.line = "group"
  BY <1>1, LineFacts DEF OfPeer, WellFormed
<1>4. OfPeer(g, n, k)
  BY <1>1, GroupedIsFormed
<1>5. /\ g \in Seq(Lines) /\ 1 \in DOMAIN g /\ g[1] = GroupLine
      /\ \A j \in DOMAIN f : 1 + j \in DOMAIN g /\ g[1 + j] = f[j]
      /\ \A i, what : Kind(f, i, what) => Kind(g, 1 + i, what)
      /\ \A p \in DOMAIN g : p = 1 \/ \E j \in DOMAIN f : p = 1 + j
  BY <1>3, OneLine
<1> HIDE DEF g
<1>6. Kind(g, 1, "group") /\ Kind(g, 2, "Peer")
  <2>1. Kind(g, 1 + 1, "Peer")
    BY <1>1, <1>5
  <2>2. 1 + 1 = 2
    OBVIOUS
  <2>3. QED
    BY <1>3, <1>5, <2>1, <2>2 DEF Kind, Is
<1>7. StartsPeer(f) /\ StartsPeer(g)
  BY <1>1, <1>6 DEF StartsPeer
<1>8. ASSUME NEW p \in DOMAIN g
      PROVE  /\ ~Is(g, p, "name") /\ (Is(g, p, "group") => p = 1)
             /\ Is(g, p, "Peer") => p = 1 \/ Kind(g, p - 1, "group")
  <2>1. CASE p = 1
    BY <1>3, <1>5, <2>1 DEF Is
  <2>2. ASSUME NEW j \in DOMAIN f, p = 1 + j
        PROVE  /\ ~Is(g, p, "name") /\ (Is(g, p, "group") => p = 1)
               /\ Is(g, p, "Peer") => p = 1 \/ Kind(g, p - 1, "group")
    <3>1. \A what : Is(g, p, what) <=> Is(f, j, what)
      BY <1>5, <2>2 DEF Is
    <3>2. j = 1 => p - 1 = 1
      BY <1>3, <2>2, BackFrom
    <3>3. QED
      BY <1>1, <1>6, <3>1, <3>2, Zenon
  <2>3. QED
    BY <1>5, <2>1, <2>2
<1>9. CASE n = Nil
  <2>1. CASE group
    BY <1>2, <1>4, <1>9, <2>1 DEF g
  <2>2. CASE ~group
    BY <1>1, <1>2, <1>9, <2>2
  <2>3. QED
    BY <1>9, <2>1, <2>2
<1>10. CASE n # Nil
  <2>1. n \in PeerNames
    BY <1>10
  <2>2. OfPeer(<<NameLine(n)>> \o f, n, k)
    BY <1>1, <1>7, <1>10, <2>1, NamedIsFormed
  <2>3. OfPeer(<<NameLine(n)>> \o g, n, k)
    BY <1>4, <1>7, <1>8, <1>10, <2>1, NamedIsFormed
  <2>4. OfPeer(<<GroupLine>> \o (<<NameLine(n)>> \o f), n, k)
    BY <2>2, GroupedIsFormed
  <2>5. TidyLines(<<NameLine(n)>> \o f)
    BY <1>1, <1>3, <2>1, TidyAfterName
  <2>6. TidyLines(<<NameLine(n)>> \o g)
    BY <1>5, <1>8, <2>1, TidyAfterName
  <2>7. CASE ~group
    BY <1>2, <1>10, <2>1, <2>2, <2>5, <2>7, Zenon
  <2>8. CASE group /\ first
    BY <1>2, <1>10, <2>1, <2>4, <2>8, Zenon
  <2>9. CASE group /\ ~first
    BY <1>2, <1>10, <2>1, <2>3, <2>6, <2>9, Zenon DEF g
  <2>10. QED
    BY <2>7, <2>8, <2>9, Zenon
<1>11. QED
  BY <1>9, <1>10

--------------------------------------------------------------------------------
(* Adding a peer, and the files there first                                *)

(* Nil is no name.                                                         *)
LEMMA NilIsNoName == Nil \notin PeerNames
  BY ConfConstants

LEMMA Regrouped ==
    ASSUME NEW a \in Seq(Lines), NEW b \in Seq(Lines), NEW c \in Seq(Lines)
    PROVE  (a \o b) \o c = a \o (b \o c)
  OBVIOUS

(* wireguard_peer_add.sh writes a peer as a file made by hand may have it, *)
(* with its markers together.                                              *)
LEMMA AddedIsBlock ==
    ASSUME NEW lines \in Seq(Lines), NEW n \in PeerNames, NEW group \in BOOLEAN, NEW k \in PublicKeys, NEW r \in Ranges
    PROVE  AddPeer(lines, n, group, k, r) = lines \o Block(n, group, FALSE, k, r)
<1> DEFINE f == Fields(k, r)
           mark == <<NameLine(n)>>
           more == <<GroupLine>>
           b == Block(n, group, FALSE, k, r)
<1>0. f \in Seq(Lines)
  BY FieldsAreFormed DEF OfPeer, WellFormed
<1>10. NameLine(n) \in Lines /\ GroupLine \in Lines
  BY LineFacts
<1>11. mark \in Seq(Lines) /\ more \in Seq(Lines)
  BY <1>10, LineAlone
<1>1. f \in Seq(Lines) /\ mark \in Seq(Lines) /\ more \in Seq(Lines)
  BY <1>0, <1>11
<1>2. BlockShape(b, n, group, FALSE, f)
  BY BlockIs
<1>3. AddPeer(lines, n, group, k, r) = (lines \o (IF group THEN <<NameLine(n), GroupLine>> ELSE mark)) \o f
  BY Zenon DEF AddPeer, Marked, Fields
<1>4. <<NameLine(n), GroupLine>> = mark \o more
  OBVIOUS
<1> HIDE DEF f, b
<1>5. (group => b = mark \o (more \o f)) /\ (~group => b = mark \o f)
  BY <1>2, NilIsNoName, Zenon DEF BlockShape
<1> HIDE DEF mark, more
<1>6. (lines \o (mark \o more)) \o f = lines \o (mark \o (more \o f)) /\ (lines \o mark) \o f = lines \o (mark \o f)
  <2>1. mark \o more \in Seq(Lines) /\ more \o f \in Seq(Lines)
    BY <1>1
  <2>2. (lines \o (mark \o more)) \o f = lines \o ((mark \o more) \o f)
    BY <1>1, <2>1, Regrouped
  <2>3. (mark \o more) \o f = mark \o (more \o f)
    BY <1>1
  <2>4. (lines \o mark) \o f = lines \o (mark \o f)
    BY <1>1
  <2>5. QED
    BY <2>2, <2>3, <2>4, Zenon
<1>7. CASE group
  BY <1>3, <1>4, <1>5, <1>6, <1>7, Zenon DEF b
<1>8. CASE ~group
  BY <1>3, <1>5, <1>6, <1>8, Zenon DEF b
<1>9. QED
  BY <1>7, <1>8

(* A peer that is not there yet goes beside those that are.                *)
LEMMA OfPeerIsDisjoint ==
    ASSUME NEW lines \in Seq(Lines), NEW s, NEW n, NEW k, OfPeer(s, n, k),
           \A i \in DOMAIN lines : lines[i] # KeyLine(k) /\ (n # Nil => lines[i] # NameLine(n))
    PROVE  Disjoint(lines, s)
<1> SUFFICES ASSUME NEW i \in DOMAIN lines, NEW j \in DOMAIN s, lines[i] = s[j], lines[i].line \in {"PublicKey", "name"}
             PROVE  FALSE
  BY DEF Disjoint
<1>1. Is(s, j, "PublicKey") \/ Is(s, j, "name")
  BY DEF Is
<1>2. QED
  BY <1>1 DEF OfPeer

(* A name or key of some line is among the names or keys of the file.      *)
LEMMA NotThereYet ==
    ASSUME NEW lines \in Seq(Lines), NEW i \in DOMAIN lines, NEW n, NEW k
    PROVE  /\ lines[i] = KeyLine(k) => k \in KeysIn(lines)
           /\ lines[i] = NameLine(n) => n \in NamesIn(lines)
<1>1. lines[i] = KeyLine(k) => lines[i].line = "PublicKey" /\ lines[i].is = k
  BY LineFacts
<1>2. lines[i] = NameLine(n) => lines[i].line = "name" /\ lines[i].is = n
  BY LineFacts
<1>3. lines[i].line = "PublicKey" => lines[i].is \in KeysIn(lines)
  BY DEF KeysIn, KeysAt, Is
<1>4. lines[i].line = "name" => lines[i].is \in NamesIn(lines)
  BY DEF NamesIn, Is
<1>5. QED
  BY <1>1, <1>2, <1>3, <1>4

(* What wireguard_peer_add.sh writes has the form again.                   *)
LEMMA AddIsSound ==
    ASSUME NEW lines, WellFormed(lines), NEW n \in PeerNames, NEW group \in BOOLEAN, NEW k \in PublicKeys,
           NEW r \in Ranges, n \notin NamesIn(lines), k \notin KeysIn(lines)
    PROVE  /\ WellFormed(AddPeer(lines, n, group, k, r))
           /\ TidyLines(lines) => TidyLines(AddPeer(lines, n, group, k, r))
<1> DEFINE b == Block(n, group, FALSE, k, r)
<1>1. lines \in Seq(Lines)
  BY DEF WellFormed
<1>2. OfPeer(b, n, k) /\ TidyLines(b)
  BY BlockIsFormed, NilIsNoName
<1>3. AddPeer(lines, n, group, k, r) = lines \o b
  BY <1>1, AddedIsBlock
<1> HIDE DEF b
<1>4. b \in Seq(Lines) /\ WellFormed(b)
  BY <1>2 DEF OfPeer, WellFormed
<1>5. \A i \in DOMAIN lines : lines[i] # KeyLine(k) /\ lines[i] # NameLine(n)
  BY <1>1, NotThereYet
<1>6. Disjoint(lines, b)
  BY <1>1, <1>2, <1>5, OfPeerIsDisjoint
<1>7. WellFormed(lines \o b)
  BY <1>4, <1>6, AppendedStaysFormed
<1>8. TidyLines(lines) => TidyLines(lines \o b)
  BY <1>1, <1>2, <1>4, AppendedStaysTidy
<1>9. QED
  BY <1>3, <1>7, <1>8

(* The files that were there first                                         *)
WrittenOf(s, blocks, m) ==
    /\ WellFormed(s)
    /\ \A i \in DOMAIN s :
          /\ Is(s, i, "PublicKey") => \E j \in 1 .. m : s[i] = KeyLine(blocks[j].key)
          /\ Is(s, i, "name") => \E j \in 1 .. m : blocks[j].name # Nil /\ s[i] = NameLine(blocks[j].name)

(* One more peer, with a key and a name of its own.                        *)
LEMMA WrittenGoesOn ==
    ASSUME NEW blocks \in Seq(Blocks), Distinct(blocks), NEW m \in 1 .. Len(blocks), NEW s, WrittenOf(s, blocks, m - 1),
           NEW b, OfPeer(b, blocks[m].name, blocks[m].key)
    PROVE  WrittenOf(s \o b, blocks, m)
<1>1. Len(blocks) \in Nat /\ DOMAIN blocks = 1 .. Len(blocks)
  OBVIOUS
<1>2. m \in 1 .. m /\ \A j \in 1 .. m - 1 : j \in 1 .. m /\ j \in DOMAIN blocks /\ j # m
  BY <1>1
<1>3. s \in Seq(Lines) /\ b \in Seq(Lines) /\ WellFormed(s) /\ WellFormed(b)
  BY DEF WrittenOf, OfPeer, WellFormed
<1>4. ASSUME NEW i \in DOMAIN s
      PROVE  s[i] # KeyLine(blocks[m].key) /\ (blocks[m].name # Nil => s[i] # NameLine(blocks[m].name))
  <2>1. ASSUME s[i] = KeyLine(blocks[m].key)
        PROVE  FALSE
    <3>1. Is(s, i, "PublicKey")
      BY <2>1, LineFacts DEF Is
    <3>2. PICK j \in 1 .. m - 1 : s[i] = KeyLine(blocks[j].key)
      BY <3>1 DEF WrittenOf
    <3>3. blocks[j].key = blocks[m].key
      <4>1. KeyLine(blocks[j].key).is = blocks[j].key /\ KeyLine(blocks[m].key).is = blocks[m].key
        BY LineFacts
      <4>2. QED
        BY <2>1, <3>2, <4>1
    <3>4. QED
      BY <1>1, <1>2, <3>3 DEF Distinct
  <2>2. ASSUME s[i] = NameLine(blocks[m].name), blocks[m].name # Nil
        PROVE  FALSE
    <3>1. Is(s, i, "name")
      BY <2>2, LineFacts DEF Is
    <3>2. PICK j \in 1 .. m - 1 : blocks[j].name # Nil /\ s[i] = NameLine(blocks[j].name)
      BY <3>1 DEF WrittenOf
    <3>3. blocks[j].name = blocks[m].name
      <4>1. NameLine(blocks[j].name).is = blocks[j].name /\ NameLine(blocks[m].name).is = blocks[m].name
        BY LineFacts
      <4>2. QED
        BY <2>2, <3>2, <4>1
    <3>4. QED
      BY <1>1, <1>2, <3>2, <3>3 DEF Distinct
  <2>3. QED
    BY <2>1, <2>2
<1>5. Disjoint(s, b)
  BY <1>3, <1>4, OfPeerIsDisjoint
<1>6. WellFormed(s \o b)
  BY <1>3, <1>5, AppendedStaysFormed
<1>7. ASSUME NEW p \in DOMAIN (s \o b)
      PROVE  /\ Is(s \o b, p, "PublicKey") => \E j \in 1 .. m : (s \o b)[p] = KeyLine(blocks[j].key)
             /\ Is(s \o b, p, "name") => \E j \in 1 .. m : blocks[j].name # Nil /\ (s \o b)[p] = NameLine(blocks[j].name)
  <2>1. CASE p \in DOMAIN s
    <3>1. (s \o b)[p] = s[p]
      BY <1>3, <2>1, AppendedAt
    <3>2. /\ Is(s, p, "PublicKey") => \E j \in 1 .. m - 1 : s[p] = KeyLine(blocks[j].key)
          /\ Is(s, p, "name") => \E j \in 1 .. m - 1 : blocks[j].name # Nil /\ s[p] = NameLine(blocks[j].name)
      BY <2>1 DEF WrittenOf
    <3>3. \A what : Is(s \o b, p, what) <=> Is(s, p, what)
      BY <3>1 DEF Is
    <3>4. QED
      BY <1>2, <3>1, <3>2, <3>3
  <2>2. ASSUME NEW j \in DOMAIN b, p = Len(s) + j
        PROVE  /\ Is(s \o b, p, "PublicKey") => (s \o b)[p] = KeyLine(blocks[m].key)
               /\ Is(s \o b, p, "name") => blocks[m].name # Nil /\ (s \o b)[p] = NameLine(blocks[m].name)
    <3>1. (s \o b)[p] = b[j]
      BY <1>3, <2>2, AppendedAt
    <3>2. QED
      BY <3>1 DEF OfPeer, Is
  <2>3. QED
    BY <1>2, <1>3, <2>1, <2>2, AppendedAt
<1>8. QED
  BY <1>6, <1>7 DEF WrittenOf

(* A file of distinct peers has the form, however many they are.           *)
LEMMA WrittenIsFormed ==
    ASSUME NEW blocks \in Seq(Blocks), Distinct(blocks)
    PROVE  WellFormed(Written(blocks))
<1> DEFINE N == Len(blocks)
           parts == BlockLines(blocks)
<1>1. PICK out \in [0 .. N -> Seq(Lines)] : Joined(out, parts, N) /\ Written(blocks) = out[N]
  BY WrittenRuns
<1>2. N \in Nat
  OBVIOUS
<1>3. out[0] = <<>> /\ \A k \in 1 .. N : out[k] = out[k - 1] \o parts[k]
  <2> HIDE DEF parts, N
  <2>1. QED
    BY <1>1 DEF Joined
<1>4. ASSUME NEW k \in 1 .. N
      PROVE  OfPeer(parts[k], blocks[k].name, blocks[k].key)
  <2>1. blocks[k] \in Blocks
    OBVIOUS
  <2>2. /\ blocks[k].name \in PeerNames \cup {Nil} /\ blocks[k].group \in BOOLEAN /\ blocks[k].first \in BOOLEAN
        /\ blocks[k].key \in PublicKeys /\ blocks[k].range \in Ranges
    BY <2>1 DEF Blocks
  <2>3. parts[k] = Block(blocks[k].name, blocks[k].group, blocks[k].first, blocks[k].key, blocks[k].range)
    BY DEF BlockLines
  <2>4. OfPeer(Block(blocks[k].name, blocks[k].group, blocks[k].first, blocks[k].key, blocks[k].range),
               blocks[k].name, blocks[k].key)
    BY <2>2, BlockIsFormed
  <2> HIDE DEF parts
  <2>5. QED
    BY <2>3, <2>4
<1> DEFINE T == {k \in 0 .. N : WrittenOf(out[k], blocks, k)}
<1>5. 0 \in T
  <2>1. <<>> \in Seq(Lines) /\ DOMAIN <<>> = {}
    OBVIOUS
  <2>2. WrittenOf(<<>>, blocks, 0)
    BY <2>1 DEF WrittenOf, WellFormed, Formed, OnceEach
  <2>3. 0 \in 0 .. N
    BY <1>2
  <2>4. WrittenOf(out[0], blocks, 0)
    BY <1>3, <2>2, Zenon
  <2> HIDE DEF N
  <2>5. QED
    BY <2>3, <2>4
<1>6. ASSUME NEW k \in 1 .. N, k - 1 \in T
      PROVE  k \in T
  <2>1. WrittenOf(out[k - 1] \o parts[k], blocks, k)
    BY <1>4, <1>6, WrittenGoesOn
  <2>2. k \in 0 .. N
    BY <1>2
  <2>3. WrittenOf(out[k], blocks, k)
    BY <1>3, <2>1
  <2>4. QED
    BY <2>2, <2>3
<1>7. N \in T
  <2> HIDE DEF T, N
  <2>1. \A k \in 0 .. N : k \in T
    BY <1>2, <1>5, <1>6, Inductive
  <2>2. QED
    BY <1>2, <2>1
<1>8. QED
  BY <1>1, <1>7 DEF WrittenOf

(* So have the files there first.                                          *)
LEMMA FilesAreFormed ==
    ASSUME NEW lines \in Files
    PROVE  WellFormed(lines)
<1>1. PICK c \in UNION {[1 .. m -> Blocks] : m \in 0 .. FirstPeers} : Distinct(c) /\ lines = Written(c)
  BY DEF Files
<1>2. PICK m \in 0 .. FirstPeers : c \in [1 .. m -> Blocks]
  BY <1>1
<1>3. m \in Nat
  BY ConfConstants
<1>4. c \in Seq(Blocks)
  BY <1>2, <1>3
<1>5. QED
  BY <1>1, <1>4, WrittenIsFormed

--------------------------------------------------------------------------------
(* The invariant                                                           *)

(* The lines of a tunnel and what is known of them beyond their types: the *)
(* interface is in step with the file as it was before the helper that     *)
(* runs, a file that it would take again, and the private key is the one   *)
(* typed in.                                                               *)
InStep(key, lines) == kernel = Stripped(lines) /\ Accepts(key, lines)

KernelThroughout ==
    kernel \notin {Nil, Mixed} =>
        IF op = Nil THEN InStep(private, conf) ELSE InStep(op.private, op.conf)

Rightly(key, was) == key = was \/ (was = Nil /\ key = Mangled)

KeyThroughout == Rightly(private, typed) /\ (op # Nil => Rightly(op.private, op.typed))

ConfInv ==
    /\ ConfTypeOK
    /\ op # Nil => answer = Nil
    /\ KernelThroughout
    /\ KeyThroughout
    /\ NoSuchPeerIsTrue

(* A marker that is the last of some is one of them.                       *)
LEMMA LastMarkedIs ==
    ASSUME NEW lines \in Seq(Lines), NEW at \in SUBSET (DOMAIN lines), at # {}
    PROVE  \E i \in at : LastMarked(lines, at) = lines[i].is
<1>1. Len(lines) \in Nat /\ DOMAIN lines = 1 .. Len(lines)
  OBVIOUS
<1>2. \E i \in at : \A j \in at : j <= i
  BY <1>1, Greatest
<1>3. QED
  BY <1>2 DEF LastMarked

(* The places of a section.                                                *)
LEMMA SectionPlaces ==
    ASSUME NEW lines \in Seq(Lines), NEW h \in HeadersAt(lines)
    PROVE  /\ h \in Nat /\ h \in DOMAIN lines /\ Is(lines, h, "Peer")
           /\ Section(lines, h) \subseteq DOMAIN lines
           /\ Len(lines) \in Nat /\ DOMAIN lines = 1 .. Len(lines)
<1>1. Len(lines) \in Nat /\ DOMAIN lines = 1 .. Len(lines) /\ h \in DOMAIN lines /\ Is(lines, h, "Peer")
  BY DEF HeadersAt
<1>2. h \in Nat /\ 1 <= h
  BY <1>1
<1>3. \A i \in h + 1 .. Len(lines) : i \in 1 .. Len(lines)
  BY <1>1, <1>2
<1>4. QED
  BY <1>1, <1>2, <1>3 DEF Section

(* What WireGuard reads of a file is a set of peers.                       *)
LEMMA StrippedIsPeerSet ==
    ASSUME NEW lines \in Seq(Lines)
    PROVE  Stripped(lines) \in PeerSets
<1> SUFFICES ASSUME NEW h \in HeadersAt(lines)
             PROVE  SectionPeer(lines, h) \in [key : PublicKeys \cup {Nil}, ranges : SUBSET Ranges]
  BY Zenon DEF Stripped, PeerSets
<1>1. Section(lines, h) \subseteq DOMAIN lines
  BY SectionPlaces
<1> DEFINE at == Section(lines, h) \cap KeysAt(lines)
<1>2. \A i \in at : lines[i].is \in PublicKeys
  <2> TAKE i \in at
  <2>1. lines[i] \in Lines /\ lines[i].line = "PublicKey"
    BY <1>1 DEF KeysAt, Is
  <2>2. QED
    BY <2>1, LineKinds
<1>3. LastMarked(lines, at) \in PublicKeys \cup {Nil}
  <2>1. CASE at = {}
    BY <2>1 DEF LastMarked
  <2>2. CASE at # {}
    <3>1. \E i \in at : LastMarked(lines, at) = lines[i].is
      <4>1. at \in SUBSET (DOMAIN lines)
        BY <1>1
      <4> HIDE DEF at
      <4>2. QED
        BY <2>2, <4>1, LastMarkedIs
    <3>2. QED
      BY <1>2, <3>1
  <2>3. QED
    BY <2>1, <2>2
<1>4. {lines[i].is : i \in {j \in Section(lines, h) : Is(lines, j, "AllowedIPs")}} \subseteq Ranges
  <2> SUFFICES ASSUME NEW j \in Section(lines, h), Is(lines, j, "AllowedIPs")
               PROVE  lines[j].is \in Ranges
    OBVIOUS
  <2>1. lines[j] \in Lines /\ lines[j].line = "AllowedIPs"
    BY <1>1 DEF Is
  <2>2. QED
    BY <2>1, LineKinds
<1>5. QED
  BY <1>3, <1>4 DEF SectionPeer, SectionKey

(* In a file of the form a section is of the one key after its header.     *)
LEMMA SectionOfOne ==
    ASSUME NEW lines \in Seq(Lines), Formed(lines), NEW h \in HeadersAt(lines)
    PROVE  /\ h + 1 \in KeysAt(lines)
           /\ Section(lines, h) \cap KeysAt(lines) = {h + 1}
           /\ SectionKey(lines, h) = lines[h + 1].is
<1>1. /\ h \in Nat /\ h \in DOMAIN lines /\ Is(lines, h, "Peer")
      /\ Len(lines) \in Nat /\ DOMAIN lines = 1 .. Len(lines)
  BY SectionPlaces
<1>2. h + 1 \in DOMAIN lines /\ Is(lines, h + 1, "PublicKey")
  BY <1>1 DEF Formed, Kind
<1>3. h + 1 \in KeysAt(lines)
  BY <1>2 DEF KeysAt
<1>4. ~Is(lines, h + 1, "Peer")
  BY <1>2 DEF Is
<1>5. h + 1 \in Section(lines, h)
  <2>1. h + 1 \in h + 1 .. Len(lines) /\ \A j \in h + 1 .. h + 1 : j = h + 1
    BY <1>1, <1>2
  <2>2. QED
    BY <1>4, <2>1 DEF Section
<1>6. ASSUME NEW j \in Section(lines, h), j \in KeysAt(lines)
      PROVE  j = h + 1
  <2>1. j \in h + 1 .. Len(lines) /\ \A m \in h + 1 .. j : ~Is(lines, m, "Peer")
    BY DEF Section
  <2>2. Is(lines, j - 1, "Peer")
    BY <1>6 DEF KeysAt, Formed, Kind
  <2>3. ~(j - 1 \in h + 1 .. j)
    BY <2>1, <2>2
  <2>4. QED
    BY <1>1, <2>1, <2>3
<1>7. Section(lines, h) \cap KeysAt(lines) = {h + 1}
  BY <1>3, <1>5, <1>6
<1>8. QED
  <2>1. h + 1 \in Nat
    BY <1>1
  <2>2. LastMarked(lines, {h + 1}) = lines[h + 1].is
    BY <2>1, LastOfOne, Zenon
  <2>3. QED
    BY <1>3, <1>7, <2>2 DEF SectionKey

(* WireGuard takes a file of the form.                                     *)
LEMMA FormedIsAccepted ==
    ASSUME NEW lines \in Seq(Lines), Formed(lines), NEW key, key # Mangled
    PROVE  Accepts(key, lines)
<1>1. Len(lines) \in Nat /\ DOMAIN lines = 1 .. Len(lines)
  OBVIOUS
<1>2. ASSUME NEW i \in DOMAIN lines, lines[i].line \in {"PublicKey", "AllowedIPs"}
      PROVE  \E h \in HeadersAt(lines) : h < i
  <2>1. i \in Nat /\ i - 1 < i /\ i - 1 - 1 < i
    BY <1>1
  <2>2. CASE lines[i].line = "PublicKey"
    <3>1. i - 1 \in HeadersAt(lines)
      BY <2>2 DEF Formed, Kind, Is, HeadersAt
    <3>2. QED
      BY <2>1, <3>1
  <2>3. CASE lines[i].line = "AllowedIPs"
    <3>1. i - 1 \in DOMAIN lines /\ Is(lines, i - 1, "PublicKey")
      BY <2>3 DEF Formed, Kind, Is
    <3>2. i - 1 - 1 \in HeadersAt(lines)
      BY <3>1 DEF Formed, Kind, HeadersAt
    <3>3. QED
      BY <2>1, <3>2
  <2>4. QED
    BY <1>2, <2>2, <2>3
<1>3. \A h \in HeadersAt(lines) : Section(lines, h) \cap KeysAt(lines) # {}
  BY SectionOfOne
<1>4. QED
  BY <1>2, <1>3 DEF Accepts

(* A key is in the file with its range after it.                           *)
LEMMA KeyIsPeer ==
    ASSUME NEW lines, WellFormed(lines), NEW i \in KeysAt(lines)
    PROVE  /\ PeerAt(lines, i) = PeerBy(lines, i)
           /\ lines[i].is \in PublicKeys /\ lines[i + 1].is \in Ranges
           /\ i \in DOMAIN lines
<1>1. lines \in Seq(Lines) /\ Formed(lines)
  BY DEF WellFormed
<1>2. PeerAt(lines, i) = PeerBy(lines, i)
  BY <1>1, PeerIsLocal
<1>3. i \in DOMAIN lines /\ lines[i].line = "PublicKey" /\ lines[i] \in Lines
  BY <1>1 DEF KeysAt, Is
<1>4. i + 1 \in DOMAIN lines /\ lines[i + 1].line = "AllowedIPs"
  BY <1>1, <1>3 DEF Formed, Kind, Is
<1>5. lines[i + 1] \in Lines
  BY <1>1, <1>4
<1>6. lines[i].is \in PublicKeys
  BY <1>3, LineKinds
<1>7. lines[i + 1].is \in Ranges
  BY <1>4, <1>5, LineKinds
<1>8. QED
  BY <1>2, <1>3, <1>6, <1>7

(* A name in the file is the name of a peer.                               *)
LEMMA NamesHavePeers ==
    ASSUME NEW lines, WellFormed(lines), NEW n \in NamesIn(lines)
    PROVE  \E p \in Peers(lines) : p.name = n
<1>1. lines \in Seq(Lines) /\ Formed(lines)
  BY DEF WellFormed
<1>2. PICK i \in DOMAIN lines : Is(lines, i, "name") /\ lines[i].is = n
  BY DEF NamesIn
<1>3. i \in Nat /\ i + 1 + 1 = i + 2 /\ i + 2 - 2 = i /\ i + 2 + 1 = i + 3 /\ i + 3 - 2 = i + 1 /\ i + 3 - 3 = i
  <2>1. i \in Nat
    BY <1>1, KindHere
  <2>2. QED
    BY <2>1
<1>4. CASE Kind(lines, i + 1, "Peer")
  <2>1. Kind(lines, i + 2, "PublicKey")
    BY <1>1, <1>3, <1>4 DEF Formed, Kind
  <2>2. i + 2 \in KeysAt(lines)
    BY <2>1 DEF KeysAt, Kind
  <2>3. NameBy(lines, i + 2) = n
    <3>1. ASSUME NEW k, k - 2 = i
          PROVE  NameBy(lines, k) = n
      BY <1>2, <3>1 DEF NameBy, Kind
    <3>2. QED
      BY <1>3, <3>1
  <2>4. PeerAt(lines, i + 2).name = n
    <3>1. PeerAt(lines, i + 2) = PeerBy(lines, i + 2)
      BY <2>2, KeyIsPeer
    <3>2. PeerBy(lines, i + 2).name = NameBy(lines, i + 2)
      BY DEF PeerBy
    <3>3. QED
      BY <2>3, <3>1, <3>2
  <2>5. QED
    BY <2>2, <2>4 DEF Peers
<1>5. CASE Kind(lines, i + 1, "group") /\ Kind(lines, i + 2, "Peer")
  <2>1. Kind(lines, i + 3, "PublicKey")
    BY <1>1, <1>3, <1>5 DEF Formed, Kind
  <2>2. i + 3 \in KeysAt(lines)
    BY <2>1 DEF KeysAt, Kind
  <2>3. NameBy(lines, i + 3) = n
    <3>1. ~Kind(lines, i + 1, "name") /\ Kind(lines, i, "name")
      BY <1>2, <1>5 DEF Kind, Is
    <3>2. ASSUME NEW k, k - 2 = i + 1, k - 3 = i
          PROVE  NameBy(lines, k) = n
      BY <1>2, <1>5, <3>1, <3>2 DEF NameBy
    <3>3. QED
      BY <1>3, <3>2
  <2>4. PeerAt(lines, i + 3).name = n
    <3>1. PeerAt(lines, i + 3) = PeerBy(lines, i + 3)
      BY <2>2, KeyIsPeer
    <3>2. PeerBy(lines, i + 3).name = NameBy(lines, i + 3)
      BY DEF PeerBy
    <3>3. QED
      BY <2>3, <3>1, <3>2
  <2>5. QED
    BY <2>2, <2>4 DEF Peers
<1>6. QED
  BY <1>1, <1>2, <1>4, <1>5 DEF Formed

(* Of a key that is in a file once all markers are the last.               *)
LEMMA ListedIsPeers ==
    ASSUME NEW lines, WellFormed(lines)
    PROVE  Listed(lines) = Peers(lines)
<1>1. ASSUME NEW j \in KeysAt(lines), NEW m \in KeysAt(lines), lines[m] = lines[j]
      PROVE  m <= j
  <2>1. m \in DOMAIN lines /\ j \in DOMAIN lines /\ lines[m].line = "PublicKey"
    BY DEF KeysAt, Is
  <2>2. m = j
    BY <1>1, <2>1 DEF WellFormed, OnceEach
  <2>3. m \in Nat
    BY <2>1, KindHere DEF WellFormed
  <2>4. QED
    BY <2>2, <2>3
<1>2. {j \in KeysAt(lines) : \A m \in KeysAt(lines) : lines[m] = lines[j] => m <= j} = KeysAt(lines)
  BY <1>1
<1>3. QED
  BY <1>2, Zenon DEF Listed, Peers

(* Each key of such a file is the key of a peer that WireGuard reads.      *)
LEMMA KeysAreStripped ==
    ASSUME NEW lines, WellFormed(lines), NEW i \in KeysAt(lines)
    PROVE  \E q \in Stripped(lines) : q.key = lines[i].is
<1>1. lines \in Seq(Lines) /\ Formed(lines) /\ OnceEach(lines)
  BY DEF WellFormed
<1>2. i \in DOMAIN lines /\ lines[i].line = "PublicKey" /\ Kind(lines, i - 1, "Peer")
  BY <1>1 DEF KeysAt, Formed, Is
<1>3. i \in Nat /\ i - 1 + 1 = i
  BY <1>1, <1>2, KindHere
<1> DEFINE g == i - 1
<1>4. g \in HeadersAt(lines) /\ g + 1 = i
  BY <1>2, <1>3 DEF HeadersAt, Kind
<1>5. SectionKey(lines, g) = lines[i].is
  BY <1>1, <1>4, SectionOfOne
<1>6. ASSUME NEW f \in HeadersAt(lines), SectionKey(lines, f) = SectionKey(lines, g)
      PROVE  f <= g
  <2>1. f + 1 \in KeysAt(lines) /\ SectionKey(lines, f) = lines[f + 1].is /\ f \in Nat
    BY <1>1, SectionOfOne, SectionPlaces
  <2>2. /\ f + 1 \in DOMAIN lines /\ lines[f + 1].line = "PublicKey"
        /\ lines[f + 1] \in Lines /\ lines[i] \in Lines
    BY <1>1, <1>2, <2>1 DEF KeysAt, Is
  <2>3. lines[f + 1] = KeyLine(lines[f + 1].is) /\ lines[i] = KeyLine(lines[i].is)
    BY <1>2, <2>2, LineKinds
  <2>4. lines[f + 1] = lines[i]
    BY <1>5, <1>6, <2>1, <2>3
  <2>5. f + 1 = i
    BY <1>1, <1>2, <2>2, <2>4 DEF OnceEach
  <2>6. QED
    BY <1>3, <2>1, <2>5
<1>7. SectionPeer(lines, g) \in Stripped(lines)
  <2> HIDE DEF g
  <2>1. QED
    BY <1>4, <1>6, Zenon DEF Stripped
<1>8. SectionPeer(lines, g).key = lines[i].is
  BY <1>5 DEF SectionPeer
<1>9. QED
  BY <1>7, <1>8

(* An interface in step with a file in which nothing is twice shows the    *)
(* peers of the file.                                                      *)
LEMMA ShownIsFile ==
    ASSUME WellFormed(conf), kernel \notin {Nil, Mixed}, kernel = Stripped(conf), NEW shown \in Shown
    PROVE  shown = Peers(conf)
<1>1. shown = {p \in Peers(conf) : \E q \in kernel : q.key = p.key}
  BY ListedIsPeers DEF Shown
<1>2. ASSUME NEW i \in KeysAt(conf)
      PROVE  \E q \in kernel : q.key = PeerAt(conf, i).key
  <2>1. PeerAt(conf, i).key = conf[i].is
    BY DEF PeerAt
  <2>2. QED
    BY <2>1, KeysAreStripped
<1>3. QED
  BY <1>1, <1>2 DEF Peers

(* What a helper writes are lines.                                         *)
LEMMA WritesLines ==
    ASSUME NEW lines \in Seq(Lines), NEW n \in PeerNames
    PROVE  /\ RemovePeer(lines, n) \in Seq(Lines)
           /\ \A new \in PeerNames, group \in BOOLEAN, r \in Ranges :
                 UpdatePeer(lines, n, new, group, r) \in Seq(Lines)
           /\ \A group \in BOOLEAN, k \in PublicKeys, r \in Ranges :
                 AddPeer(lines, n, group, k, r) \in Seq(Lines)
<1>1. RemovePeer(lines, n) \in Seq(Lines)
  BY RemoveEdits DEF Edited
<1>2. ASSUME NEW new \in PeerNames, NEW group \in BOOLEAN, NEW r \in Ranges
      PROVE  UpdatePeer(lines, n, new, group, r) \in Seq(Lines)
  BY UpdateEdits DEF Edited
<1>3. ASSUME NEW group \in BOOLEAN, NEW k \in PublicKeys, NEW r \in Ranges
      PROVE  AddPeer(lines, n, group, k, r) \in Seq(Lines)
  <2>1. Block(n, group, FALSE, k, r) \in Seq(Lines)
    BY BlockIsFormed, NilIsNoName DEF OfPeer, WellFormed
  <2>2. AddPeer(lines, n, group, k, r) = lines \o Block(n, group, FALSE, k, r)
    BY AddedIsBlock
  <2>3. QED
    BY <2>1, <2>2, AppendedAt
<1>4. QED
  BY <1>1, <1>2, <1>3

(* What a helper of the peers writes has the form if the file had it; what *)
(* the raw editor writes are lines, with the key typed in for them; what   *)
(* is answered changes nothing.                                            *)
Begun(does, lines, key) ==
    /\ does \in Changes /\ op = Nil
    /\ lines \in Seq(Lines) /\ key \in KeyTexts /\ typed' \in KeyTexts
    /\ Rightly(key, typed')
    /\ does.to # "setraw" /\ WellFormed(conf) =>
          WellFormed(lines) /\ (TidyLines(conf) => TidyLines(lines))
    /\ Write(does, lines, key)

Answered(does) ==
    /\ does \in Changes /\ op = Nil /\ does.to \in {"add", "update", "remove"}
    /\ \E is \in {"satisfied", "refused"} : Respond(does, is)
    /\ typed' = typed
    /\ does.to = "remove" => \E shown \in Shown : ~Named(shown, does.name)

(* The fields of each kind of change.                                      *)
LEMMA ChangeShapes ==
    ASSUME NEW does \in Changes
    PROVE  /\ does.to = "add" => /\ does.name \in PeerNames /\ does.group \in BOOLEAN
                                 /\ does.key \in PublicKeys /\ does.range \in Ranges
           /\ does.to = "update" => /\ does.name \in PeerNames /\ does.new \in PeerNames
                                    /\ does.group \in BOOLEAN /\ does.range \in Ranges
           /\ does.to = "remove" => does.name \in PeerNames
<1>1. CASE does \in [to : {"add"}, name : PeerNames, group : BOOLEAN, key : PublicKeys, range : Ranges]
  BY <1>1
<1>2. CASE does \in [to : {"update"}, name : PeerNames, new : PeerNames, group : BOOLEAN, range : Ranges]
  BY <1>2
<1>3. CASE does \in [to : {"remove"}, name : PeerNames]
  BY <1>3
<1>4. CASE does \in [to : {"setraw"}]
  BY <1>4
<1>5. QED
  BY <1>1, <1>2, <1>3, <1>4 DEF Changes

(* A change is answered at once or begins.                                 *)
LEMMA ChangeDoes ==
    ASSUME ConfInv, op = Nil, NEW does \in Changes,
           \/ does.to = "add" /\ peerAdd(does)
           \/ does.to = "update" /\ peerUpdate(does)
           \/ does.to = "remove" /\ peerRemove(does)
           \/ does.to = "setraw" /\ setConfigRaw(does)
    PROVE  Answered(does) \/ \E lines, key : Begun(does, lines, key)
<1>1. conf \in Seq(Lines) /\ private \in KeyTexts /\ typed \in KeyTexts /\ Rightly(private, typed)
  BY DEF ConfInv, ConfTypeOK, KeyThroughout
<1>2. CASE does.to = "add" /\ peerAdd(does)
  <2>1. /\ does.name \in PeerNames /\ does.group \in BOOLEAN
        /\ does.key \in PublicKeys /\ does.range \in Ranges
    BY <1>2, ChangeShapes
  <2> DEFINE added == AddPeer(conf, does.name, does.group, does.key, does.range)
  <2>2. /\ typed' = typed
        /\ \/ \E is \in {"satisfied", "refused"} : Respond(does, is)
           \/ does.name \notin NamesIn(conf) /\ does.key \notin KeysIn(conf) /\ Write(does, added, private)
    BY <1>2 DEF peerAdd
  <2>3. CASE \E is \in {"satisfied", "refused"} : Respond(does, is)
    BY <1>2, <2>2, <2>3 DEF Answered
  <2>4. ASSUME does.name \notin NamesIn(conf), does.key \notin KeysIn(conf), Write(does, added, private)
        PROVE  \E lines, key : Begun(does, lines, key)
    <3>1. WellFormed(conf) => WellFormed(added) /\ (TidyLines(conf) => TidyLines(added))
      BY <2>1, <2>4, AddIsSound
    <3>2. added \in Seq(Lines)
      BY <1>1, <2>1, WritesLines
    <3> HIDE DEF added
    <3>3. Begun(does, added, private)
      BY <1>1, <2>2, <2>4, <3>1, <3>2 DEF Begun
    <3>4. QED
      BY <3>3
  <2> HIDE DEF added
  <2>5. QED
    BY <2>2, <2>3, <2>4
<1>3. CASE does.to = "update" /\ peerUpdate(does)
  <2>1. /\ does.name \in PeerNames /\ does.new \in PeerNames
        /\ does.group \in BOOLEAN /\ does.range \in Ranges
    BY <1>3, ChangeShapes
  <2> DEFINE updated == UpdatePeer(conf, does.name, does.new, does.group, does.range)
  <2>2. /\ typed' = typed
        /\ \/ Respond(does, "refused")
           \/ (does.new = does.name \/ does.new \notin NamesIn(conf)) /\ Write(does, updated, private)
    BY <1>3 DEF peerUpdate
  <2>3. CASE Respond(does, "refused")
    BY <1>3, <2>2, <2>3 DEF Answered
  <2>4. ASSUME does.new = does.name \/ does.new \notin NamesIn(conf), Write(does, updated, private)
        PROVE  \E lines, key : Begun(does, lines, key)
    <3>1. WellFormed(conf) => WellFormed(updated) /\ (TidyLines(conf) => TidyLines(updated))
      BY <2>1, <2>4, UpdateIsSound
    <3>2. updated \in Seq(Lines)
      BY <1>1, <2>1, WritesLines
    <3> HIDE DEF updated
    <3>3. Begun(does, updated, private)
      BY <1>1, <2>2, <2>4, <3>1, <3>2 DEF Begun
    <3>4. QED
      BY <3>3
  <2> HIDE DEF updated
  <2>5. QED
    BY <2>2, <2>3, <2>4
<1>4. CASE does.to = "remove" /\ peerRemove(does)
  <2>1. does.name \in PeerNames
    BY <1>4, ChangeShapes
  <2>2. /\ typed' = typed
        /\ \/ Respond(does, "satisfied") /\ \E shown \in Shown : ~Named(shown, does.name)
           \/ Write(does, RemovePeer(conf, does.name), private)
    BY <1>4 DEF peerRemove
  <2>3. CASE Respond(does, "satisfied") /\ \E shown \in Shown : ~Named(shown, does.name)
    BY <1>4, <2>2, <2>3 DEF Answered
  <2>4. CASE Write(does, RemovePeer(conf, does.name), private)
    <3>1. WellFormed(conf) =>
             /\ WellFormed(RemovePeer(conf, does.name))
             /\ TidyLines(conf) => TidyLines(RemovePeer(conf, does.name))
      BY RemoveIsSound
    <3>2. RemovePeer(conf, does.name) \in Seq(Lines)
      BY <1>1, <2>1, WritesLines
    <3>3. Begun(does, RemovePeer(conf, does.name), private)
      BY <1>1, <2>2, <2>4, <3>1, <3>2 DEF Begun
    <3>4. QED
      BY <3>3
  <2>5. QED
    BY <2>2, <2>3, <2>4
<1>5. CASE does.to = "setraw" /\ setConfigRaw(does)
  <2>1. PICK key \in KeyTexts \cup {Sentinel}, lines \in RawTexts \cup {conf} :
           Write(does, lines, Splice(key)) /\ typed' = IF key = Sentinel THEN typed ELSE key
    BY <1>5 DEF setConfigRaw
  <2>2. lines \in Seq(Lines)
    BY <1>1, ConfConstants
  <2>3. Splice(key) \in KeyTexts /\ typed' \in KeyTexts /\ Rightly(Splice(key), typed')
    <3>1. CASE key # Sentinel
      BY <2>1, <3>1 DEF Splice, Rightly
    <3>2. CASE key = Sentinel /\ private # Nil
      BY <1>1, <2>1, <3>2 DEF Splice
    <3>3. CASE key = Sentinel /\ private = Nil
      <4>1. typed = Nil
        BY <1>1, <3>3, ConfConstants DEF Rightly
      <4>2. Splice(key) = Mangled /\ typed' = Nil
        BY <2>1, <3>3, <4>1 DEF Splice
      <4>3. QED
        BY <4>2 DEF Rightly, KeyTexts
    <3>4. QED
      BY <3>1, <3>2, <3>3
  <2>4. Begun(does, lines, Splice(key))
    BY <1>5, <2>1, <2>2, <2>3 DEF Begun
  <2>5. QED
    BY <2>4
<1>6. QED
  BY <1>2, <1>3, <1>4, <1>5

LEMMA BegunIsPending ==
    ASSUME ConfInv, NEW does, NEW lines, NEW key, Begun(does, lines, key)
    PROVE  /\ op' \in Pending /\ op' # Nil /\ op'.does = does
           /\ op'.conf = conf /\ op'.private = private /\ op'.typed = typed
<1>1. op' = [conf |-> conf, private |-> private, typed |-> typed, does |-> does]
  BY DEF Begun, Write
<1>2. conf \in Seq(Lines) /\ private \in KeyTexts /\ typed \in KeyTexts /\ does \in Changes
  BY DEF ConfInv, ConfTypeOK, Begun
<1>3. op' \in Pending
  BY <1>1, <1>2 DEF Pending
<1>4. QED
  BY <1>1, <1>3, ConfConstants

(* The first step of a helper keeps the invariant.                         *)
LEMMA BegunStaysSound ==
    ASSUME ConfInv, NEW does, NEW lines, NEW key, Begun(does, lines, key)
    PROVE  ConfInv'
<1>1. /\ op' \in Pending /\ op' # Nil /\ op'.does = does
      /\ op'.conf = conf /\ op'.private = private /\ op'.typed = typed /\ op = Nil
  BY BegunIsPending DEF Begun
<1>2. /\ conf' = lines /\ private' = key /\ answer' = Nil /\ kernel' = kernel
      /\ lines \in Seq(Lines) /\ key \in KeyTexts /\ typed' \in KeyTexts /\ Rightly(key, typed')
  BY DEF Begun, Write
<1>3. ConfTypeOK'
  BY <1>1, <1>2 DEF ConfInv, ConfTypeOK, PeerSets
<1>4. KernelThroughout'
  BY <1>1, <1>2 DEF ConfInv, KernelThroughout, InStep
<1>5. KeyThroughout'
  BY <1>1, <1>2 DEF ConfInv, KeyThroughout, Rightly
<1>6. NoSuchPeerIsTrue'
  BY <1>2 DEF NoSuchPeerIsTrue
<1>7. QED
  BY <1>2, <1>3, <1>4, <1>5, <1>6 DEF ConfInv

(* An answer keeps the invariant: who is told that there is no such peer   *)
(* has seen an interface in step with the file, and so every peer of the   *)
(* file if nothing is in it twice.                                         *)
LEMMA AnsweredStaysSound ==
    ASSUME ConfInv, NEW does, Answered(does)
    PROVE  ConfInv'
<1>1. does \in Changes /\ op = Nil /\ does.to \in {"add", "update", "remove"} /\ typed' = typed
  BY DEF Answered
<1>2. PICK is \in {"satisfied", "refused"} : Respond(does, is)
  BY DEF Answered
<1>3. /\ answer' = [to |-> does.to, name |-> does.name, up |-> kernel # Nil /\ kernel # Mixed, is |-> is]
      /\ private' = private /\ conf' = conf /\ kernel' = kernel /\ op' = op
  BY <1>2 DEF Respond
<1>4. does.name \in PeerNames
  BY <1>1, ChangeShapes
<1>5. answer' \in Answers
  <2>1. (kernel # Nil /\ kernel # Mixed) \in BOOLEAN
    OBVIOUS
  <2>2. QED
    BY <1>1, <1>3, <1>4, <2>1 DEF Answers
<1>6. ConfTypeOK'
  <2>1. ConfTypeOK
    BY DEF ConfInv
  <2>2. QED
    BY <1>1, <1>3, <1>5, <2>1 DEF ConfTypeOK
<1>7. KernelThroughout' /\ KeyThroughout'
  BY <1>1, <1>3 DEF ConfInv, KernelThroughout, KeyThroughout, InStep
<1>8. NoSuchPeerIsTrue'
  <2> SUFFICES ASSUME answer'.to = "remove", answer'.up, Orderly(conf')
               PROVE  answer'.name \notin NamesIn(conf')
    BY DEF NoSuchPeerIsTrue
  <2>1. answer'.to = does.to /\ answer'.name = does.name /\ (answer'.up <=> kernel # Nil /\ kernel # Mixed)
    BY <1>3
  <2>2. kernel \notin {Nil, Mixed}
    BY <2>1
  <2>3. kernel = Stripped(conf)
    BY <1>1, <2>2 DEF ConfInv, KernelThroughout, InStep
  <2>4. PICK shown \in Shown : ~Named(shown, does.name)
    BY <2>1 DEF Answered
  <2>5. WellFormed(conf)
    BY <1>3 DEF ConfInv, ConfTypeOK, Orderly, WellFormed
  <2>6. shown = Peers(conf)
    BY <2>2, <2>3, <2>5, ShownIsFile
  <2>7. ~ \E p \in Peers(conf) : p.name = does.name
    BY <2>4, <2>6 DEF Named
  <2>8. does.name \notin NamesIn(conf)
    BY <2>5, <2>7, NamesHavePeers
  <2>9. QED
    BY <1>3, <2>1, <2>8
<1>9. QED
  BY <1>1, <1>3, <1>6, <1>7, <1>8 DEF ConfInv

(* The file put back is the one the interface was in step with.            *)
LEMMA PutBackIsSound ==
    ASSUME ConfInv, op # Nil, PutBack
    PROVE  /\ conf' \in Seq(Lines) /\ private' \in KeyTexts /\ typed' \in KeyTexts
           /\ Rightly(private', typed')
           /\ kernel \notin {Nil, Mixed} => kernel = Stripped(conf') /\ Accepts(private', conf')
<1>1. conf' = op.conf /\ private' = op.private /\ typed' = op.typed /\ op \in Pending
  BY DEF PutBack, ConfInv, ConfTypeOK
<1>2. op.private \in KeyTexts /\ op.conf \in Seq(Lines) /\ op.typed \in KeyTexts
  BY <1>1 DEF Pending
<1>3. kernel \notin {Nil, Mixed} => kernel = Stripped(op.conf) /\ Accepts(op.private, op.conf)
  BY DEF ConfInv, KernelThroughout, InStep
<1>4. Rightly(op.private, op.typed)
  BY DEF ConfInv, KeyThroughout
<1>5. QED
  BY <1>1, <1>2, <1>3, <1>4

(* The end of a helper: nothing is pending, nothing has been answered.     *)
LEMMA EndsSound ==
    ASSUME conf' \in Seq(Lines), private' \in KeyTexts, typed' \in KeyTexts, Rightly(private', typed'),
           kernel' \in PeerSets \cup {Nil, Mixed},
           kernel' \notin {Nil, Mixed} => kernel' = Stripped(conf') /\ Accepts(private', conf'),
           op' = Nil, answer' = Nil
    PROVE  ConfInv'
<1>1. ConfTypeOK'
  BY DEF ConfTypeOK
<1>2. KernelThroughout' /\ KeyThroughout' /\ NoSuchPeerIsTrue'
  BY DEF KernelThroughout, KeyThroughout, InStep, Rightly, NoSuchPeerIsTrue
<1>3. QED
  BY <1>1, <1>2 DEF ConfInv

(* The invariant holds at the start.                                       *)
LEMMA ConfInitSound ==
    ASSUME ConfInit
    PROVE  ConfInv
<1>1. /\ private \in PrivateKeys /\ typed = private /\ conf \in Files
      /\ kernel \in {Nil, Stripped(conf)} /\ op = Nil /\ answer = Nil
  BY DEF ConfInit
<1>2. conf \in Seq(Lines) /\ Formed(conf)
  BY <1>1, FilesAreFormed DEF WellFormed
<1>3. kernel \in PeerSets \cup {Nil, Mixed}
  BY <1>1, <1>2, StrippedIsPeerSet
<1>4. ConfTypeOK
  BY <1>1, <1>2, <1>3 DEF ConfTypeOK, KeyTexts
<1>5. Accepts(private, conf)
  BY <1>1, <1>2, FormedIsAccepted, ConfConstants
<1>6. KernelThroughout /\ KeyThroughout /\ NoSuchPeerIsTrue
  BY <1>1, <1>5 DEF KernelThroughout, KeyThroughout, InStep, Rightly, NoSuchPeerIsTrue
<1>7. QED
  BY <1>1, <1>4, <1>6 DEF ConfInv

(* Every step keeps the invariant.                                         *)
LEMMA ConfStepSound ==
    ASSUME ConfInv, [ConfNext]_confVars
    PROVE  ConfInv'
<1>1. /\ private \in KeyTexts /\ typed \in KeyTexts /\ conf \in Seq(Lines)
      /\ kernel \in PeerSets \cup {Nil, Mixed} /\ Rightly(private, typed)
      /\ op # Nil => answer = Nil
      /\ ConfTypeOK /\ KernelThroughout /\ KeyThroughout /\ NoSuchPeerIsTrue
  BY DEF ConfInv, ConfTypeOK, KeyThroughout
<1>2. Stripped(conf) \in PeerSets
  BY <1>1, StrippedIsPeerSet
<1>3. ASSUME op = Nil, NEW does \in Changes,
             \/ does.to = "add" /\ peerAdd(does)
             \/ does.to = "update" /\ peerUpdate(does)
             \/ does.to = "remove" /\ peerRemove(does)
             \/ does.to = "setraw" /\ setConfigRaw(does)
      PROVE  ConfInv'
  BY <1>3, ChangeDoes, BegunStaysSound, AnsweredStaysSound
<1>4. CASE Synchronise
  <2>1. /\ op' = Nil /\ answer' = Nil /\ kernel' = (IF kernel = Nil THEN Nil ELSE Stripped(conf))
        /\ conf' = conf /\ private' = private /\ typed' = typed
        /\ kernel # Nil => Accepts(private, conf)
    BY <1>1, <1>4 DEF Synchronise
  <2>2. QED
    BY <1>1, <1>2, <2>1, EndsSound
<1>5. CASE StripFails
  <2>1. op # Nil /\ PutBack /\ op' = Nil /\ kernel' = kernel /\ answer' = Nil
    BY <1>1, <1>5 DEF StripFails
  <2>2. QED
    BY <1>1, <2>1, PutBackIsSound, EndsSound
<1>6. CASE SynchroniseFails
  <2>1. op # Nil /\ PutBack /\ op' = Nil /\ kernel' \in {kernel, Mixed} /\ answer' = Nil
    BY <1>1, <1>6 DEF SynchroniseFails
  <2>2. QED
    BY <1>1, <2>1, PutBackIsSound, EndsSound
<1>7. CASE Killed
  <2>1. /\ op' = Nil /\ kernel' \in {Nil, Mixed} /\ answer' = Nil
        /\ conf' = conf /\ private' = private /\ typed' = typed
    BY <1>1, <1>7 DEF Killed
  <2>2. QED
    BY <1>1, <2>1, EndsSound
<1>8. CASE Up \/ Down
  <2>1. /\ op = Nil /\ op' = Nil /\ answer' = answer
        /\ conf' = conf /\ private' = private /\ typed' = typed
        /\ kernel' = Nil \/ (kernel' = Stripped(conf) /\ Accepts(private, conf))
    BY <1>8 DEF Up, Down
  <2>2. ConfTypeOK'
    BY <1>1, <1>2, <2>1 DEF ConfTypeOK
  <2>3. KernelThroughout' /\ KeyThroughout' /\ NoSuchPeerIsTrue'
    BY <1>1, <2>1 DEF KernelThroughout, KeyThroughout, InStep, Rightly, NoSuchPeerIsTrue
  <2>4. QED
    BY <2>1, <2>2, <2>3 DEF ConfInv
<1>9. CASE UNCHANGED confVars
  <2>1. private' = private /\ typed' = typed /\ conf' = conf /\ kernel' = kernel /\ op' = op /\ answer' = answer
    BY <1>9 DEF confVars
  <2>2. ConfTypeOK'
    BY <1>1, <2>1 DEF ConfTypeOK
  <2>3. KernelThroughout' /\ KeyThroughout' /\ NoSuchPeerIsTrue'
    BY <1>1, <2>1 DEF KernelThroughout, KeyThroughout, InStep, Rightly, NoSuchPeerIsTrue
  <2>4. QED
    BY <1>1, <2>1, <2>2, <2>3 DEF ConfInv
<1>10. QED
  BY <1>3, <1>4, <1>5, <1>6, <1>7, <1>8, <1>9 DEF ConfNext

(* Whatever the order of adding, updating and removing peers, of raw       *)
(* edits, failed synchronisations and killed helpers: an interface that is *)
(* in step is in step with the file as it was before the helper that is    *)
(* running, and that file has the private key typed in last                *)
(* (wireguard_peer_add.sh, wireguard_peer_update.sh,                       *)
(* wireguard_peer_remove.sh, wireguard_config.sh).                         *)
THEOREM ConfIsSound == ConfSpec => []ConfInv
<1>1. ConfInit => ConfInv
  BY ConfInitSound
<1>2. ConfInv /\ [ConfNext]_confVars => ConfInv'
  BY ConfStepSound
<1>3. QED
  BY <1>1, <1>2, PTL DEF ConfSpec

(* The running interface has the peers of the file, a file that it would   *)
(* take again, unless a helper was killed or a synchronisation failed      *)
(* since the last that worked: a failure puts the file back that the       *)
(* interface has (wireguard_peer_add.sh:96-112).                           *)
THEOREM KernelIsFile == ConfSpec => []KernelFollowsTheFile
<1>1. ConfInv => KernelFollowsTheFile
  BY DEF ConfInv, KernelThroughout, InStep, KernelFollowsTheFile
<1>2. QED
  BY <1>1, ConfIsSound, PTL

(* A removal answered with "no such peer" can be relied on unless the      *)
(* interface was down or out of step or the file has something twice or    *)
(* out of place (actions/wireguard.js:378-388).                            *)
THEOREM NoSuchPeer == ConfSpec => []NoSuchPeerIsTrue
<1>1. ConfInv => NoSuchPeerIsTrue
  BY DEF ConfInv
<1>2. QED
  BY <1>1, ConfIsSound, PTL

(* The private key of the file is the one found or last typed in, whatever *)
(* is edited with the sentinel in its place, put back or cut off           *)
(* (wireguard_config.sh:13-18, 54-68).                                     *)
THEOREM PrivateKeyKept == ConfSpec => []PrivateKeyIsKept
<1>1. ConfInv => PrivateKeyIsKept
  BY DEF ConfInv, KeyThroughout, Rightly, PrivateKeyIsKept
<1>2. QED
  BY <1>1, ConfIsSound, PTL

(* Every variable has its type.                                            *)
THEOREM ConfTypeCorrect == ConfSpec => []ConfTypeOK
<1>1. ConfInv => ConfTypeOK
  BY DEF ConfInv
<1>2. QED
  BY <1>1, ConfIsSound, PTL

--------------------------------------------------------------------------------
(* Peers whose markers stand together                                      *)

(* The first key after a name                                              *)
OwnKey(lines, m, k) ==
    /\ Kind(lines, k, "PublicKey")
    /\ \/ k = m + 2 /\ Kind(lines, m + 1, "Peer")
       \/ k = m + 3 /\ Kind(lines, m + 1, "group") /\ Kind(lines, m + 2, "Peer")

LEMMA RegionStep ==
    ASSUME NEW lines \in Seq(Lines), NEW m \in DOMAIN lines
    PROVE  /\ m \in Region(lines, m)
           /\ \A i : i \in Region(lines, m) /\ i + 1 \in DOMAIN lines /\ ~Is(lines, i + 1, "name")
                        => i + 1 \in Region(lines, m)
<1>1. Len(lines) \in Nat /\ m \in 1 .. Len(lines) /\ DOMAIN lines = 1 .. Len(lines)
  BY SequenceDomain
<1>2. m \in Region(lines, m)
  BY <1>1 DEF Region
<1>3. ASSUME NEW i \in Region(lines, m), i + 1 \in DOMAIN lines, ~Is(lines, i + 1, "name")
      PROVE  i + 1 \in Region(lines, m)
  <2>1. i \in m .. Len(lines) /\ \A j \in m + 1 .. i : ~Is(lines, j, "name")
    BY DEF Region
  <2>2. i + 1 \in m .. Len(lines) /\ \A j \in m + 1 .. i + 1 : j = i + 1 \/ j \in m + 1 .. i
    BY <1>1, <1>3, <2>1
  <2>3. \A j \in m + 1 .. i + 1 : ~Is(lines, j, "name")
    BY <1>3, <2>1, <2>2, Zenon
  <2>4. QED
    BY <2>2, <2>3 DEF Region
<1>4. QED
  BY <1>2, <1>3

(* In the region of a name stands the key of its own peer.                 *)
LEMMA OwnKeyInRegion ==
    ASSUME NEW lines \in Seq(Lines), Formed(lines), NEW m, Kind(lines, m, "name")
    PROVE  \E k \in KeysAt(lines) \cap Region(lines, m) : OwnKey(lines, m, k)
<1>1. m \in DOMAIN lines /\ m \in Nat
  BY KindHere DEF Kind
<1>2. m \in Region(lines, m)
  BY <1>1, RegionStep
<1>3. ASSUME NEW i \in Region(lines, m), NEW what, Kind(lines, i + 1, what), what # "name"
      PROVE  i + 1 \in Region(lines, m)
  <2>1. i + 1 \in DOMAIN lines /\ ~Is(lines, i + 1, "name")
    BY <1>3 DEF Kind, Is
  <2>2. QED
    BY <1>1, <2>1, RegionStep
<1>4. \A i \in Nat : i + 1 + 1 = i + 2 /\ i + 2 + 1 = i + 3
  OBVIOUS
<1>5. \A i \in DOMAIN lines : Is(lines, i, "Peer") => Kind(lines, i + 1, "PublicKey")
  BY DEF Formed
<1>6. CASE Kind(lines, m + 1, "Peer")
  <2>1. Kind(lines, m + 2, "PublicKey")
    BY <1>1, <1>4, <1>5, <1>6 DEF Kind
  <2>2. m + 1 \in Region(lines, m)
    BY <1>2, <1>3, <1>6
  <2>3. Kind(lines, m + 1 + 1, "PublicKey")
    BY <1>1, <1>4, <2>1
  <2>4. m + 1 + 1 \in Region(lines, m)
    BY <1>3, <2>2, <2>3
  <2>5. m + 2 \in Region(lines, m) /\ m + 2 \in KeysAt(lines)
    BY <1>1, <1>4, <2>1, <2>4 DEF KeysAt, Kind
  <2>6. OwnKey(lines, m, m + 2)
    BY <1>6, <2>1 DEF OwnKey
  <2>7. QED
    BY <2>5, <2>6
<1>7. CASE Kind(lines, m + 1, "group") /\ Kind(lines, m + 2, "Peer")
  <2>1. Kind(lines, m + 3, "PublicKey")
    BY <1>1, <1>4, <1>5, <1>7 DEF Kind
  <2>2. m + 1 \in Region(lines, m)
    BY <1>2, <1>3, <1>7
  <2>3. m + 2 \in Region(lines, m)
    <3>1. Kind(lines, m + 1 + 1, "Peer")
      BY <1>1, <1>4, <1>7
    <3>2. m + 1 + 1 \in Region(lines, m)
      BY <1>3, <2>2, <3>1
    <3>3. QED
      BY <1>1, <1>4, <3>2
  <2>4. m + 3 \in Region(lines, m) /\ m + 3 \in KeysAt(lines)
    <3>1. Kind(lines, m + 2 + 1, "PublicKey")
      BY <1>1, <1>4, <2>1
    <3>2. m + 2 + 1 \in Region(lines, m)
      BY <1>3, <2>3, <3>1
    <3>3. QED
      BY <1>1, <1>4, <2>1, <3>2 DEF KeysAt, Kind
  <2>5. OwnKey(lines, m, m + 3)
    BY <1>7, <2>1 DEF OwnKey
  <2>6. QED
    BY <2>4, <2>5
<1>8. QED
  BY <1>1, <1>6, <1>7 DEF Formed, Kind

(* Where each peer has its markers, name first, the region of a name ends  *)
(* with its own peer.                                                      *)
LEMMA TidyIsAlone ==
    ASSUME NEW lines, WellFormed(lines), TidyLines(lines), NEW m, Kind(lines, m, "name")
    PROVE  Alone(lines, m)
<1>1. lines \in Seq(Lines) /\ Formed(lines)
  BY DEF WellFormed
<1>2. m \in DOMAIN lines /\ m \in Nat /\ Len(lines) \in Nat /\ DOMAIN lines = 1 .. Len(lines)
  BY <1>1, KindHere DEF Kind
<1>3. PICK own \in KeysAt(lines) \cap Region(lines, m) : OwnKey(lines, m, own)
  BY <1>1, OwnKeyInRegion
<1>4. ASSUME NEW i \in Region(lines, m)
      PROVE  /\ i \in DOMAIN lines /\ i \in Nat /\ m <= i
             /\ \A j \in Nat : Kind(lines, j, "name") /\ j <= i => j <= m
  BY <1>2 DEF Region, Kind
<1>5. ASSUME NEW i \in Region(lines, m), Is(lines, i, "group")
      PROVE  i = m + 1
  <2>1. i \in DOMAIN lines /\ i \in Nat /\ m <= i
    BY <1>4
  <2>2. Kind(lines, i - 1, "name")
    BY <1>5, <2>1 DEF TidyLines
  <2>3. i - 1 \in Nat /\ i - 1 <= i
    BY <1>2, <2>1
  <2>4. i - 1 <= m
    BY <1>4, <2>2, <2>3
  <2>5. i # m
    BY <1>5 DEF Kind, Is
  <2>6. QED
    BY <1>2, <2>1, <2>3, <2>4, <2>5
<1>6. ~Kind(lines, m - 1, "group")
  <2> SUFFICES ASSUME Kind(lines, m - 1, "group")
               PROVE  FALSE
    OBVIOUS
  <2>1. Kind(lines, m - 1 - 1, "name")
    BY DEF TidyLines, Kind
  <2>2. \/ Kind(lines, m - 1 - 1 + 1, "Peer")
        \/ Kind(lines, m - 1 - 1 + 1, "group") /\ Kind(lines, m - 1 - 1 + 2, "Peer")
    BY <1>1, <2>1 DEF Formed, Kind
  <2>3. m - 1 - 1 + 1 = m - 1 /\ m - 1 - 1 + 2 = m
    BY <1>2
  <2>4. Kind(lines, m - 1, "Peer") \/ Kind(lines, m, "Peer")
    BY <2>2, <2>3, Zenon
  <2>5. QED
    BY <2>4 DEF Kind, Is
<1>7. ASSUME NEW k \in KeysAt(lines) \cap Region(lines, m)
      PROVE  OwnKey(lines, m, k)
  <2>1. k \in DOMAIN lines /\ k \in Nat /\ m <= k /\ Kind(lines, k, "PublicKey")
    BY <1>4 DEF KeysAt, Kind
  <2>2. Kind(lines, k - 1, "Peer")
    BY <1>1, <2>1 DEF Formed, Kind
  <2>3. k - 1 \in Nat /\ k - 1 # m /\ k # m
    BY <1>2, <2>1, <2>2 DEF Kind, Is
  <2>4. Kind(lines, k - 1 - 1, "name") \/ Kind(lines, k - 1 - 1, "group")
    BY <2>2 DEF TidyLines, Kind
  <2>5. CASE Kind(lines, k - 1 - 1, "name")
    <3>1. k - 1 - 1 \in Nat /\ k - 1 - 1 <= k
      BY <1>2, <2>1, <2>5 DEF Kind
    <3>2. k - 1 - 1 <= m
      BY <1>4, <2>5, <3>1
    <3>3. k = m + 2 /\ k - 1 = m + 1
      BY <1>2, <2>1, <2>3, <3>1, <3>2
    <3>4. Kind(lines, m + 1, "Peer")
      BY <2>2, <3>3, Zenon
    <3>5. QED
      BY <2>1, <3>3, <3>4 DEF OwnKey
  <2>6. CASE Kind(lines, k - 1 - 1, "group")
    <3>1. Kind(lines, k - 1 - 1 - 1, "name")
      BY <2>6 DEF TidyLines, Kind
    <3>2. k - 1 - 1 - 1 \in Nat /\ k - 1 - 1 - 1 <= k
      BY <1>2, <2>1, <3>1 DEF Kind
    <3>3. k - 1 - 1 - 1 <= m
      BY <1>4, <3>1, <3>2
    <3>4. k - 1 - 1 # m
      BY <2>6 DEF Kind, Is
    <3>5. k = m + 3 /\ k - 1 = m + 2 /\ k - 1 - 1 = m + 1
      BY <1>2, <2>1, <2>3, <3>2, <3>3, <3>4
    <3>6. Kind(lines, m + 2, "Peer") /\ Kind(lines, m + 1, "group")
      BY <2>2, <2>6, <3>5, Zenon
    <3>7. QED
      BY <2>1, <3>5, <3>6 DEF OwnKey
  <2>7. QED
    BY <2>4, <2>5, <2>6
<1>8. \A k \in KeysAt(lines) \cap Region(lines, m) : k = own
  BY <1>3, <1>7 DEF OwnKey, Kind, Is
<1>9. Region(lines, m) \cap KeysAt(lines) = {own}
  BY <1>3, <1>8
<1>10. Cardinality(Region(lines, m) \cap KeysAt(lines)) = 1
  BY <1>9, FS_Singleton
<1>11. QED
  BY <1>5, <1>6, <1>10 DEF Alone, Kind

(* For a file of the form, Tidy says no more than what it says of the      *)
(* lines beside each marker.                                               *)
LEMMA TidyIsLocal ==
    ASSUME NEW lines, WellFormed(lines)
    PROVE  Tidy(lines) <=> TidyLines(lines)
<1>1. lines \in Seq(Lines)
  BY DEF WellFormed
<1>2. ASSUME NEW i \in DOMAIN lines, NEW what
      PROVE  (i > 1 /\ Is(lines, i - 1, what)) <=> Kind(lines, i - 1, what)
  <2>1. i \in 1 .. Len(lines) /\ DOMAIN lines = 1 .. Len(lines) /\ Len(lines) \in Nat
    BY <1>1, SequenceDomain
  <2>2. i > 1 <=> i - 1 \in DOMAIN lines
    BY <2>1
  <2>3. QED
    BY <2>2, Zenon DEF Kind
<1>3. ASSUME NEW i \in DOMAIN lines
      PROVE  /\ GroupAfterName(lines, i) <=> Kind(lines, i - 1, "name")
             /\ (i > 1 /\ Is(lines, i - 1, "group")) <=> Kind(lines, i - 1, "group")
  BY <1>2, Zenon DEF GroupAfterName
<1>4. ASSUME Tidy(lines)
      PROVE  TidyLines(lines)
  BY <1>3, <1>4, Zenon DEF Tidy, TidyLines
<1>5. ASSUME TidyLines(lines), NEW i \in DOMAIN lines, Is(lines, i, "name")
      PROVE  Alone(lines, i)
  BY <1>5, TidyIsAlone DEF Kind
<1>6. ASSUME TidyLines(lines)
      PROVE  Tidy(lines)
  BY <1>3, <1>5, <1>6, Zenon DEF Tidy, TidyLines
<1>7. QED
  BY <1>4, <1>6

(* No step of a helper takes the markers apart, or puts in what is there   *)
(* already.                                                                *)
LEMMA StepStaysTidy ==
    ASSUME ConfInv, [ConfNext]_confVars, NEW to \in {"add", "update", "remove"}, Begins(to), Orderly(conf)
    PROVE  Orderly(conf') /\ (Tidy(conf) => Tidy(conf'))
<1>1. WellFormed(conf)
  BY DEF ConfInv, ConfTypeOK, Orderly, WellFormed
<1>2. op = Nil /\ op' # Nil /\ op'.does.to # "setraw"
  BY DEF Begins
<1>3. WellFormed(conf') /\ (TidyLines(conf) => TidyLines(conf'))
  <2>1. ASSUME NEW does \in Changes, NEW lines, NEW key, Begun(does, lines, key)
        PROVE  WellFormed(conf') /\ (TidyLines(conf) => TidyLines(conf'))
    <3>1. does.to # "setraw"
      BY <1>2, <2>1, BegunIsPending
    <3>2. QED
      BY <1>1, <2>1, <3>1 DEF Begun, Write
  <2>2. \A does : ~Answered(does)
    BY <1>2 DEF Answered, Respond
  <2>3. PICK does \in Changes : \/ does.to = "add" /\ peerAdd(does)
                                \/ does.to = "update" /\ peerUpdate(does)
                                \/ does.to = "remove" /\ peerRemove(does)
                                \/ does.to = "setraw" /\ setConfigRaw(does)
    BY <1>2 DEF ConfNext, Synchronise, StripFails, SynchroniseFails, Killed, Up, Down, confVars
  <2>4. QED
    BY <1>2, <2>1, <2>2, <2>3, ChangeDoes
<1>4. Orderly(conf')
  BY <1>3 DEF WellFormed, Orderly
<1>5. QED
  BY <1>1, <1>3, <1>4, TidyIsLocal

(* The helpers never take the markers of a peer apart, and never put in a  *)
(* name or a key that is there                                             *)
(* (wireguard_peer_add.sh:55-62, 80-93, wireguard_peer_update.sh:71-102).  *)
THEOREM HelpersKeepTidy == ConfSpec => TidyStays
<1>1. ConfInv /\ [ConfNext]_confVars =>
        \A to \in {"add", "update", "remove"} : Begins(to) /\ Orderly(conf) =>
            Orderly(conf') /\ (Tidy(conf) => Tidy(conf'))
  BY StepStaysTidy
<1>2. QED
  BY <1>1, ConfIsSound, PTL DEF ConfSpec, TidyStays

--------------------------------------------------------------------------------
(* What an edit leaves of the other peers, and of the named one            *)

(* An edit of the region of a name whose peer stands alone in it: other    *)
(* lines stay as they are, and group lines of the region go.               *)
Excised(lines, n, out, at, parts) ==
    /\ WellFormed(lines) /\ WellFormed(out)
    /\ Stand(lines, out, at, parts)
    /\ at[1] = 1
    /\ \A k \in 1 .. Len(lines) + 1 : at[k] \in Nat /\ \A j \in 1 .. k : at[j] <= at[k]
    /\ \A m \in Marker(lines, n) : Alone(lines, m)
    /\ \A k \in 1 .. Len(lines) : k \notin Reach(lines, n) => parts[k] = <<lines[k]>>
    /\ \A k \in 1 .. Len(lines) : k \in Reach(lines, n) /\ Is(lines, k, "group") => ~Stays(parts, k)
    /\ \A j, k \in 1 .. Len(lines) : Len(parts[j]) = 2 /\ ~Stays(parts, k) => Is(lines, k, "group")

LEMMA ExcisedIs ==
    ASSUME NEW lines, NEW n, NEW out, NEW at, NEW parts, Excised(lines, n, out, at, parts)
    PROVE  /\ lines \in Seq(Lines) /\ Formed(lines) /\ out \in Seq(Lines) /\ Formed(out)
           /\ DOMAIN lines = 1 .. Len(lines) /\ Len(lines) \in Nat
           /\ DOMAIN out = 1 .. Len(out) /\ Len(out) \in Nat
           /\ \A k \in 1 .. Len(lines) : StandsAt(lines, out, at, parts, k)
           /\ \A p \in 1 .. Len(out) : ComesFrom(lines, out, at, parts, p)
  BY SequenceDomain DEF Excised, WellFormed, Stand

LEMMA OutOfReach ==
    ASSUME NEW lines, NEW n, NEW out, NEW at, NEW parts, Excised(lines, n, out, at, parts),
           NEW k \in 1 .. Len(lines), k \notin Reach(lines, n)
    PROVE  /\ Stays(parts, k) /\ at[k] \in 1 .. Len(out) /\ at[k] \in Nat /\ at[k + 1] = at[k] + 1
           /\ out[at[k]] = lines[k]
<1>1. parts[k] = <<lines[k]>>
  BY DEF Excised
<1>2. parts[k] # <<>> /\ parts[k][1] = lines[k] /\ Len(parts[k]) = 1
  BY <1>1, Single
<1>3. StandsAt(lines, out, at, parts, k)
  BY ExcisedIs
<1>4. QED
  BY <1>2, <1>3 DEF StandsAt, Stays

(* Between lines that come to stand at the same place everything has gone. *)
LEMMA SkipsGone ==
    ASSUME NEW lines, NEW n, NEW out, NEW at, NEW parts, Excised(lines, n, out, at, parts),
           NEW i \in 1 .. Len(lines), NEW a \in 1 .. Len(lines), a < i, at[a] = at[i]
    PROVE  ~Stays(parts, a) /\ at[a + 1] = at[i]
<1>1. Len(lines) \in Nat /\ StandsAt(lines, out, at, parts, a)
  BY ExcisedIs
<1>2. a + 1 \in 1 .. i /\ i \in 1 .. Len(lines) + 1
  BY <1>1
<1>3. at[a + 1] <= at[i] /\ at[i] \in Nat
  BY <1>2 DEF Excised
<1>4. ~Stays(parts, a)
  BY <1>1, <1>3 DEF StandsAt
<1>5. QED
  BY <1>1, <1>4 DEF StandsAt

(* A group marker in the region of a name that stands alone is the one     *)
(* after it.                                                               *)
LEMMA AloneIs ==
    ASSUME NEW lines, NEW n, NEW i, (\A m \in Marker(lines, n) : Alone(lines, m)), Kind(lines, i, "group")
    PROVE  /\ i \in Reach(lines, n) => \E m \in Marker(lines, n) : i = m + 1
           /\ \A m \in Marker(lines, n) : i = m - 1 => i = m + 1
  BY DEF Reach, Alone, Kind

(* A name that stays has a group marker before it exactly if it had one:   *)
(* no other group marker comes to stand there.                             *)
LEMMA GroupBefore ==
    ASSUME NEW lines, NEW n, NEW out, NEW at, NEW parts, Excised(lines, n, out, at, parts),
           NEW i, Kind(lines, i, "name"), Stays(parts, i)
    PROVE  Kind(out, at[i] - 1, "group") <=> Kind(lines, i - 1, "group")
<1>1. /\ lines \in Seq(Lines) /\ Formed(lines)
      /\ DOMAIN lines = 1 .. Len(lines) /\ Len(lines) \in Nat
      /\ DOMAIN out = 1 .. Len(out) /\ Len(out) \in Nat
  BY ExcisedIs
<1>2. i \in 1 .. Len(lines)
  BY <1>1 DEF Kind
<1>3. at[i] \in Nat
  BY <1>1, <1>2 DEF Excised
<1>4. \A m \in Marker(lines, n) : Alone(lines, m)
  BY DEF Excised
<1>5. ASSUME Kind(lines, i - 1, "group")
      PROVE  Kind(out, at[i] - 1, "group")
  <2>1. i - 1 \in 1 .. Len(lines) /\ i - 1 + 1 = i
    BY <1>1, <1>2, <1>5 DEF Kind
  <2>2. i - 1 \notin Reach(lines, n)
    <3> SUFFICES ASSUME i - 1 \in Reach(lines, n)
                 PROVE  FALSE
      OBVIOUS
    <3>1. PICK m \in Marker(lines, n) : i - 1 = m + 1
      BY <1>4, <1>5, AloneIs
    <3>2. m \in DOMAIN lines /\ lines[m] = NameLine(n)
      BY DEF Marker
    <3>3. Is(lines, m, "name") /\ m + 1 = i - 1 /\ m + 2 = i
      BY <1>1, <1>2, <3>1, <3>2, LineFacts DEF Is
    <3>4. Kind(lines, i - 1, "Peer") \/ Kind(lines, i, "Peer")
      BY <1>1, <3>2, <3>3 DEF Formed
    <3>5. QED
      BY <1>5, <3>4 DEF Kind, Is
  <2>3. at[i - 1] \in 1 .. Len(out) /\ at[i - 1 + 1] = at[i - 1] + 1 /\ out[at[i - 1]] = lines[i - 1]
    BY <2>1, <2>2, OutOfReach
  <2>4. at[i] - 1 = at[i - 1]
    BY <1>1, <2>1, <2>3
  <2>5. QED
    BY <1>1, <1>5, <2>3, <2>4 DEF Kind, Is
<1>6. ASSUME Kind(out, at[i] - 1, "group")
      PROVE  Kind(lines, i - 1, "group")
  <2> DEFINE p == at[i] - 1
  <2>1. p \in 1 .. Len(out) /\ out[p].line = "group" /\ p + 1 = at[i]
    BY <1>1, <1>3, <1>6 DEF Kind, Is
  <2> HIDE DEF p
  <2>2. PICK j \in 1 .. Len(lines) :
           /\ Stays(parts, j)
           /\ \/ p = at[j]
              \/ p = at[j] + 1 /\ at[j + 1] = at[j] + 2 /\ lines[j].line = "name" /\ out[p] = GroupLine
    BY <2>1, ExcisedIs DEF ComesFrom
  <2>3. at[j] \in Nat /\ StandsAt(lines, out, at, parts, j)
    BY <1>1, ExcisedIs DEF Excised
  <2>4. j < i
    <3>1. at[j] < at[i]
      BY <2>1, <2>2, <2>3
    <3>2. i <= j => at[i] <= at[j]
      BY <1>1, <1>2 DEF Excised
    <3>3. QED
      BY <1>1, <1>2, <1>3, <2>3, <3>1, <3>2
  <2>5. CASE p = at[j]
    <3>1. Kind(lines, j, "group")
      BY <1>1, <2>1, <2>2, <2>3, <2>5 DEF StandsAt, Kind, Is
    <3>2. j \notin Reach(lines, n)
      BY <2>2, <3>1 DEF Excised, Kind
    <3>3. at[j + 1] = at[i]
      BY <2>1, <2>5, <3>2, OutOfReach
    <3>4. CASE j = i - 1
      BY <3>1, <3>4
    <3>5. CASE j # i - 1
      <4>1. j + 1 \in 1 .. Len(lines) /\ j + 1 < i /\ j + 1 - 1 = j
        BY <1>1, <1>2, <2>4, <3>5
      <4>2. ~Stays(parts, j + 1)
        BY <1>2, <3>3, <4>1, SkipsGone
      <4>3. j + 1 \in Reach(lines, n)
        BY <4>1, <4>2, OutOfReach
      <4>4. lines[j + 1] = NameLine(n)
        BY <1>1, <3>2, <4>1, <4>3, ReachStep
      <4>5. j + 1 \in Marker(lines, n)
        BY <1>1, <4>1, <4>4 DEF Marker
      <4>6. \A m \in Marker(lines, n) : j = m - 1 => j = m + 1
        BY <1>4, <3>1, AloneIs
      <4>7. QED
        BY <4>1, <4>5, <4>6
    <3>6. QED
      BY <3>4, <3>5
  <2>6. CASE p = at[j] + 1 /\ at[j + 1] = at[j] + 2 /\ lines[j].line = "name"
    <3>1. at[j + 1] = at[i] /\ Len(parts[j]) = 2
      BY <2>1, <2>2, <2>3, <2>6 DEF StandsAt
    <3>2. Kind(lines, j + 1, "Peer") \/ (Kind(lines, j + 1, "group") /\ Kind(lines, j + 2, "Peer"))
      BY <1>1, <2>6 DEF Formed, Is
    <3>3. j + 1 # i
      BY <3>2, Zenon DEF Kind, Is
    <3>4. j + 1 \in 1 .. Len(lines) /\ j + 1 < i /\ j + 1 + 1 = j + 2
      BY <1>1, <1>2, <2>4, <3>3
    <3>5. ~Stays(parts, j + 1) /\ at[j + 2] = at[i]
      BY <1>2, <3>1, <3>4, SkipsGone
    <3>6. Is(lines, j + 1, "group")
      BY <3>1, <3>4, <3>5 DEF Excised
    <3>7. Kind(lines, j + 2, "Peer")
      BY <3>2, <3>6 DEF Kind, Is
    <3>12. j + 2 # i
      BY <3>7, Zenon DEF Kind, Is
    <3>8. j + 2 \in 1 .. Len(lines) /\ j + 2 < i
      BY <1>1, <1>2, <3>4, <3>12
    <3>9. ~Stays(parts, j + 2)
      BY <1>2, <3>5, <3>8, SkipsGone
    <3>10. Is(lines, j + 2, "group")
      BY <3>1, <3>8, <3>9 DEF Excised
    <3>11. QED
      BY <3>7, <3>10 DEF Kind, Is
  <2>7. QED
    BY <2>2, <2>5, <2>6
<1>7. QED
  BY <1>5, <1>6

(* Every other peer reads as it did.                                       *)
LEMMA OthersKeep ==
    ASSUME NEW lines, NEW n, NEW out, NEW at, NEW parts, Excised(lines, n, out, at, parts),
           NEW k \in KeysAt(lines), k \notin Reach(lines, n)
    PROVE  at[k] \in KeysAt(out) /\ PeerBy(out, at[k]) = PeerBy(lines, k)
<1>1. /\ lines \in Seq(Lines) /\ Formed(lines)
      /\ DOMAIN lines = 1 .. Len(lines) /\ Len(lines) \in Nat
      /\ DOMAIN out = 1 .. Len(out) /\ Len(out) \in Nat
  BY ExcisedIs
<1>2. k \in 1 .. Len(lines) /\ Is(lines, k, "PublicKey")
  BY <1>1 DEF KeysAt
<1>3. Kind(lines, k - 1, "Peer") /\ Kind(lines, k + 1, "AllowedIPs")
  BY <1>1, <1>2 DEF Formed
<1>4. /\ k - 1 \in 1 .. Len(lines) /\ k + 1 \in 1 .. Len(lines) /\ k - 1 + 1 = k
      /\ ~Is(lines, k, "name") /\ ~Is(lines, k - 1, "name") /\ ~Is(lines, k + 1, "name")
  BY <1>1, <1>2, <1>3 DEF Kind, Is
<1>5. k - 1 \notin Reach(lines, n) /\ k + 1 \notin Reach(lines, n)
  <2>1. k + 1 \notin Reach(lines, n)
    BY <1>1, <1>2, <1>4, ReachGoesOn
  <2>2. ASSUME NEW j \in DOMAIN lines, j + 1 = k
        PROVE  j \notin Reach(lines, n)
    BY <1>1, <1>2, <1>4, <2>2, ReachGoesOn
  <2>3. QED
    BY <1>1, <1>4, <2>1, <2>2
<1>6. /\ at[k] \in 1 .. Len(out) /\ at[k + 1] = at[k] + 1 /\ out[at[k]] = lines[k]
      /\ at[k + 1] \in 1 .. Len(out) /\ out[at[k + 1]] = lines[k + 1]
      /\ at[k - 1] \in 1 .. Len(out) /\ at[k] = at[k - 1] + 1
  BY <1>2, <1>4, <1>5, OutOfReach
<1>7. at[k] \in KeysAt(out)
  BY <1>1, <1>2, <1>6 DEF KeysAt, Is
<1>8. out[at[k]].is = lines[k].is /\ out[at[k] + 1].is = lines[k + 1].is
  BY <1>6
<1>9. NameBy(out, at[k]) = NameBy(lines, k) /\ (GroupBy(out, at[k]) <=> GroupBy(lines, k))
  <2>1. CASE k - 2 \notin DOMAIN lines
    <3>1. k - 1 = 1
      BY <1>1, <1>2, <1>4, <2>1
    <3>2. at[k] - 2 \notin DOMAIN out
      BY <1>1, <1>6, <3>1 DEF Excised
    <3>3. QED
      BY <2>1, <3>2 DEF NameBy, GroupBy, Kind
  <2>2. CASE k - 2 \in DOMAIN lines
    <3>1. k - 2 \in 1 .. Len(lines) /\ k - 2 + 1 = k - 1
      BY <1>1, <1>2, <2>2
    <3>2. k - 2 \notin Reach(lines, n)
      BY <1>1, <1>4, <1>5, <3>1, ReachGoesOn
    <3>3. at[k - 2] \in 1 .. Len(out) /\ at[k - 1] = at[k - 2] + 1 /\ out[at[k - 2]] = lines[k - 2] /\ Stays(parts, k - 2)
      BY <3>1, <3>2, OutOfReach
    <3>4. at[k] - 2 = at[k - 2] /\ at[k] - 3 = at[k - 2] - 1
      BY <1>1, <1>6, <3>3
    <3>5. \A what : Kind(out, at[k] - 2, what) <=> Kind(lines, k - 2, what)
      BY <1>1, <2>2, <3>3, <3>4 DEF Kind, Is
    <3>6. out[at[k] - 2].is = lines[k - 2].is
      BY <3>3, <3>4
    <3>7. CASE Kind(lines, k - 2, "name")
      <4>1. Kind(out, at[k - 2] - 1, "group") <=> Kind(lines, k - 2 - 1, "group")
        BY <3>3, <3>7, GroupBefore
      <4>2. k - 2 - 1 = k - 3
        BY <1>2
      <4>3. Kind(out, at[k] - 3, "group") <=> Kind(lines, k - 3, "group")
        BY <3>4, <4>1, <4>2, Zenon
      <4>4. ~Kind(lines, k - 2, "group")
        BY <3>7 DEF Kind, Is
      <4>5. QED
        BY <3>5, <3>6, <3>7, <4>3, <4>4, Zenon DEF NameBy, GroupBy
    <3>8. CASE Kind(lines, k - 2, "group")
      <4>1. ~Kind(lines, k - 2, "name")
        BY <3>8 DEF Kind, Is
      <4>2. CASE k - 3 \notin DOMAIN lines
        <5>1. k - 2 = 1
          BY <1>1, <1>2, <3>1, <4>2
        <5>2. at[k] - 3 \notin DOMAIN out
          BY <1>1, <3>3, <3>4, <5>1 DEF Excised
        <5>3. ~Kind(lines, k - 3, "name") /\ ~Kind(out, at[k] - 3, "name")
          BY <4>2, <5>2 DEF Kind
        <5>4. QED
          BY <3>5, <3>8, <4>1, <5>3, Zenon DEF NameBy, GroupBy
      <4>3. CASE k - 3 \in DOMAIN lines
        <5>1. k - 3 \in 1 .. Len(lines) /\ k - 3 + 1 = k - 2
          BY <1>1, <1>2, <4>3
        <5>2. ~Is(lines, k - 2, "name")
          BY <3>8 DEF Kind, Is
        <5>3. k - 3 \notin Reach(lines, n)
          BY <1>1, <3>1, <3>2, <5>1, <5>2, ReachGoesOn
        <5>4. at[k - 3] \in 1 .. Len(out) /\ at[k - 2] = at[k - 3] + 1 /\ out[at[k - 3]] = lines[k - 3]
          BY <5>1, <5>3, OutOfReach
        <5>5. at[k] - 3 = at[k - 3]
          BY <1>1, <3>4, <5>4
        <5>6. Kind(out, at[k] - 3, "name") <=> Kind(lines, k - 3, "name")
          BY <1>1, <4>3, <5>4, <5>5 DEF Kind, Is
        <5>7. out[at[k] - 3].is = lines[k - 3].is
          BY <5>4, <5>5
        <5>8. QED
          BY <3>5, <3>8, <4>1, <5>6, <5>7, Zenon DEF NameBy, GroupBy
      <4>4. QED
        BY <4>2, <4>3
    <3>9. CASE ~Kind(lines, k - 2, "name") /\ ~Kind(lines, k - 2, "group")
      BY <3>5, <3>9, Zenon DEF NameBy, GroupBy
    <3>10. QED
      BY <3>7, <3>8, <3>9
  <2>3. QED
    BY <2>1, <2>2
<1>10. GroupBy(out, at[k]) = GroupBy(lines, k)
  BY <1>9, Zenon DEF GroupBy
<1>11. PeerBy(out, at[k]) = PeerBy(lines, k)
  BY <1>8, <1>9, <1>10, Zenon DEF PeerBy
<1>12. QED
  BY <1>7, <1>11

LEMMA EditedIs ==
    ASSUME NEW lines, WellFormed(lines), NEW out, NEW at, NEW parts, Edited(lines, out, at, parts)
    PROVE  at[1] = 1 /\ \A k \in 1 .. Len(lines) + 1 : at[k] \in Nat /\ \A j \in 1 .. k : at[j] <= at[k]
  BY DEF Edited

(* A removal is such an edit.                                              *)
LEMMA RemovedIsExcised ==
    ASSUME NEW lines, WellFormed(lines), NEW n, (\A m \in Marker(lines, n) : Alone(lines, m))
    PROVE  \E at : Excised(lines, n, RemovePeer(lines, n), at, Removed(lines, n))
<1>1. PICK at : Edited(lines, RemovePeer(lines, n), at, Removed(lines, n))
  BY RemoveEdits DEF WellFormed
<1>2. Stand(lines, RemovePeer(lines, n), at, Removed(lines, n)) /\ WellFormed(RemovePeer(lines, n))
  BY <1>1, RemoveKeeps, EditKeeps
<1>3. ASSUME NEW k \in 1 .. Len(lines)
      PROVE  /\ k \notin Reach(lines, n) => Removed(lines, n)[k] = <<lines[k]>> /\ Len(Removed(lines, n)[k]) = 1
             /\ k \in Reach(lines, n) => ~Stays(Removed(lines, n), k) /\ Len(Removed(lines, n)[k]) = 0
  BY Single DEF Removed, Stays
<1>4. \A j \in 1 .. Len(lines) : Len(Removed(lines, n)[j]) # 2
  <2> TAKE j \in 1 .. Len(lines)
  <2>1. Len(Removed(lines, n)[j]) = 0 \/ Len(Removed(lines, n)[j]) = 1
    BY <1>3
  <2>2. QED
    BY <2>1
<1>5. at[1] = 1 /\ \A k \in 1 .. Len(lines) + 1 : at[k] \in Nat /\ \A j \in 1 .. k : at[j] <= at[k]
  BY <1>1, EditedIs
<1>6. Excised(lines, n, RemovePeer(lines, n), at, Removed(lines, n))
  BY <1>2, <1>3, <1>4, <1>5 DEF Excised
<1>7. QED
  BY <1>6

(* An update is such an edit.                                              *)
LEMMA RenewedIsExcised ==
    ASSUME NEW lines, WellFormed(lines), NEW n, (\A m \in Marker(lines, n) : Alone(lines, m)),
           NEW new \in PeerNames, NEW group, NEW r \in Ranges, new = n \/ new \notin NamesIn(lines)
    PROVE  \E at : Excised(lines, n, UpdatePeer(lines, n, new, group, r), at, Renewed(lines, n, new, group, r))
<1> DEFINE parts == Renewed(lines, n, new, group, r)
           out == UpdatePeer(lines, n, new, group, r)
<1>1. PICK at : Edited(lines, out, at, parts)
  BY UpdateEdits DEF WellFormed
<1>2. Stand(lines, out, at, parts) /\ WellFormed(out)
  BY <1>1, UpdateKeeps, EditKeeps
<1>3. \A k \in 1 .. Len(lines) : RenewedIs(lines, n, new, group, r, k, parts[k])
  BY RenewedParts DEF WellFormed
<1> HIDE DEF parts, out
<1>4. ASSUME NEW k \in 1 .. Len(lines)
      PROVE  /\ k \notin Reach(lines, n) => parts[k] = <<lines[k]>>
             /\ k \in Reach(lines, n) /\ Is(lines, k, "group") => ~Stays(parts, k)
             /\ ~Stays(parts, k) => Is(lines, k, "group")
  <2>1. RenewedIs(lines, n, new, group, r, k, parts[k])
    BY <1>3
  <2>2. lines[k] = NameLine(n) => k \in Reach(lines, n) /\ ~Is(lines, k, "group")
    <3>1. lines[k] = NameLine(n) => k \in Reach(lines, n)
      BY ReachStep DEF WellFormed
    <3>2. lines[k] = NameLine(n) => ~Is(lines, k, "group")
      BY LineFacts DEF Is
    <3>3. QED
      BY <3>1, <3>2
  <2>3. QED
    BY <2>1, <2>2 DEF RenewedIs, Stays
<1>5. at[1] = 1 /\ \A k \in 1 .. Len(lines) + 1 : at[k] \in Nat /\ \A j \in 1 .. k : at[j] <= at[k]
  BY <1>1, EditedIs
<1>6. Excised(lines, n, out, at, parts)
  BY <1>2, <1>4, <1>5 DEF Excised
<1>7. QED
  BY <1>6 DEF parts, out

(* The peer in the region of a name is the peer of that name.              *)
LEMMA ReachIsNamed ==
    ASSUME NEW lines, WellFormed(lines), NEW n, n # Nil, (\A m \in Marker(lines, n) : Alone(lines, m)),
           NEW k \in KeysAt(lines)
    PROVE  /\ k \in Reach(lines, n) => \E m \in Marker(lines, n) : OwnKey(lines, m, k)
           /\ k \in Reach(lines, n) <=> NameBy(lines, k) = n
<1>1. /\ lines \in Seq(Lines) /\ Formed(lines)
      /\ DOMAIN lines = 1 .. Len(lines) /\ Len(lines) \in Nat
      /\ k \in 1 .. Len(lines) /\ Kind(lines, k, "PublicKey") /\ Kind(lines, k - 1, "Peer")
  BY SequenceDomain DEF WellFormed, KeysAt, Formed, Kind
<1>2. \A m \in Marker(lines, n) : Kind(lines, m, "name") /\ lines[m].is = n /\ m \in 1 .. Len(lines)
  BY <1>1, LineFacts DEF Marker, Kind, Is
<1>3. ASSUME k \in Reach(lines, n)
      PROVE  \E m \in Marker(lines, n) : OwnKey(lines, m, k)
  <2>1. PICK m \in Marker(lines, n) : k \in Region(lines, m)
    BY <1>3 DEF Reach
  <2>2. PICK own \in KeysAt(lines) \cap Region(lines, m) : OwnKey(lines, m, own)
    BY <1>1, <1>2, OwnKeyInRegion
  <2>3. Cardinality(Region(lines, m) \cap KeysAt(lines)) = 1
    BY DEF Alone
  <2>4. IsFiniteSet(Region(lines, m) \cap KeysAt(lines))
    <3>1. Region(lines, m) \cap KeysAt(lines) \subseteq 1 .. Len(lines)
      BY <1>1 DEF KeysAt
    <3>2. IsFiniteSet(1 .. Len(lines))
      BY <1>1, FS_Interval
    <3>3. QED
      BY <3>1, <3>2, FS_Subset
  <2>5. PICK x : Region(lines, m) \cap KeysAt(lines) = {x}
    BY <2>3, <2>4, FS_Singleton
  <2>6. k = own
    BY <2>1, <2>5
  <2>7. QED
    BY <2>2, <2>6
<1>4. ASSUME NEW m \in Marker(lines, n), OwnKey(lines, m, k)
      PROVE  NameBy(lines, k) = n
  <2>1. CASE k = m + 2 /\ Kind(lines, m + 1, "Peer")
    <3>1. k - 2 = m
      BY <1>2, <2>1
    <3>2. QED
      BY <1>2, <3>1 DEF NameBy
  <2>2. CASE k = m + 3 /\ Kind(lines, m + 1, "group")
    <3>1. k - 3 = m /\ k - 2 = m + 1
      BY <1>2, <2>2
    <3>2. ~Kind(lines, k - 2, "name") /\ Kind(lines, k - 2, "group")
      BY <2>2, <3>1 DEF Kind, Is
    <3>3. QED
      BY <1>2, <3>1, <3>2 DEF NameBy
  <2>3. QED
    BY <1>4, <2>1, <2>2 DEF OwnKey
<1>5. ASSUME NEW m, Kind(lines, m, "name"), lines[m].is = n,
             \/ m = k - 2
             \/ m = k - 3 /\ Kind(lines, k - 2, "group")
      PROVE  k \in Reach(lines, n)
  <2>1. m \in Nat /\ m \in DOMAIN lines /\ lines[m] \in Lines
    BY <1>1, <1>5 DEF Kind
  <2>2. m \in Marker(lines, n)
    BY <1>5, <2>1, LineKinds DEF Marker, Kind, Is
  <2>3. PICK own \in KeysAt(lines) \cap Region(lines, m) : OwnKey(lines, m, own)
    BY <1>1, <1>5, OwnKeyInRegion
  <2>4. CASE m = k - 2
    <3>1. m + 1 = k - 1 /\ m + 2 = k
      BY <1>1, <2>4
    <3>2. ~Kind(lines, m + 1, "group")
      BY <1>1, <3>1 DEF Kind, Is
    <3>3. QED
      BY <2>2, <2>3, <3>1, <3>2 DEF OwnKey, Reach
  <2>5. CASE m = k - 3 /\ Kind(lines, k - 2, "group")
    <3>1. m + 1 = k - 2 /\ m + 3 = k
      BY <1>1, <2>5
    <3>2. ~Kind(lines, m + 1, "Peer")
      BY <2>5, <3>1 DEF Kind, Is
    <3>3. QED
      BY <2>2, <2>3, <3>1, <3>2 DEF OwnKey, Reach
  <2>6. QED
    BY <1>5, <2>4, <2>5
<1>6. ASSUME NameBy(lines, k) = n
      PROVE  k \in Reach(lines, n)
  <2>1. CASE Kind(lines, k - 2, "name")
    BY <1>5, <1>6, <2>1 DEF NameBy
  <2>2. CASE ~Kind(lines, k - 2, "name")
    BY <1>5, <1>6, <2>2 DEF NameBy
  <2>3. QED
    BY <2>1, <2>2
<1>7. QED
  BY <1>3, <1>4, <1>6

(* The keys of the new file were in the old one.                           *)
LEMMA KeysOfEdit ==
    ASSUME NEW lines, NEW n, NEW out, NEW at, NEW parts, Excised(lines, n, out, at, parts), NEW p \in KeysAt(out)
    PROVE  \E k \in KeysAt(lines) : Stays(parts, k) /\ p = at[k]
<1>1. lines \in Seq(Lines) /\ Stand(lines, out, at, parts)
  BY DEF Excised, WellFormed
<1>2. p \in DOMAIN out /\ out[p].line = "PublicKey"
  BY DEF KeysAt, Is
<1>3. ~NewGroup(out, p)
  BY <1>2, LineFacts DEF NewGroup
<1>4. PICK k \in DOMAIN lines : FirstOf(lines, out, at, parts, p, k)
  BY <1>1, <1>2, <1>3, OutIs
<1>5. QED
  BY <1>2, <1>4 DEF FirstOf, KeysAt, Is

(* The peers of a file, each from the lines beside its key.                *)
LEMMA PeersAre ==
    ASSUME NEW lines, WellFormed(lines)
    PROVE  Peers(lines) = {PeerBy(lines, i) : i \in KeysAt(lines)}
  BY KeyIsPeer DEF Peers

(* A removal takes the named peer out and leaves the others as they were.  *)
LEMMA RemoveTakesOne ==
    ASSUME NEW lines, WellFormed(lines), NEW n, n # Nil, (\A m \in Marker(lines, n) : Alone(lines, m))
    PROVE  Peers(RemovePeer(lines, n)) = {p \in Peers(lines) : p.name # n}
<1> DEFINE out == RemovePeer(lines, n)
           parts == Removed(lines, n)
<1>1. PICK at : Excised(lines, n, out, at, parts)
  BY RemovedIsExcised
<1>2. WellFormed(out)
  BY <1>1 DEF Excised
<1>3. ASSUME NEW k \in KeysAt(lines), Stays(parts, k)
      PROVE  k \notin Reach(lines, n)
  <2>1. k \in 1 .. Len(lines)
    BY SequenceDomain DEF KeysAt, WellFormed
  <2>2. QED
    BY <1>3, <2>1 DEF Removed, Stays
<1> HIDE DEF out, parts
<1>4. ASSUME NEW k \in KeysAt(lines)
      PROVE  PeerBy(lines, k).name = n <=> k \in Reach(lines, n)
  <2>1. PeerBy(lines, k).name = NameBy(lines, k)
    BY DEF PeerBy
  <2>2. QED
    BY <2>1, ReachIsNamed
<1>5. ASSUME NEW k \in KeysAt(lines), k \notin Reach(lines, n)
      PROVE  at[k] \in KeysAt(out) /\ PeerBy(out, at[k]) = PeerBy(lines, k)
  BY <1>1, <1>5, OthersKeep
<1>6. ASSUME NEW i \in KeysAt(out)
      PROVE  \E k \in KeysAt(lines) : PeerBy(out, i) = PeerBy(lines, k) /\ PeerBy(lines, k).name # n
  <2>1. PICK k \in KeysAt(lines) : Stays(parts, k) /\ i = at[k]
    BY <1>1, KeysOfEdit
  <2>2. QED
    BY <1>3, <1>4, <1>5, <2>1
<1>7. ASSUME NEW k \in KeysAt(lines), PeerBy(lines, k).name # n
      PROVE  \E i \in KeysAt(out) : PeerBy(out, i) = PeerBy(lines, k)
  BY <1>4, <1>5, <1>7
<1>8. /\ Peers(lines) = {PeerBy(lines, i) : i \in KeysAt(lines)}
      /\ Peers(out) = {PeerBy(out, i) : i \in KeysAt(out)}
  BY <1>2, PeersAre
<1>9. Peers(out) = {p \in Peers(lines) : p.name # n}
  BY <1>6, <1>7, <1>8
<1>10. QED
  BY <1>9 DEF out

LEMMA MarkedLength ==
    ASSUME NEW n, NEW group \in BOOLEAN
    PROVE  /\ group => Len(Marked(n, group)) = 2
           /\ ~group => Len(Marked(n, group)) = 1
  BY DEF Marked

(* The named peer keeps its key and takes the new fields.                  *)
LEMMA NamedChanges ==
    ASSUME NEW lines, NEW n, n # Nil, NEW new \in PeerNames, NEW group \in BOOLEAN, NEW r \in Ranges,
           NEW out, NEW at, Excised(lines, n, out, at, Renewed(lines, n, new, group, r)),
           NEW k \in KeysAt(lines), k \in Reach(lines, n)
    PROVE  /\ Stays(Renewed(lines, n, new, group, r), k)
           /\ at[k] \in KeysAt(out) /\ out[at[k]] = lines[k] /\ out[at[k] + 1] = RangeLine(r)
           /\ NameBy(out, at[k]) = new /\ (GroupBy(out, at[k]) <=> group)
<1> DEFINE parts == Renewed(lines, n, new, group, r)
<1>1. /\ lines \in Seq(Lines) /\ Formed(lines) /\ WellFormed(lines)
      /\ DOMAIN lines = 1 .. Len(lines) /\ Len(lines) \in Nat
      /\ DOMAIN out = 1 .. Len(out) /\ Len(out) \in Nat
      /\ \A j \in 1 .. Len(lines) : StandsAt(lines, out, at, parts, j)
  BY ExcisedIs DEF Excised
<1>2. \A j \in 1 .. Len(lines) : RenewedIs(lines, n, new, group, r, j, parts[j])
  BY <1>1, RenewedParts
<1>3. \A m \in Marker(lines, n) : Alone(lines, m)
  BY DEF Excised
<1> HIDE DEF parts
<1>4. PICK m \in Marker(lines, n) : OwnKey(lines, m, k)
  BY <1>1, <1>3, ReachIsNamed
<1>5. m \in 1 .. Len(lines) /\ lines[m] = NameLine(n) /\ m \in Reach(lines, n)
  BY <1>1, ReachStep, <1>4 DEF Marker
<1>6. Kind(lines, m, "name")
  BY <1>1, <1>5, LineFacts DEF Kind, Is
<1>7. /\ parts[m][1] = NameLine(new) /\ parts[m] = Marked(new, group) /\ Stays(parts, m)
      /\ StandsAt(lines, out, at, parts, m)
  BY <1>1, <1>2, <1>5, MarkedIs DEF RenewedIs, Stays
<1>8. /\ at[m] \in 1 .. Len(out) /\ out[at[m]] = NameLine(new)
      /\ group => at[m + 1] = at[m] + 2 /\ at[m] + 1 \in 1 .. Len(out) /\ out[at[m] + 1] = GroupLine
      /\ ~group => at[m + 1] = at[m] + 1
  BY <1>1, <1>7, MarkedLength DEF StandsAt
<1>9. /\ k \in 1 .. Len(lines) /\ Kind(lines, k, "PublicKey")
      /\ Kind(lines, k - 1, "Peer") /\ Kind(lines, k + 1, "AllowedIPs")
      /\ k - 1 \in 1 .. Len(lines) /\ k + 1 \in 1 .. Len(lines)
  BY <1>1 DEF KeysAt, Formed, Kind
<1>10. k + 1 \in Reach(lines, n) /\ k - 1 \in Reach(lines, n)
  <2>1. k + 1 \in Reach(lines, n)
    <3>1. ~Is(lines, k + 1, "name")
      BY <1>9 DEF Kind, Is
    <3>2. QED
      BY <1>1, <1>9, <3>1, ReachGoesOn
  <2>2. ASSUME NEW j \in DOMAIN lines, j + 1 = k
        PROVE  j \in Reach(lines, n)
    <3>1. ~Is(lines, k, "name")
      BY <1>9 DEF Kind, Is
    <3>2. QED
      BY <1>1, <1>9, <2>2, <3>1, ReachGoesOn
  <2>3. QED
    BY <1>1, <1>9, <2>1, <2>2
<1>11. /\ parts[k - 1] = <<lines[k - 1]>> /\ parts[k] = <<lines[k]>> /\ parts[k + 1] = <<RangeLine(r)>>
  <2>1. /\ lines[k - 1] # NameLine(n) /\ ~Is(lines, k - 1, "group") /\ ~Is(lines, k - 1, "AllowedIPs")
        /\ lines[k] # NameLine(n) /\ ~Is(lines, k, "group") /\ ~Is(lines, k, "AllowedIPs")
        /\ lines[k + 1] # NameLine(n) /\ Is(lines, k + 1, "AllowedIPs")
    BY <1>9, LineFacts DEF Kind, Is
  <2>2. /\ RenewedIs(lines, n, new, group, r, k - 1, parts[k - 1])
        /\ RenewedIs(lines, n, new, group, r, k, parts[k])
        /\ RenewedIs(lines, n, new, group, r, k + 1, parts[k + 1])
    BY <1>2, <1>9
  <2>3. QED
    BY <1>10, <2>1, <2>2 DEF RenewedIs
<1>12. /\ Stays(parts, k) /\ at[k] \in 1 .. Len(out) /\ out[at[k]] = lines[k] /\ at[k + 1] = at[k] + 1
       /\ out[at[k + 1]] = RangeLine(r) /\ at[k] = at[k - 1] + 1 /\ at[k - 1] \in 1 .. Len(out)
  <2>1. \A l : <<l>> # <<>> /\ <<l>>[1] = l /\ Len(<<l>>) = 1
    BY Single
  <2>2. /\ Stays(parts, k - 1) /\ Len(parts[k - 1]) = 1
        /\ Stays(parts, k) /\ Len(parts[k]) = 1 /\ parts[k][1] = lines[k]
        /\ Stays(parts, k + 1) /\ parts[k + 1][1] = RangeLine(r)
    BY <1>11, <2>1 DEF Stays
  <2>3. StandsAt(lines, out, at, parts, k - 1) /\ StandsAt(lines, out, at, parts, k) /\ StandsAt(lines, out, at, parts, k + 1)
    BY <1>1, <1>9
  <2>4. k - 1 + 1 = k
    BY <1>9
  <2>5. at[k] = at[k - 1] + 1 /\ at[k - 1] \in 1 .. Len(out)
    BY <2>2, <2>3, <2>4 DEF StandsAt
  <2>6. at[k] \in 1 .. Len(out) /\ out[at[k]] = lines[k] /\ at[k + 1] = at[k] + 1
    BY <2>2, <2>3 DEF StandsAt
  <2>7. out[at[k + 1]] = RangeLine(r)
    BY <2>2, <2>3 DEF StandsAt
  <2>8. QED
    BY <2>2, <2>5, <2>6, <2>7
<1>13. at[k - 1] = at[m + 1]
  <2>1. CASE k = m + 2
    <3>1. k - 1 = m + 1
      BY <1>5, <2>1
    <3>2. QED
      BY <3>1
  <2>2. CASE k = m + 3 /\ Kind(lines, m + 1, "group")
    <3>1. k - 1 = m + 1 + 1 /\ m + 1 \in 1 .. Len(lines)
      BY <1>1, <1>5, <2>2 DEF Kind
    <3>2. ~Is(lines, m + 1, "name") /\ Is(lines, m + 1, "group")
      BY <2>2 DEF Kind, Is
    <3>3. m + 1 \in Reach(lines, n)
      BY <1>1, <1>5, <3>1, <3>2, ReachGoesOn
    <3>4. ~Stays(parts, m + 1)
      BY <3>1, <3>2, <3>3 DEF Excised, parts
    <3>5. at[m + 1 + 1] = at[m + 1]
      BY <1>1, <3>1, <3>4 DEF StandsAt
    <3>6. QED
      BY <3>1, <3>5
  <2>3. QED
    BY <1>4, <2>1, <2>2 DEF OwnKey
<1>14. NameBy(out, at[k]) = new /\ (GroupBy(out, at[k]) <=> group)
  <2>1. NameLine(new).line = "name" /\ NameLine(new).is = new /\ GroupLine.line = "group"
    BY LineFacts
  <2>2. Kind(out, at[m], "name") /\ ~Kind(out, at[m], "group") /\ out[at[m]].is = new
    BY <1>1, <1>8, <2>1 DEF Kind, Is
  <2>3. CASE group
    <3>1. at[k] - 2 = at[m] + 1 /\ at[k] - 3 = at[m]
      BY <1>8, <1>12, <1>13, <2>3
    <3>2. Kind(out, at[m] + 1, "group") /\ ~Kind(out, at[m] + 1, "name")
      BY <1>1, <1>8, <2>1, <2>3 DEF Kind, Is
    <3>3. QED
      BY <2>2, <2>3, <3>1, <3>2, Zenon DEF NameBy, GroupBy
  <2>4. CASE ~group
    <3>1. at[k] - 2 = at[m] /\ at[k] - 3 = at[m] - 1
      BY <1>8, <1>12, <1>13, <2>4
    <3>2. Kind(out, at[m] - 1, "group") <=> Kind(lines, m - 1, "group")
      BY <1>6, <1>7, GroupBefore DEF parts
    <3>3. ~Kind(lines, m - 1, "group")
      <4>1. ASSUME Kind(lines, m - 1, "group")
            PROVE  \A j \in Marker(lines, n) : m - 1 = j - 1 => m - 1 = j + 1
        BY <1>3, <4>1, AloneIs
      <4>2. m - 1 # m + 1
        BY <1>5
      <4>3. QED
        BY <1>4, <4>1, <4>2
    <3>4. ~Kind(out, at[k] - 3, "group")
      BY <3>1, <3>2, <3>3, Zenon
    <3>5. QED
      BY <2>2, <2>4, <3>1, <3>4, Zenon DEF NameBy, GroupBy
  <2>5. QED
    BY <2>3, <2>4
<1>15. at[k] \in KeysAt(out)
  BY <1>1, <1>9, <1>12 DEF KeysAt, Kind, Is
<1>16. QED
  BY <1>12, <1>14, <1>15 DEF parts

LEMMA OneFieldAtATime ==
    ASSUME NEW p, NEW n, NEW g, NEW r
    PROVE  [p EXCEPT !.name = n, !.group = g, !.range = r] =
              [[[p EXCEPT !.name = n] EXCEPT !.group = g] EXCEPT !.range = r]
  OBVIOUS

WithFields(p, new, group, r) == [p EXCEPT !.name = new, !.group = group, !.range = r]

ReadsWith(lines, k, out, i, new, group, r) ==
    out[i].is = lines[k].is /\ out[i + 1].is = r /\ NameBy(out, i) = new /\ GroupBy(out, i) = group

LEMMA PeerWith ==
    ASSUME NEW lines, NEW k, NEW out, NEW i, NEW new, NEW group, NEW r,
           ReadsWith(lines, k, out, i, new, group, r)
    PROVE  PeerBy(out, i) = WithFields(PeerBy(lines, k), new, group, r)
<1> DEFINE a == lines[k].is
           b == NameBy(lines, k)
           c == GroupBy(lines, k)
           d == lines[k + 1].is
<1>1. PeerBy(out, i) = [key |-> a, name |-> new, group |-> group, range |-> r]
  BY Zenon DEF PeerBy, ReadsWith
<1>2. PeerBy(lines, k) = [key |-> a, name |-> b, group |-> c, range |-> d]
  BY DEF PeerBy
<1> DEFINE p == PeerBy(lines, k)
<1> HIDE DEF a, b, c, d
<1>3. [p EXCEPT !.name = new] = [key |-> a, name |-> new, group |-> c, range |-> d]
  BY <1>2
<1>4. [[key |-> a, name |-> new, group |-> c, range |-> d] EXCEPT !.group = group]
        = [key |-> a, name |-> new, group |-> group, range |-> d]
  OBVIOUS
<1>5. [[key |-> a, name |-> new, group |-> group, range |-> d] EXCEPT !.range = r]
        = [key |-> a, name |-> new, group |-> group, range |-> r]
  OBVIOUS
<1>6. [p EXCEPT !.name = new, !.group = group, !.range = r] =
         [[[p EXCEPT !.name = new] EXCEPT !.group = group] EXCEPT !.range = r]
  BY OneFieldAtATime
<1> HIDE DEF p
<1>7. [p EXCEPT !.name = new, !.group = group, !.range = r] = [key |-> a, name |-> new, group |-> group, range |-> r]
  BY <1>3, <1>4, <1>5, <1>6, Zenon
<1>8. QED
  BY <1>1, <1>7, Zenon DEF p, WithFields

(* An update gives the named peer its new name, group and addresses, and   *)
(* leaves the others as they were.                                         *)
LEMMA UpdateChangesOne ==
    ASSUME NEW lines, WellFormed(lines), NEW n, n # Nil, (\A m \in Marker(lines, n) : Alone(lines, m)),
           NEW new \in PeerNames, NEW group \in BOOLEAN, NEW r \in Ranges, new = n \/ new \notin NamesIn(lines)
    PROVE  Peers(UpdatePeer(lines, n, new, group, r)) =
              {p \in Peers(lines) : p.name # n} \cup
              {WithFields(p, new, group, r) : p \in {q \in Peers(lines) : q.name = n}}
<1> DEFINE out == UpdatePeer(lines, n, new, group, r)
           parts == Renewed(lines, n, new, group, r)
           With(p) == WithFields(p, new, group, r)
<1>1. PICK at : Excised(lines, n, out, at, parts)
  BY RenewedIsExcised
<1>2. WellFormed(out)
  BY <1>1 DEF Excised
<1>3. ASSUME NEW k \in KeysAt(lines), k \in Reach(lines, n)
      PROVE  at[k] \in KeysAt(out) /\ PeerBy(out, at[k]) = With(PeerBy(lines, k))
  <2>1. /\ at[k] \in KeysAt(out) /\ out[at[k]] = lines[k] /\ out[at[k] + 1] = RangeLine(r)
        /\ NameBy(out, at[k]) = new /\ (GroupBy(out, at[k]) <=> group)
    BY <1>1, <1>3, NamedChanges
  <2> HIDE DEF out, parts
  <2>2. GroupBy(out, at[k]) = group
    <3>1. GroupBy(out, at[k]) \in BOOLEAN
      BY Zenon DEF GroupBy
    <3>2. QED
      BY <2>1, <3>1
  <2>3. out[at[k]].is = lines[k].is /\ out[at[k] + 1].is = r
    BY <2>1, LineFacts
  <2>4. PeerBy(out, at[k]) = WithFields(PeerBy(lines, k), new, group, r)
    <3>1. ReadsWith(lines, k, out, at[k], new, group, r)
      BY <2>1, <2>2, <2>3 DEF ReadsWith
    <3>2. QED
      BY <3>1, PeerWith
  <2>5. QED
    BY <2>1, <2>4
<1> HIDE DEF out, parts, With
<1>4. ASSUME NEW k \in KeysAt(lines)
      PROVE  PeerBy(lines, k).name = n <=> k \in Reach(lines, n)
  <2>1. PeerBy(lines, k).name = NameBy(lines, k)
    BY DEF PeerBy
  <2>2. QED
    BY <2>1, ReachIsNamed
<1>5. ASSUME NEW k \in KeysAt(lines), k \notin Reach(lines, n)
      PROVE  at[k] \in KeysAt(out) /\ PeerBy(out, at[k]) = PeerBy(lines, k)
  BY <1>1, <1>5, OthersKeep
<1>6. ASSUME NEW i \in KeysAt(out)
      PROVE  \E k \in KeysAt(lines) :
                \/ PeerBy(lines, k).name # n /\ PeerBy(out, i) = PeerBy(lines, k)
                \/ PeerBy(lines, k).name = n /\ PeerBy(out, i) = With(PeerBy(lines, k))
  <2>1. PICK k \in KeysAt(lines) : i = at[k]
    BY <1>1, KeysOfEdit
  <2>2. QED
    BY <1>3, <1>4, <1>5, <2>1
<1>7. ASSUME NEW k \in KeysAt(lines)
      PROVE  \E i \in KeysAt(out) :
                /\ PeerBy(lines, k).name # n => PeerBy(out, i) = PeerBy(lines, k)
                /\ PeerBy(lines, k).name = n => PeerBy(out, i) = With(PeerBy(lines, k))
  BY <1>3, <1>4, <1>5
<1>8. /\ Peers(lines) = {PeerBy(lines, i) : i \in KeysAt(lines)}
      /\ Peers(out) = {PeerBy(out, i) : i \in KeysAt(out)}
  BY <1>2, PeersAre
<1>9. Peers(out) = {p \in Peers(lines) : p.name # n} \cup {With(p) : p \in {q \in Peers(lines) : q.name = n}}
  BY <1>6, <1>7, <1>8
<1>10. QED
  BY <1>9, Zenon DEF out, With

(* The step of an update or a removal writes what its helper makes of the  *)
(* file.                                                                   *)
LEMMA BeginsWith ==
    ASSUME ConfInv, [ConfNext]_confVars, op = Nil, op' # Nil
    PROVE  /\ op'.does \in Changes
           /\ op'.does.to = "remove" => conf' = RemovePeer(conf, op'.does.name)
           /\ op'.does.to = "update" =>
                 /\ conf' = UpdatePeer(conf, op'.does.name, op'.does.new, op'.does.group, op'.does.range)
                 /\ op'.does.new = op'.does.name \/ op'.does.new \notin NamesIn(conf)
<1>1. PICK does \in Changes : \/ does.to = "add" /\ peerAdd(does)
                              \/ does.to = "update" /\ peerUpdate(does)
                              \/ does.to = "remove" /\ peerRemove(does)
                              \/ does.to = "setraw" /\ setConfigRaw(does)
  BY DEF ConfNext, Synchronise, StripFails, SynchroniseFails, Killed, Up, Down, confVars
<1>2. \A is : ~Respond(does, is)
  BY DEF Respond
<1>3. ASSUME NEW lines, NEW key, Write(does, lines, key)
      PROVE  conf' = lines /\ op'.does = does
  <2>1. conf' = lines /\ op' = [conf |-> conf, private |-> private, typed |-> typed, does |-> does]
    BY <1>3 DEF Write
  <2>2. QED
    BY <2>1
<1>4. CASE does.to = "add" /\ peerAdd(does)
  <2>1. \E lines, key : Write(does, lines, key)
    BY <1>2, <1>4 DEF peerAdd
  <2>2. QED
    BY <1>3, <1>4, <2>1
<1>5. CASE does.to = "update" /\ peerUpdate(does)
  <2>1. /\ does.new = does.name \/ does.new \notin NamesIn(conf)
        /\ Write(does, UpdatePeer(conf, does.name, does.new, does.group, does.range), private)
    BY <1>2, <1>5 DEF peerUpdate
  <2>2. op'.does = does /\ conf' = UpdatePeer(conf, does.name, does.new, does.group, does.range)
    BY <1>3, <2>1
  <2>3. QED
    BY <1>5, <2>1, <2>2
<1>6. CASE does.to = "remove" /\ peerRemove(does)
  <2>1. Write(does, RemovePeer(conf, does.name), private)
    BY <1>2, <1>6 DEF peerRemove
  <2>2. op'.does = does /\ conf' = RemovePeer(conf, does.name)
    BY <1>3, <2>1
  <2>3. QED
    BY <1>6, <2>2
<1>7. CASE does.to = "setraw" /\ setConfigRaw(does)
  <2>1. \E lines, key : Write(does, lines, key)
    BY <1>7 DEF setConfigRaw
  <2>2. QED
    BY <1>3, <1>7, <2>1
<1>8. QED
  BY <1>1, <1>4, <1>5, <1>6, <1>7

(* What a helper may make of the peers                                     *)
ChangedPeers(those, d) ==
    {p \in those : p.name # d.name} \cup
    (IF d.to = "remove" THEN {} ELSE {WithFields(p, d.new, d.group, d.range) : p \in {q \in those : q.name = d.name}})

(* The same of the step in which the helper runs.                          *)
LEMMA NamedStep ==
    ASSUME ConfInv, [ConfNext]_confVars, NEW d, d = op'.does, d.to \in {"remove", "update"}, Begins(d.to),
           Orderly(conf), \A m \in Marker(conf, d.name) : Alone(conf, m)
    PROVE  Peers(conf') = ChangedPeers(Peers(conf), d)
<1>1. op = Nil /\ op' # Nil
  BY DEF Begins
<1>2. /\ d \in Changes
      /\ d.to = "remove" => conf' = RemovePeer(conf, d.name)
      /\ d.to = "update" => /\ conf' = UpdatePeer(conf, d.name, d.new, d.group, d.range)
                            /\ d.new = d.name \/ d.new \notin NamesIn(conf)
  BY <1>1, BeginsWith
<1>3. WellFormed(conf)
  BY DEF ConfInv, ConfTypeOK, Orderly, WellFormed
<1>4. d.name \in PeerNames /\ d.name # Nil
  BY <1>2, ChangeShapes, NilIsNoName
<1>5. CASE d.to = "remove"
  <2>1. Peers(conf') = {p \in Peers(conf) : p.name # d.name}
    BY <1>2, <1>3, <1>4, <1>5, RemoveTakesOne
  <2>2. ChangedPeers(Peers(conf), d) = {p \in Peers(conf) : p.name # d.name}
    BY <1>5 DEF ChangedPeers
  <2>3. QED
    BY <2>1, <2>2
<1>6. CASE d.to = "update"
  <2>1. d.new \in PeerNames /\ d.group \in BOOLEAN /\ d.range \in Ranges
    BY <1>2, <1>6, ChangeShapes
  <2>2. Peers(UpdatePeer(conf, d.name, d.new, d.group, d.range)) =
           {p \in Peers(conf) : p.name # d.name} \cup
           {WithFields(p, d.new, d.group, d.range) : p \in {q \in Peers(conf) : q.name = d.name}}
    BY <1>2, <1>3, <1>4, <1>6, <2>1, UpdateChangesOne
  <2>3. conf' = UpdatePeer(conf, d.name, d.new, d.group, d.range) /\ d.to # "remove"
    BY <1>2, <1>6
  <2>4. QED
    BY <2>2, <2>3, Zenon DEF ChangedPeers
<1>7. QED
  BY <1>5, <1>6

(* A removal or an update changes the named peer and no other, in a file   *)
(* with nothing twice and provided the peer stands alone in the region of  *)
(* its name                                                                *)
(* (wireguard_peer_remove.sh:30-38, wireguard_peer_update.sh:3-9).         *)
THEOREM NamedPeerChanges == ConfSpec => OnlyTheNamedPeerChanges
<1>1. ASSUME ConfInv, [ConfNext]_confVars, NEW to \in {"remove", "update"}, Begins(to), Orderly(conf)
      PROVE  LET d == op'.does
                 Updated(p) == [p EXCEPT !.name = d.new, !.group = d.group, !.range = d.range]
                 Others == {p \in Peers(conf) : p.name # d.name}
                 Left == IF to = "remove" THEN {}
                         ELSE {Updated(p) : p \in {q \in Peers(conf) : q.name = d.name}}
             IN  (\A m \in Marker(conf, d.name) : Alone(conf, m)) => Peers(conf') = Others \cup Left
  <2> DEFINE d == op'.does
  <2>1. d.to = to
    BY <1>1 DEF Begins
  <2> SUFFICES ASSUME \A m \in Marker(conf, d.name) : Alone(conf, m)
               PROVE  Peers(conf') = ChangedPeers(Peers(conf), d)
    BY <2>1, Zenon DEF ChangedPeers, WithFields
  <2>2. QED
    BY <1>1, <2>1, NamedStep
<1>2. ConfInv /\ [ConfNext]_confVars =>
        \A to \in {"remove", "update"} : Begins(to) /\ Orderly(conf) =>
          LET d == op'.does
              Updated(p) == [p EXCEPT !.name = d.new, !.group = d.group, !.range = d.range]
              Others == {p \in Peers(conf) : p.name # d.name}
              Left == IF to = "remove" THEN {}
                      ELSE {Updated(p) : p \in {q \in Peers(conf) : q.name = d.name}}
          IN  (\A m \in Marker(conf, d.name) : Alone(conf, m)) => Peers(conf') = Others \cup Left
  BY <1>1, Zenon
<1>3. QED
  BY <1>2, ConfIsSound, PTL DEF ConfSpec, OnlyTheNamedPeerChanges

--------------------------------------------------------------------------------
(* The page                                                                *)

(* A request that may still be applied                                     *)
InPlay(r) ==
    \/ plan = r \/ r \in stray \/ preview = r
    \/ \E c \in Applies : calls[c] # None /\ calls[c].request = r

(* Unless a plan strayed, everything in the dialog is of the last click.   *)
Dialog ==
    /\ open => plan \in {None, clicked} /\ (strayed \/ preview \in {None, clicked})
    /\ ~open => plan = None /\ applying = None /\ (strayed \/ preview = None)
    /\ applying # None
       => /\ calls[applying] # None /\ calls[applying].is # "unheard"
          /\ strayed \/ calls[applying].request = clicked

ButtonSafe == ButtonTypeOK /\ Dialog

(* A name has the key it had at the start, or it went to another key.      *)
Fits(t, n, k) == <<t, n>> \in reused \/ First[t][n] = k

(* Peers stay on the tunnel of their key.                                  *)
PeersFit(t, there) ==
    \A n \in Names : there[n] # None => Home[there[n]] = t /\ Fits(t, n, there[n])

WorldSafe ==
    /\ peers \in [Tunnels -> Peerings]
    /\ data \in [Keys -> Keys]
    /\ reused \subseteq Tunnels \X Names
    /\ \A t \in Tunnels : PeersFit(t, peers[t])

PageTypeOK ==
    /\ selectedInterface \in Tunnels
    /\ status \in Views \cup {None}
    /\ polls \subseteq Tunnels /\ answers \subseteq Views
    /\ selectedPeerName \in Names \cup {None}
    /\ form \in [key : Keys, name : Names] \cup {None}

(* However old an answer is                                                *)
StatusFits ==
    /\ \A a \in answers : PeersFit(a.tunnel, a.peers)
    /\ status # None => PeersFit(status.tunnel, status.peers)

(* The peer of the form has, or had, the name that is selected.            *)
FormFits ==
    form # None => selectedPeerName # None /\ Fits(Home[form.key], selectedPeerName, form.key)

RequestsFit ==
    \A r \in Asked : InPlay(r) /\ Home[r.meant] = r.tunnel => Fits(r.tunnel, r.name, r.meant)

IInv ==
    /\ ButtonSafe
    /\ WorldSafe
    /\ PageTypeOK
    /\ StatusFits
    /\ FormFits
    /\ RequestsFit

--------------------------------------------------------------------------------
LEMMA NoneIsNoRequest == None \notin Asked /\ Requests = Asked
BY ButtonConstants, PageConstants

LEMMA AskedFields ==
    ASSUME NEW r \in Asked
    PROVE  r.tunnel \in Tunnels /\ r.name \in Names /\ r.new \in Names /\ r.meant \in Keys
BY DEF Asked

--------------------------------------------------------------------------------
(* The button.                                                             *)
LEMMA ClickIsSafe ==
    ASSUME ButtonSafe, NEW r \in Asked, handleClick(r)
    PROVE  ButtonSafe' /\ \A q \in Asked : InPlay(q)' => InPlay(q) \/ q = r
<1>1. /\ ~open /\ open' = TRUE /\ loadingPlan' = TRUE /\ plan' = r /\ clicked' = r
      /\ UNCHANGED <<preview, stray, applying, calls, strayed>>
  BY DEF handleClick
<1>2. ButtonTypeOK'
  BY <1>1, NoneIsNoRequest DEF ButtonSafe, ButtonTypeOK
<1>3. Dialog'
  BY <1>1 DEF ButtonSafe, Dialog
<1>4. \A q \in Asked : InPlay(q)' => InPlay(q) \/ q = r
  BY <1>1 DEF InPlay
<1> QED BY <1>2, <1>3, <1>4 DEF ButtonSafe

LEMMA ConfirmIsSafe ==
    ASSUME ButtonSafe, NEW then \in Callbacks, handleConfirm(then)
    PROVE  ButtonSafe' /\ \A q \in Asked : InPlay(q)' => InPlay(q)
<1>1. PICK c \in Applies :
        /\ open /\ applying = None /\ preview # None
        /\ applying' = c
        /\ calls' = [calls EXCEPT ![c] = [request |-> preview, then |-> then, is |-> "sent"]]
        /\ UNCHANGED <<open, preview, loadingPlan, plan, stray, clicked, strayed>>
  BY DEF handleConfirm
<1>2. preview \in Requests /\ calls \in [Applies -> Calls \cup {None}]
  BY <1>1 DEF ButtonSafe, ButtonTypeOK
<1>3. [request |-> preview, then |-> then, is |-> "sent"] \in Calls
  BY <1>2 DEF Calls
<1>4. /\ calls' \in [Applies -> Calls \cup {None}]
      /\ calls'[c] # None /\ calls'[c].request = preview /\ calls'[c].is # "unheard"
      /\ \A b \in Applies \ {c} : calls'[b] = calls[b]
  BY <1>1, <1>2, <1>3, ButtonConstants
<1>5. ButtonTypeOK'
  BY <1>1, <1>4 DEF ButtonSafe, ButtonTypeOK
<1>6. Dialog'
  BY <1>1, <1>4 DEF ButtonSafe, Dialog
<1>7. \A q \in Asked : InPlay(q)' => InPlay(q)
  BY <1>1, <1>4 DEF InPlay
<1> QED BY <1>5, <1>6, <1>7 DEF ButtonSafe

(* A call that is served, answered or given up keeps its request.          *)
LEMMA CallsStay ==
    ASSUME ButtonSafe, NEW c \in Applies, calls[c] # None,
           NEW now, now = None \/ (now \in Calls /\ now.request = calls[c].request),
           calls' = [calls EXCEPT ![c] = now]
    PROVE  /\ calls' \in [Applies -> Calls \cup {None}]
           /\ calls'[c] = now /\ \A b \in Applies \ {c} : calls'[b] = calls[b]
           /\ \A q : (\E b \in Applies : calls'[b] # None /\ calls'[b].request = q)
                     => \E b \in Applies : calls[b] # None /\ calls[b].request = q
<1>1. calls \in [Applies -> Calls \cup {None}]
  BY DEF ButtonSafe, ButtonTypeOK
<1>2. /\ calls' \in [Applies -> Calls \cup {None}]
      /\ calls'[c] = now /\ \A b \in Applies \ {c} : calls'[b] = calls[b]
  BY <1>1
<1>3. ASSUME NEW q, NEW b \in Applies, calls'[b] # None, calls'[b].request = q
      PROVE  calls[b] # None /\ calls[b].request = q
  BY <1>2, <1>3
<1> QED BY <1>2, <1>3

LEMMA ServedIsSafe ==
    ASSUME ButtonSafe, NEW c \in Applies, Served(c)
    PROVE  ButtonSafe' /\ \A q \in Asked : InPlay(q)' => InPlay(q)
<1> DEFINE now == IF calls[c].is = "sent" THEN [calls[c] EXCEPT !.is = "done"] ELSE None
<1>1. /\ calls[c] # None /\ calls[c].is # "done" /\ calls' = [calls EXCEPT ![c] = now]
      /\ UNCHANGED <<open, preview, loadingPlan, plan, stray, applying, clicked, strayed>>
  BY DEF Served
<1>2. calls[c] \in Calls
  BY <1>1 DEF ButtonSafe, ButtonTypeOK
<1>3. now = None \/ (now \in Calls /\ now.request = calls[c].request /\ now.is = "done")
  BY <1>2 DEF Calls
<1>4. calls[c].is # "unheard" => now # None /\ now.is = "done"
  BY <1>1, <1>2, <1>3, ButtonConstants DEF Calls
<1> HIDE DEF now
<1>5. /\ calls' \in [Applies -> Calls \cup {None}]
      /\ calls'[c] = now /\ \A b \in Applies \ {c} : calls'[b] = calls[b]
      /\ \A q : (\E b \in Applies : calls'[b] # None /\ calls'[b].request = q)
                => \E b \in Applies : calls[b] # None /\ calls[b].request = q
  BY <1>1, <1>3, CallsStay
<1>6. ButtonTypeOK'
  BY <1>1, <1>5 DEF ButtonSafe, ButtonTypeOK
<1>7. applying # None => applying \in Applies
  BY DEF ButtonSafe, ButtonTypeOK
<1>8. Dialog'
  BY <1>1, <1>3, <1>4, <1>5, <1>7 DEF ButtonSafe, Dialog
<1>9. \A q \in Asked : InPlay(q)' => InPlay(q)
  BY <1>1, <1>5 DEF InPlay
<1> QED BY <1>6, <1>8, <1>9 DEF ButtonSafe

LEMMA FailureIsSafe ==
    ASSUME ButtonSafe, NEW c \in Applies, ApplyFails(c)
    PROVE  ButtonSafe' /\ \A q \in Asked : InPlay(q)' => InPlay(q)
<1> DEFINE given == [calls[c] EXCEPT !.is = "unheard", !.then = None]
<1>1. /\ calls[c] # None
      /\ calls' = [calls EXCEPT ![c] = None] \/ calls' = [calls EXCEPT ![c] = given]
      /\ applying' = IF c = applying THEN None ELSE applying
      /\ UNCHANGED <<open, preview, loadingPlan, plan, stray, clicked, strayed>>
  BY DEF ApplyFails
<1>2. calls[c] \in Calls
  BY <1>1 DEF ButtonSafe, ButtonTypeOK
<1>3. given \in Calls /\ given.request = calls[c].request
  BY <1>2, ButtonConstants DEF Calls
<1> HIDE DEF given
<1>4. PICK now \in {None, given} : calls' = [calls EXCEPT ![c] = now]
  BY <1>1
<1>5. /\ calls' \in [Applies -> Calls \cup {None}]
      /\ calls'[c] = now /\ \A b \in Applies \ {c} : calls'[b] = calls[b]
      /\ \A q : (\E b \in Applies : calls'[b] # None /\ calls'[b].request = q)
                => \E b \in Applies : calls[b] # None /\ calls[b].request = q
  BY <1>1, <1>3, <1>4, CallsStay
<1>6. ButtonTypeOK'
  BY <1>1, <1>5 DEF ButtonSafe, ButtonTypeOK
<1>7. applying' # None => applying \in Applies \ {c} /\ applying' = applying
  BY <1>1 DEF ButtonSafe, ButtonTypeOK
<1>8. Dialog'
  BY <1>1, <1>5, <1>7 DEF ButtonSafe, Dialog
<1>9. \A q \in Asked : InPlay(q)' => InPlay(q)
  BY <1>1, <1>5 DEF InPlay
<1> QED BY <1>6, <1>8, <1>9 DEF ButtonSafe

(* A dialog that closes, or goes with its button, leaves its plan's call   *)
(* at most.                                                                *)
LEMMA ClosedIsSafe ==
    ASSUME ButtonSafe, Close \/ Leave, UNCHANGED calls \/ \E c \in Applies : Applied(c, TRUE) \/ Applied(c, FALSE)
    PROVE  ButtonSafe' /\ \A q \in Asked : InPlay(q)' => InPlay(q)
<1>1. /\ open' = FALSE /\ preview' = None /\ plan' = None /\ applying' = None
      /\ clicked' = None /\ strayed' = FALSE
      /\ loadingPlan' \in {loadingPlan, FALSE}
      /\ stray' = {} \/ stray' = stray \cup ({plan} \ {None})
  BY DEF Close, Leave
<1>2. /\ calls' \in [Applies -> Calls \cup {None}]
      /\ \A q : (\E b \in Applies : calls'[b] # None /\ calls'[b].request = q)
                => \E b \in Applies : calls[b] # None /\ calls[b].request = q
  <2>1. CASE UNCHANGED calls
    BY <2>1 DEF ButtonSafe, ButtonTypeOK
  <2>2. ASSUME NEW c \in Applies, Applied(c, TRUE) \/ Applied(c, FALSE)
        PROVE  calls[c] # None /\ calls' = [calls EXCEPT ![c] = None]
    BY <2>2 DEF Applied
  <2>3. CASE \E c \in Applies : Applied(c, TRUE) \/ Applied(c, FALSE)
    <3>1. PICK c \in Applies : calls[c] # None /\ calls' = [calls EXCEPT ![c] = None]
      BY <2>2, <2>3
    <3> QED BY <3>1, CallsStay
  <2> QED BY <2>1, <2>3
<1>3. ButtonTypeOK'
  BY <1>1, <1>2 DEF ButtonSafe, ButtonTypeOK
<1>4. Dialog'
  BY <1>1 DEF Dialog
<1>5. \A q \in Asked : InPlay(q)' => InPlay(q)
  BY <1>1, <1>2, NoneIsNoRequest DEF InPlay
<1> QED BY <1>3, <1>4, <1>5 DEF ButtonSafe

LEMMA AppliedIsSafe ==
    ASSUME ButtonSafe, NEW c \in Applies, NEW leaves \in BOOLEAN, Applied(c, leaves)
    PROVE  ButtonSafe' /\ \A q \in Asked : InPlay(q)' => InPlay(q)
<1>1. CASE Close \/ Leave
  BY <1>1, ClosedIsSafe
<1>2. CASE c # applying /\ UNCHANGED <<open, preview, loadingPlan, plan, stray, applying, clicked, strayed>>
  <2>1. calls[c] # None /\ calls' = [calls EXCEPT ![c] = None]
    BY DEF Applied
  <2>2. /\ calls' \in [Applies -> Calls \cup {None}]
        /\ \A b \in Applies \ {c} : calls'[b] = calls[b]
        /\ \A q : (\E b \in Applies : calls'[b] # None /\ calls'[b].request = q)
                  => \E b \in Applies : calls[b] # None /\ calls[b].request = q
    BY <2>1, CallsStay
  <2>3. ButtonTypeOK'
    BY <1>2, <2>2 DEF ButtonSafe, ButtonTypeOK
  <2>4. Dialog'
    BY <1>2, <2>2 DEF ButtonSafe, ButtonTypeOK, Dialog
  <2>5. \A q \in Asked : InPlay(q)' => InPlay(q)
    BY <1>2, <2>2 DEF InPlay
  <2> QED BY <2>3, <2>4, <2>5 DEF ButtonSafe
<1> QED BY <1>1, <1>2 DEF Applied

LEMMA ButtonIsSafe ==
    ASSUME ButtonSafe, ButtonNext \/ Unmount \/ UNCHANGED buttonVars
    PROVE  ButtonSafe' /\ \A q \in Asked : InPlay(q)' => InPlay(q)
<1>1. CASE Planned
  <2>1. /\ plan # None /\ preview' = plan /\ plan' = None /\ loadingPlan' = FALSE
        /\ strayed' = (strayed /\ applying # None)
        /\ UNCHANGED <<open, stray, applying, calls, clicked>>
    BY <1>1 DEF Planned
  <2>2. ButtonTypeOK'
    BY <2>1 DEF ButtonSafe, ButtonTypeOK
  <2>3. Dialog'
    BY <2>1 DEF ButtonSafe, Dialog
  <2>4. \A q \in Asked : InPlay(q)' => InPlay(q)
    BY <2>1, NoneIsNoRequest DEF InPlay
  <2> QED BY <2>2, <2>3, <2>4 DEF ButtonSafe
<1>2. ASSUME NEW r \in stray, StrayPlanned(r)
      PROVE  ButtonSafe' /\ \A q \in Asked : InPlay(q)' => InPlay(q)
  <2>1. /\ preview' = r /\ stray' = stray \ {r} /\ loadingPlan' = FALSE /\ strayed' = TRUE
        /\ UNCHANGED <<open, plan, applying, calls, clicked>>
    BY <1>2 DEF StrayPlanned
  <2>2. ButtonTypeOK'
    BY <2>1 DEF ButtonSafe, ButtonTypeOK
  <2>3. Dialog'
    BY <2>1 DEF ButtonSafe, Dialog
  <2>4. \A q \in Asked : InPlay(q)' => InPlay(q)
    BY <2>1 DEF InPlay
  <2> QED BY <2>2, <2>3, <2>4 DEF ButtonSafe
<1>3. CASE PlanFails
  <2>1. /\ plan' \in {plan, None} /\ stray' \subseteq stray /\ loadingPlan' = FALSE
        /\ UNCHANGED <<open, preview, applying, calls, clicked, strayed>>
    BY <1>3 DEF PlanFails
  <2>2. ButtonTypeOK'
    BY <2>1 DEF ButtonSafe, ButtonTypeOK
  <2>3. Dialog'
    BY <2>1 DEF ButtonSafe, Dialog
  <2>4. \A q \in Asked : InPlay(q)' => InPlay(q)
    BY <2>1, NoneIsNoRequest DEF InPlay
  <2> QED BY <2>2, <2>3, <2>4 DEF ButtonSafe
<1>4. CASE onCancel \/ Unmount
  BY <1>4, ClosedIsSafe DEF onCancel, Unmount
<1>5. CASE \E c \in Applies : ApplyFails(c)
  BY <1>5, FailureIsSafe
<1>6. CASE UNCHANGED buttonVars
  BY <1>6 DEF ButtonSafe, ButtonTypeOK, Dialog, InPlay, buttonVars
<1> QED BY <1>1, <1>2, <1>3, <1>4, <1>5, <1>6 DEF ButtonNext

LEMMA RerenderIsSafe ==
    ASSUME Rerender PROVE Unmount \/ UNCHANGED buttonVars
BY DEF Rerender

--------------------------------------------------------------------------------
(* The peers on the server.                                                *)

(* What fits keeps fitting: a name that goes to another key is in reused.  *)
LEMMA FitsStays ==
    ASSUME reused \subseteq reused'
    PROVE  \A t, n, k : Fits(t, n, k) => Fits(t, n, k)'
BY DEF Fits

LEMMA PeersFitStays ==
    ASSUME reused \subseteq reused'
    PROVE  \A t, there : PeersFit(t, there) => PeersFit(t, there)'
BY FitsStays DEF PeersFit

LEMMA TunnelChanges ==
    ASSUME WorldSafe, NEW t \in Tunnels, NEW now \in Peerings,
           peers' = [peers EXCEPT ![t] = now], data' \in [Keys -> Keys],
           reused \subseteq reused', reused' \subseteq Tunnels \X Names, PeersFit(t, now)'
    PROVE  WorldSafe'
<1>1. peers \in [Tunnels -> Peerings]
  BY DEF WorldSafe
<1>2. /\ peers' \in [Tunnels -> Peerings]
      /\ peers'[t] = now /\ \A u \in Tunnels \ {t} : peers'[u] = peers[u]
  BY <1>1
<1>3. ASSUME NEW u \in Tunnels PROVE PeersFit(u, peers[u])'
  <2>1. CASE u = t
    BY <1>2, <2>1
  <2>2. CASE u # t
    <3>1. PeersFit(u, peers[u])
      BY DEF WorldSafe
    <3>2. peers'[u] = peers[u]
      BY <1>2, <2>2
    <3> QED BY <3>1, <3>2, FitsStays DEF PeersFit
  <2> QED BY <2>1, <2>2
<1> QED BY <1>2, <1>3 DEF WorldSafe

LEMMA RemovalIsSafe ==
    ASSUME WorldSafe, NEW t \in Tunnels, NEW n \in Names, peers[t][n] # None, Removal(t, n)
    PROVE  WorldSafe' /\ reused \subseteq reused'
<1>0. PICK now : now = [peers[t] EXCEPT ![n] = None]
  OBVIOUS
<1>1. /\ peers' = [peers EXCEPT ![t] = now] /\ reused' = reused
      /\ data' = [data EXCEPT ![peers[t][n]] = peers[t][n]]
  BY <1>0 DEF Removal
<1>2. peers[t] \in Peerings /\ data \in [Keys -> Keys]
  BY DEF WorldSafe
<1>3. peers[t][n] \in Keys
  BY <1>2 DEF Peerings
<1>4. now \in Peerings /\ now[n] = None /\ \A l \in Names \ {n} : now[l] = peers[t][l]
  BY <1>0, <1>2 DEF Peerings
<1>5. data' \in [Keys -> Keys]
  BY <1>1, <1>2, <1>3
<1>6. PeersFit(t, now)'
  BY <1>1, <1>4 DEF WorldSafe, PeersFit, Fits
<1>7. reused' \subseteq Tunnels \X Names
  BY <1>1 DEF WorldSafe
<1> QED BY <1>1, <1>4, <1>5, <1>6, <1>7, TunnelChanges

LEMMA RewriteIsSafe ==
    ASSUME WorldSafe, NEW t \in Tunnels, NEW n \in Names, NEW m \in Names, NEW from \in Keys,
           peers[t][n] # None, Rewrite(t, n, m, from)
    PROVE  WorldSafe' /\ reused \subseteq reused'
<1>0. PICK now : now = [peers[t] EXCEPT ![n] = None, ![m] = peers[t][n]]
  OBVIOUS
<1>1. /\ peers' = [peers EXCEPT ![t] = now]
      /\ data' = [data EXCEPT ![peers[t][n]] = from]
      /\ reused' = IF m = n THEN reused ELSE reused \cup {<<t, m>>}
  BY <1>0 DEF Rewrite
<1>2. peers[t] \in Peerings /\ data \in [Keys -> Keys] /\ reused \subseteq Tunnels \X Names
  BY DEF WorldSafe
<1>3. now \in Peerings /\ now[m] = peers[t][n]
  BY <1>0, <1>2 DEF Peerings
<1>4. \A l \in Names \ {m} : now[l] = None \/ now[l] = peers[t][l]
  BY <1>0, <1>2 DEF Peerings
<1>5. peers[t][n] \in Keys
  BY <1>2 DEF Peerings
<1>6. data' \in [Keys -> Keys]
  BY <1>1, <1>2, <1>5
<1>7. PeersFit(t, now)'
  <2> SUFFICES ASSUME NEW l \in Names, now[l] # None
               PROVE  Home[now[l]] = t /\ Fits(t, l, now[l])'
    BY DEF PeersFit
  <2>1. CASE l = m
    <3>1. Home[now[l]] = t
      BY <1>3, <2>1 DEF WorldSafe, PeersFit
    <3>2. <<t, l>> \in reused' \/ now[l] = peers[t][l]
      BY <1>1, <1>3, <2>1
    <3>3. reused \subseteq reused'
      BY <1>1
    <3> QED BY <3>1, <3>2, <3>3 DEF WorldSafe, PeersFit, Fits
  <2>2. CASE l # m
    BY <1>1, <1>4, <2>2 DEF WorldSafe, PeersFit, Fits
  <2> QED BY <2>1, <2>2
<1>8. reused \subseteq reused' /\ reused' \subseteq Tunnels \X Names
  BY <1>1, <1>2
<1> QED BY <1>1, <1>3, <1>6, <1>7, <1>8, TunnelChanges

LEMMA AdditionIsSafe ==
    ASSUME WorldSafe, NEW t \in Tunnels, NEW n \in Names, NEW k \in Keys, OtherAdds(t, n, k)
    PROVE  WorldSafe' /\ reused \subseteq reused'
<1>0. PICK now : now = [peers[t] EXCEPT ![n] = k]
  OBVIOUS
<1>1. /\ peers' = [peers EXCEPT ![t] = now] /\ data' = data
      /\ reused' = reused \cup {<<t, n>>} /\ Home[k] = t
  BY <1>0 DEF OtherAdds
<1>2. peers[t] \in Peerings /\ data \in [Keys -> Keys] /\ reused \subseteq Tunnels \X Names
  BY DEF WorldSafe
<1>3. now \in Peerings /\ now[n] = k /\ \A l \in Names \ {n} : now[l] = peers[t][l]
  BY <1>0, <1>2 DEF Peerings
<1>4. PeersFit(t, now)'
  <2> SUFFICES ASSUME NEW l \in Names, now[l] # None
               PROVE  Home[now[l]] = t /\ Fits(t, l, now[l])'
    BY DEF PeersFit
  <2>1. CASE l = n
    BY <1>1, <1>3, <2>1 DEF Fits
  <2>2. CASE l # n
    BY <1>1, <1>3, <2>2 DEF WorldSafe, PeersFit, Fits
  <2> QED BY <2>1, <2>2
<1>5. reused \subseteq reused' /\ reused' \subseteq Tunnels \X Names /\ data' \in [Keys -> Keys]
  BY <1>1, <1>2
<1> QED BY <1>1, <1>3, <1>4, <1>5, TunnelChanges

--------------------------------------------------------------------------------
(* The page.                                                               *)

(* Requests still fit when none were added.                                *)
LEMMA RequestsStay ==
    ASSUME RequestsFit, \A q \in Asked : InPlay(q)' => InPlay(q), reused \subseteq reused'
    PROVE  RequestsFit'
<1> SUFFICES ASSUME NEW r \in Asked, InPlay(r)', Home[r.meant] = r.tunnel
             PROVE  Fits(r.tunnel, r.name, r.meant)'
  BY DEF RequestsFit
<1>1. Fits(r.tunnel, r.name, r.meant)
  BY DEF RequestsFit
<1> QED BY <1>1, FitsStays

(* Steps of the button alone, and of the servers alone, leave the page.    *)
LEMMA PageStays ==
    ASSUME IInv, UNCHANGED pageVars, reused \subseteq reused'
    PROVE  PageTypeOK' /\ StatusFits' /\ FormFits'
<1>1. /\ selectedInterface' = selectedInterface /\ status' = status /\ polls' = polls
      /\ answers' = answers /\ selectedPeerName' = selectedPeerName /\ form' = form
  BY DEF pageVars
<1>2. PageTypeOK /\ StatusFits /\ FormFits
  BY DEF IInv
<1>3. PageTypeOK'
  BY <1>1, <1>2 DEF PageTypeOK
<1>4. StatusFits'
  <2>1. ASSUME NEW a \in answers PROVE PeersFit(a.tunnel, a.peers)'
    BY <1>2, PeersFitStays DEF StatusFits
  <2>2. ASSUME status # None PROVE PeersFit(status.tunnel, status.peers)'
    BY <1>1, <1>2, <2>2, FitsStays DEF StatusFits, PeersFit
  <2> QED BY <1>1, <2>1, <2>2 DEF StatusFits
<1>5. FormFits'
  BY <1>1, <1>2, FitsStays DEF FormFits, Fits
<1> QED BY <1>3, <1>4, <1>5

LEMMA WorldStays ==
    ASSUME WorldSafe, UNCHANGED serverVars
    PROVE  WorldSafe' /\ reused \subseteq reused'
BY DEF WorldSafe, PeersFit, Fits, serverVars

(* A new request is of the peer that is shown, or of that of the form.     *)
LEMMA Clicks ==
    ASSUME IInv, ClickRemove \/ ClickSave
    PROVE  IInv'
<1>1. ButtonSafe /\ WorldSafe /\ PageTypeOK /\ StatusFits /\ FormFits /\ RequestsFit
  BY DEF IInv
<1>2. /\ status # None /\ selectedPeerName # None /\ status.peers[selectedPeerName] # None
      /\ UNCHANGED pageVars /\ UNCHANGED serverVars
  BY DEF ClickRemove, ClickSave, selectedPeer, ShowsPeer
<1>3. /\ selectedPeerName \in Names /\ selectedInterface \in Tunnels
      /\ status.tunnel \in Tunnels /\ status.peers \in Peerings
  BY <1>1, <1>2 DEF PageTypeOK, Views
<1>4. PICK r \in Asked :
        /\ handleClick(r)
        /\ Home[r.meant] = r.tunnel => Fits(r.tunnel, r.name, r.meant)
  <2>1. CASE ClickRemove
    <3> DEFINE r == [to |-> "remove", tunnel |-> selectedInterface, name |-> selectedPeerName,
                     new |-> selectedPeerName, meant |-> status.peers[selectedPeerName]]
    <3>1. r \in Asked
      BY <1>2, <1>3 DEF Asked, Peerings
    <3>2. handleClick(r)
      BY <2>1 DEF ClickRemove
    <3>3. /\ Home[status.peers[selectedPeerName]] = status.tunnel
          /\ Fits(status.tunnel, selectedPeerName, status.peers[selectedPeerName])
      BY <1>1, <1>2, <1>3 DEF StatusFits, PeersFit
    <3>4. /\ r.tunnel = selectedInterface /\ r.name = selectedPeerName
          /\ r.meant = status.peers[selectedPeerName]
      OBVIOUS
    <3> HIDE DEF r
    <3> QED BY <3>1, <3>2, <3>3, <3>4
  <2>2. CASE ClickSave
    <3> DEFINE r == [to |-> "update", tunnel |-> selectedInterface, name |-> selectedPeerName,
                     new |-> form.name, meant |-> form.key]
    <3>1. form # None /\ form \in [key : Keys, name : Names] /\ handleClick(r)
      BY <1>1, <2>2 DEF ClickSave, PageTypeOK
    <3>2. r \in Asked
      BY <1>3, <3>1 DEF Asked
    <3>3. Fits(Home[form.key], selectedPeerName, form.key)
      BY <1>1, <3>1 DEF FormFits
    <3>4. r.tunnel = selectedInterface /\ r.name = selectedPeerName /\ r.meant = form.key
      OBVIOUS
    <3> HIDE DEF r
    <3> QED BY <3>1, <3>2, <3>3, <3>4
  <2> QED BY <2>1, <2>2
<1>5. ButtonSafe' /\ \A q \in Asked : InPlay(q)' => InPlay(q) \/ q = r
  BY <1>1, <1>4, ClickIsSafe
<1>6. WorldSafe' /\ reused \subseteq reused'
  BY <1>1, <1>2, WorldStays
<1>7. RequestsFit'
  <2> SUFFICES ASSUME NEW q \in Asked, InPlay(q)', Home[q.meant] = q.tunnel
               PROVE  Fits(q.tunnel, q.name, q.meant)'
    BY DEF RequestsFit
  <2>1. Fits(q.tunnel, q.name, q.meant)
    BY <1>1, <1>4, <1>5 DEF RequestsFit
  <2> QED BY <1>6, <2>1, FitsStays
<1>8. PageTypeOK' /\ StatusFits' /\ FormFits'
  BY <1>2, <1>6, PageStays
<1> QED BY <1>5, <1>6, <1>7, <1>8 DEF IInv

(* The button's other steps, and the confirmation.                         *)
LEMMA ButtonSteps ==
    ASSUME IInv, (ButtonNext /\ UNCHANGED <<pageVars, serverVars>>) \/ Confirm \/ UNCHANGED vars
    PROVE  IInv'
<1>1. UNCHANGED pageVars /\ UNCHANGED serverVars /\ ButtonSafe /\ WorldSafe /\ PageTypeOK
  BY DEF IInv, Confirm, vars
<1>2. ButtonSafe' /\ \A q \in Asked : InPlay(q)' => InPlay(q)
  <2>1. CASE Confirm
    <3> DEFINE then == IF form = None THEN None ELSE form.name
    <3>1. then \in Callbacks
      BY <1>1, PageConstants DEF PageTypeOK
    <3>2. handleConfirm(then)
      BY <2>1 DEF Confirm
    <3> HIDE DEF then
    <3> QED BY <1>1, <3>1, <3>2, ConfirmIsSafe
  <2>2. CASE ButtonNext \/ UNCHANGED buttonVars
    BY <1>1, <2>2, ButtonIsSafe
  <2> QED BY <2>1, <2>2 DEF vars
<1>3. WorldSafe' /\ reused \subseteq reused'
  BY <1>1, WorldStays
<1>4. RequestsFit'
  BY <1>2, <1>3, RequestsStay DEF IInv
<1>5. PageTypeOK' /\ StatusFits' /\ FormFits'
  BY <1>1, <1>3, PageStays
<1> QED BY <1>2, <1>3, <1>4, <1>5 DEF IInv

ServerStep ==
    \/ \E c \in Applies : Serve(c) \/ ServeNothing(c)
    \/ \E t \in Tunnels : \E n \in Names :
          \/ OtherRemoves(t, n)
          \/ \E k \in Keys : OtherAdds(t, n, k)
          \/ \E m \in Names : OtherRenames(t, n, m)

(* The servers: a request is carried out, or somebody else changes peers.  *)
LEMMA ServerSteps == ASSUME IInv, ServerStep PROVE IInv'
<1>1. ButtonSafe /\ WorldSafe
  BY DEF IInv
<1>2. WorldSafe' /\ reused \subseteq reused'
  <2>1. ASSUME NEW c \in Applies, Serve(c)
        PROVE  WorldSafe' /\ reused \subseteq reused'
    <3> DEFINE r == calls[c].request
    <3>1. calls[c] \in Calls
      BY <1>1, <2>1 DEF Serve, Served, ButtonSafe, ButtonTypeOK
    <3>2. r \in Asked
      BY <3>1, NoneIsNoRequest DEF Calls
    <3>3. peers[r.tunnel][r.name] # None
          /\ (Removal(r.tunnel, r.name) \/ Rewrite(r.tunnel, r.name, r.new, r.meant))
      BY <2>1 DEF Serve, Holder
    <3> HIDE DEF r
    <3>4. r.tunnel \in Tunnels /\ r.name \in Names /\ r.new \in Names /\ r.meant \in Keys
      BY <3>2, AskedFields
    <3> QED BY <1>1, <3>3, <3>4, RemovalIsSafe, RewriteIsSafe
  <2>2. ASSUME NEW c \in Applies, ServeNothing(c)
        PROVE  WorldSafe' /\ reused \subseteq reused'
    BY <1>1, <2>2, WorldStays DEF ServeNothing
  <2>3. ASSUME NEW t \in Tunnels, NEW n \in Names, OtherRemoves(t, n)
        PROVE  WorldSafe' /\ reused \subseteq reused'
    BY <1>1, <2>3, RemovalIsSafe DEF OtherRemoves
  <2>4. ASSUME NEW t \in Tunnels, NEW n \in Names, NEW k \in Keys, OtherAdds(t, n, k)
        PROVE  WorldSafe' /\ reused \subseteq reused'
    BY <1>1, <2>4, AdditionIsSafe
  <2>5. ASSUME NEW t \in Tunnels, NEW n \in Names, NEW m \in Names, OtherRenames(t, n, m)
        PROVE  WorldSafe' /\ reused \subseteq reused'
    <3>1. peers[t][n] # None /\ Rewrite(t, n, m, peers[t][n])
      BY <2>5 DEF OtherRenames
    <3>2. peers[t] \in Peerings
      BY <1>1 DEF WorldSafe
    <3>3. peers[t][n] \in Keys
      BY <3>1, <3>2 DEF Peerings
    <3> QED BY <1>1, <3>1, <3>3, RewriteIsSafe
  <2> QED BY <2>1, <2>2, <2>3, <2>4, <2>5 DEF ServerStep
<1>3. ButtonSafe' /\ \A q \in Asked : InPlay(q)' => InPlay(q)
  <2>1. ASSUME NEW c \in Applies, Serve(c) \/ ServeNothing(c)
        PROVE  ButtonSafe' /\ \A q \in Asked : InPlay(q)' => InPlay(q)
    BY <1>1, <2>1, ServedIsSafe DEF Serve, ServeNothing
  <2>2. CASE UNCHANGED buttonVars
    BY <1>1, <2>2, ButtonIsSafe
  <2> QED BY <2>1, <2>2 DEF ServerStep, OtherRemoves, OtherAdds, OtherRenames
<1>4. RequestsFit'
  BY <1>2, <1>3, RequestsStay DEF IInv
<1>5. PageTypeOK' /\ StatusFits' /\ FormFits'
  <2>1. UNCHANGED pageVars
    BY DEF ServerStep, Serve, ServeNothing, OtherRemoves, OtherAdds, OtherRenames
  <2> QED BY <1>2, <2>1, PageStays
<1> QED BY <1>2, <1>3, <1>4, <1>5 DEF IInv

PageStep ==
    \/ \E t \in Tunnels : selectTunnel(t) \/ PollServed(t)
    \/ \E a \in answers : Polled(a)
    \/ PollFails
    \/ \E n \in Names : selectPeer(n) \/ setEditPeerName(n)
    \/ startEditPeer \/ cancelEdit
    \/ \E c \in Applies : Done(c)

(* What every step of the page leaves as it is: servers and requests.      *)
LEMMA PageStepsElsewhere ==
    ASSUME IInv, PageStep
    PROVE  ButtonSafe' /\ WorldSafe' /\ RequestsFit' /\ UNCHANGED serverVars
<1>1. UNCHANGED serverVars
  BY DEF PageStep, selectTunnel, PollServed, Polled, PollFails, selectPeer, setEditPeerName,
         startEditPeer, cancelEdit, Done
<1>2. (\E c \in Applies : Done(c)) \/ Unmount \/ UNCHANGED buttonVars
  BY RerenderIsSafe
     DEF PageStep, selectTunnel, PollServed, Polled, PollFails, selectPeer, setEditPeerName,
         startEditPeer, cancelEdit
<1>3. ButtonSafe' /\ \A q \in Asked : InPlay(q)' => InPlay(q)
  <2>1. ASSUME NEW c \in Applies, Done(c)
        PROVE  ButtonSafe' /\ \A q \in Asked : InPlay(q)' => InPlay(q)
    <3> DEFINE leaves == Rendered(status, selectedPeerName', form') # Rendered(status, selectedPeerName, form)
    <3>1. leaves \in BOOLEAN
      OBVIOUS
    <3>2. Applied(c, leaves)
      BY <2>1 DEF Done
    <3> HIDE DEF leaves
    <3> QED BY <3>1, <3>2, AppliedIsSafe DEF IInv
  <2> QED BY <1>2, <2>1, ButtonIsSafe DEF IInv
<1>4. WorldSafe' /\ reused \subseteq reused'
  BY <1>1, WorldStays DEF IInv
<1>5. RequestsFit'
  BY <1>3, <1>4, RequestsStay DEF IInv
<1> QED BY <1>1, <1>3, <1>4, <1>5

(* An answer is of its tunnel at the time it was given.                    *)
LEMMA StatusSteps == ASSUME IInv, PageStep PROVE StatusFits'
<1>1. reused' = reused /\ WorldSafe /\ StatusFits
  BY PageStepsElsewhere DEF IInv, serverVars
<1>2. ASSUME NEW t \in Tunnels, PollServed(t) PROVE StatusFits'
  <2> DEFINE a == [tunnel |-> t, peers |-> peers[t]]
  <2>1. answers' = answers \cup {a} /\ status' = status
    BY <1>2 DEF PollServed
  <2>2. a.tunnel = t /\ a.peers = peers[t] /\ PeersFit(t, peers[t])
    BY <1>1 DEF WorldSafe
  <2> HIDE DEF a
  <2> QED BY <1>1, <2>1, <2>2 DEF StatusFits, PeersFit, Fits
<1>3. ASSUME NEW a \in answers, Polled(a) PROVE StatusFits'
  <2>1. answers' = answers \ {a} /\ status' = a
    BY <1>3 DEF Polled
  <2> QED BY <1>1, <2>1 DEF StatusFits, PeersFit, Fits
<1>4. CASE answers' \subseteq answers /\ status' = status
  BY <1>1, <1>4 DEF StatusFits, PeersFit, Fits
<1>5. \/ \E t \in Tunnels : PollServed(t)
      \/ \E a \in answers : Polled(a)
      \/ answers' \subseteq answers /\ status' = status
  BY DEF PageStep, selectTunnel, PollFails, selectPeer, setEditPeerName, startEditPeer, cancelEdit, Done
<1> QED BY <1>2, <1>3, <1>4, <1>5

LEMMA PageTypes == ASSUME IInv, PageStep PROVE PageTypeOK'
<1>1. /\ selectedInterface \in Tunnels /\ polls \subseteq Tunnels /\ answers \subseteq Views
      /\ status \in Views \cup {None}
      /\ selectedPeerName \in Names \cup {None}
      /\ form \in [key : Keys, name : Names] \cup {None}
      /\ peers \in [Tunnels -> Peerings]
  BY DEF IInv, PageTypeOK, WorldSafe
<1>2. ASSUME NEW t \in Tunnels, selectTunnel(t) PROVE PageTypeOK'
  BY <1>1, <1>2 DEF PageTypeOK, selectTunnel
<1>3. ASSUME NEW t \in Tunnels, PollServed(t) PROVE PageTypeOK'
  <2>1. [tunnel |-> t, peers |-> peers[t]] \in Views
    BY <1>1 DEF Views
  <2> QED BY <1>1, <1>3, <2>1 DEF PageTypeOK, PollServed
<1>4. ASSUME NEW a \in answers, Polled(a) PROVE PageTypeOK'
  BY <1>1, <1>4 DEF PageTypeOK, Polled
<1>5. CASE PollFails
  BY <1>1, <1>5 DEF PageTypeOK, PollFails
<1>6. ASSUME NEW n \in Names, selectPeer(n) PROVE PageTypeOK'
  BY <1>1, <1>6 DEF PageTypeOK, selectPeer
<1>7. ASSUME NEW n \in Names, setEditPeerName(n) PROVE PageTypeOK'
  BY <1>1, <1>7 DEF PageTypeOK, setEditPeerName
<1>8. CASE startEditPeer
  <2>1. status.peers[selectedPeerName] \in Keys /\ selectedPeerName \in Names
    BY <1>1, <1>8 DEF startEditPeer, selectedPeer, ShowsPeer, Views, Peerings
  <2> QED BY <1>1, <1>8, <2>1 DEF PageTypeOK, startEditPeer
<1>9. CASE cancelEdit
  BY <1>1, <1>9 DEF PageTypeOK, cancelEdit
<1>10. ASSUME NEW c \in Applies, Done(c) PROVE PageTypeOK'
  <2>1. calls[c] \in Calls
    BY <1>10 DEF IInv, ButtonSafe, ButtonTypeOK, Done
  <2>2. calls[c].then \in Names \cup {None}
    BY <2>1, PageConstants DEF Calls
  <2> QED BY <1>1, <1>10, <2>2 DEF PageTypeOK, Done
<1> QED BY <1>2, <1>3, <1>4, <1>5, <1>6, <1>7, <1>8, <1>9, <1>10 DEF PageStep

(* The form is filled from the status, and closed with the choice of       *)
(* another peer.                                                           *)
LEMMA FormSteps == ASSUME IInv, PageStep PROVE FormFits'
<1>1. reused' = reused /\ PageTypeOK /\ StatusFits /\ FormFits
  BY PageStepsElsewhere DEF IInv, serverVars
<1>2. CASE form' = None
  BY <1>2 DEF FormFits
<1>3. CASE /\ form # None /\ form'.key = form.key
           /\ selectedPeerName' = selectedPeerName
  BY <1>1, <1>3 DEF FormFits, Fits
<1>4. CASE startEditPeer
  <2>1. /\ status # None /\ selectedPeerName # None /\ status.peers[selectedPeerName] # None
        /\ form' = [key |-> status.peers[selectedPeerName], name |-> selectedPeerName]
        /\ selectedPeerName' = selectedPeerName
    BY <1>4 DEF startEditPeer, selectedPeer, ShowsPeer
  <2>2. form'.key = status.peers[selectedPeerName]
    BY <2>1
  <2>3. selectedPeerName \in Names
    BY <1>1, <2>1 DEF PageTypeOK
  <2>4. /\ Home[status.peers[selectedPeerName]] = status.tunnel
        /\ Fits(status.tunnel, selectedPeerName, status.peers[selectedPeerName])
    BY <1>1, <2>1, <2>3 DEF StatusFits, PeersFit
  <2> QED BY <1>1, <2>1, <2>2, <2>4 DEF FormFits, Fits
<1>5. \/ form' = None \/ startEditPeer
      \/ /\ form # None /\ form'.key = form.key
         /\ selectedPeerName' = selectedPeerName
  <2>1. ASSUME NEW n \in Names, setEditPeerName(n)
        PROVE  /\ form # None /\ selectedPeerName' = selectedPeerName
               /\ form'.key = form.key
    <3>1. form # None /\ form \in [key : Keys, name : Names] /\ form' = [form EXCEPT !.name = n]
      BY <1>1, <2>1 DEF PageTypeOK, setEditPeerName
    <3>2. form'.key = form.key
      BY <3>1
    <3> QED BY <2>1, <3>1, <3>2 DEF setEditPeerName
  <2>2. ASSUME NEW c \in Applies, Done(c)
        PROVE  form' = None \/ (form' = form /\ selectedPeerName' = selectedPeerName)
    BY <2>2 DEF Done
  <2>3. ASSUME NEW n \in Names, selectPeer(n) PROVE form' = None
    BY <2>3 DEF selectPeer
  <2>4. CASE cancelEdit
    BY <2>4 DEF cancelEdit
  <2>5. CASE (\E t \in Tunnels : selectTunnel(t) \/ PollServed(t)) \/ (\E a \in answers : Polled(a)) \/ PollFails
    BY <2>5 DEF selectTunnel, PollServed, Polled, PollFails
  <2> QED BY <2>1, <2>2, <2>3, <2>4, <2>5 DEF PageStep
<1> QED BY <1>2, <1>3, <1>4, <1>5

--------------------------------------------------------------------------------
LEMMA InitHolds == Init => IInv
<1> SUFFICES ASSUME Init PROVE IInv
  OBVIOUS
<1>1. /\ open = FALSE /\ preview = None /\ loadingPlan = FALSE /\ plan = None /\ stray = {}
      /\ applying = None /\ calls = [c \in Applies |-> None] /\ clicked = None /\ strayed = FALSE
  BY DEF Init, ButtonInit
<1>2. ButtonSafe
  BY <1>1 DEF ButtonSafe, ButtonTypeOK, Dialog
<1>3. WorldSafe
  BY PageConstants DEF Init, WorldSafe, PeersFit, Fits
<1>4. PageTypeOK /\ StatusFits /\ FormFits
  BY DEF Init, PageTypeOK, StatusFits, FormFits
<1>5. RequestsFit
  BY <1>1, NoneIsNoRequest DEF RequestsFit, InPlay
<1> QED BY <1>2, <1>3, <1>4, <1>5 DEF IInv

LEMMA StepHolds == IInv /\ [Next]_vars => IInv'
<1> SUFFICES ASSUME IInv, [Next]_vars PROVE IInv'
  OBVIOUS
<1>1. CASE (ButtonNext /\ UNCHANGED <<pageVars, serverVars>>) \/ Confirm \/ UNCHANGED vars
  BY <1>1, ButtonSteps
<1>2. CASE PageStep
  BY <1>2, PageStepsElsewhere, StatusSteps, PageTypes, FormSteps DEF IInv
<1>3. CASE ClickRemove \/ ClickSave
  BY <1>3, Clicks
<1>4. CASE ServerStep
  BY <1>4, ServerSteps
<1> QED BY <1>1, <1>2, <1>3, <1>4 DEF Next, PageStep, ServerStep

(* The inductive invariant: the button, the servers, and what page and     *)
(* requests believe about the servers.                                     *)
THEOREM InvariantHolds == Spec => []IInv
<1>1. Init => IInv
  BY InitHolds
<1>2. IInv /\ [Next]_vars => IInv'
  BY StepHolds
<1> QED BY <1>1, <1>2, PTL DEF Spec

(* The page's and the button's state (WireGuard.jsx:171-210,               *)
(* ActionButton.jsx:12-16) keep their types.                               *)
THEOREM TypeCorrect == Spec => []TypeOK
<1>1. IInv => TypeOK
  BY DEF IInv, ButtonSafe, WorldSafe, PageTypeOK, TypeOK
<1> QED BY <1>1, InvariantHolds, PTL

(* What is applied is what the last click asked for, with any number of    *)
(* calls of earlier dialogs and buttons under way, unless the plan shown   *)
(* is of a dialog that was closed (ActionButton.jsx:18-46).                *)
THEOREM WhatIsConfirmed == Spec => []ConfirmedIsClicked
<1>1. IInv => ConfirmedIsClicked
  BY DEF IInv, ButtonSafe, Dialog, ConfirmedIsClicked
<1> QED BY <1>1, InvariantHolds, PTL

(* The form is of the peer that is shown, on the tunnel it was filled      *)
(* from, however old the answer shown (WireGuard.jsx:343-354).             *)
THEOREM FormIsOfItsPeer == Spec => []FormIsOfThePeer
<1>1. IInv => FormIsOfThePeer
  <2> SUFFICES ASSUME IInv, selectedPeer, form # None, status.tunnel = Home[form.key]
               PROVE  \/ status.peers[selectedPeerName] = form.key
                      \/ <<status.tunnel, selectedPeerName>> \in reused
    BY DEF FormIsOfThePeer
  <2>1. /\ status # None /\ selectedPeerName \in Names
        /\ status.peers[selectedPeerName] # None
    BY DEF selectedPeer, ShowsPeer, IInv, PageTypeOK
  <2>2. Fits(status.tunnel, selectedPeerName, status.peers[selectedPeerName])
    BY <2>1 DEF IInv, StatusFits, PeersFit
  <2>3. Fits(status.tunnel, selectedPeerName, form.key)
    BY DEF IInv, FormFits
  <2> QED BY <2>2, <2>3 DEF Fits
<1> QED BY <1>1, InvariantHolds, PTL

(* Every removal and every edit that the server carries out, one that      *)
(* keeps the name as well, is of the peer the user saw, with the           *)
(* exceptions the property names (WireGuard.jsx:580-606).                  *)
THEOREM ActsOnIt == Spec => ActsOnThePeerShown
<1> DEFINE Right ==
             \A c \in Applies : Serve(c) =>
               LET r == calls[c].request IN
               \/ Holder(r) = r.meant
               \/ Home[r.meant] # r.tunnel
               \/ <<r.tunnel, r.name>> \in reused
<1>1. IInv /\ [Next]_vars => [Right]_vars
  <2> SUFFICES ASSUME IInv, NEW c \in Applies, Serve(c), Home[calls[c].request.meant] = calls[c].request.tunnel
               PROVE  \/ Holder(calls[c].request) = calls[c].request.meant
                      \/ <<calls[c].request.tunnel, calls[c].request.name>> \in reused
    OBVIOUS
  <2> DEFINE r == calls[c].request
  <2>1. calls[c] \in Calls /\ calls[c] # None
    BY DEF IInv, ButtonSafe, ButtonTypeOK, Serve, Served
  <2>2. r \in Asked /\ InPlay(r)
    BY <2>1, NoneIsNoRequest DEF Calls, InPlay
  <2>3. peers[r.tunnel][r.name] # None
    BY DEF Serve, Holder
  <2>4. Home[r.meant] = r.tunnel
    OBVIOUS
  <2> HIDE DEF r
  <2>5. Fits(r.tunnel, r.name, r.meant)
    BY <2>2, <2>4 DEF IInv, RequestsFit
  <2>6. r.tunnel \in Tunnels /\ r.name \in Names
    BY <2>2, AskedFields
  <2>7. Fits(r.tunnel, r.name, peers[r.tunnel][r.name])
    BY <2>3, <2>6 DEF IInv, WorldSafe, PeersFit
  <2>8. Holder(r) = r.meant \/ <<r.tunnel, r.name>> \in reused
    BY <2>5, <2>7 DEF Fits, Holder
  <2> QED BY <2>8 DEF r
<1> QED BY <1>1, InvariantHolds, PTL DEF Spec, ActsOnThePeerShown
==================================================================================
