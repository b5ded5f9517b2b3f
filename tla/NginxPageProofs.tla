---------------------------- MODULE NginxPageProofs ----------------------------
(***************************************************************************)
(* Proofs about NginxPage for any sites and any number of checks under     *)
(* way: the type invariant and the four properties of the page.            *)
(***************************************************************************)
EXTENDS NginxPage, FiniteSetTheorems, TLAPS

(* What the editor holds while a save is under way: the text that is being *)
(* saved, which Saved gives to the site.                                   *)
EditorBecause ==
    selected # None /\ viewMode = "edit" /\ ~loading.flag
    => \/ content = selected
       \/ saveError
       \/ applying["save"] # None /\ content = applying["save"].text

(* Some call has changed the site, and its answer is still to come.        *)
Awaited(s) == \E k \in Kinds : applying[k] # None /\ applying[k].name = s /\ applying[k].written

(* A check that is under way may become an outdated cached one.            *)
OutdatedBecause ==
    \A s \in Sites : checkCache[s] = "outdated" \/ Outdated(s) \in checks
                     => s \in unseen \/ Awaited(s)

IInv ==
    /\ TypeOK
    /\ IsFiniteSet(checks)
    /\ EditorBecause
    /\ LoadingMeansLoad
    /\ OutdatedBecause
    /\ CheckViewIsFilled

(* The set of checks under way, in a state and in the next.                *)
ChecksOK(S) == S \subseteq Check /\ IsFiniteSet(S) /\ Cardinality(S) <= MaxChecks

--------------------------------------------------------------------------------
LEMMA OutdatedIsCheck == ASSUME NEW s \in Sites PROVE Outdated(s) \in Check /\ Outdated(s).name = s
BY DEF Outdated, Check

LEMMA CallFields ==
    ASSUME NEW c \in Calls
    PROVE  c.name \in Sites /\ c.text \in Sites \cup {"new", None} /\ c.written \in BOOLEAN /\ c # None
BY PageConstants DEF Calls

LEMMA CallsWritten == ASSUME NEW c \in Calls PROVE [c EXCEPT !.written = TRUE] \in Calls
BY DEF Calls

(* A new check of a site leaves room, and is not of an older state.        *)
LEMMA StartCheckLemma ==
    ASSUME ChecksOK(checks), NEW s \in Sites, StartCheck(s)
    PROVE  /\ ChecksOK(checks')
           /\ checkError' = FALSE
           /\ \E c \in checks' : c.name = s
           /\ \A z : Outdated(z) \in checks' <=> Outdated(z) \in checks
<1> DEFINE c == [name |-> s, seen |-> "current"]
<1>1. c \in Check /\ checks' = checks \cup {c} /\ c.name = s
  BY DEF StartCheck, Check
<1>2. \A z : Outdated(z) # c
  BY DEF Outdated
<1>3. /\ IsFiniteSet(checks \cup {c})
      /\ Cardinality(checks \cup {c}) <= Cardinality(checks) + 1
      /\ Cardinality(checks) \in Nat
  <2>1. Cardinality(checks) \in Nat
    BY FS_CardinalityType DEF ChecksOK
  <2>2. /\ IsFiniteSet(checks \cup {c})
        /\ Cardinality(checks \cup {c}) = IF c \in checks THEN Cardinality(checks) ELSE Cardinality(checks) + 1
    BY FS_AddElement DEF ChecksOK
  <2> HIDE DEF c
  <2> QED BY <2>1, <2>2
<1>4. Cardinality(checks \cup {c}) \in Nat
  BY <1>3, FS_CardinalityType
<1>5. Cardinality(checks) < MaxChecks
  BY DEF StartCheck
<1>6. Cardinality(checks \cup {c}) <= MaxChecks
  <2> HIDE DEF c
  <2> QED BY <1>3, <1>4, <1>5, PageConstants
<1>7. ChecksOK(checks')
  BY <1>1, <1>3, <1>6 DEF ChecksOK
<1>8. \A z : Outdated(z) \in checks' <=> Outdated(z) \in checks
  <2> HIDE DEF c
  <2> QED BY <1>1, <1>2
<1>9. \E d \in checks' : d.name = s
  BY <1>1
<1> QED BY <1>7, <1>8, <1>9 DEF StartCheck

(* A check that ends makes room.                                           *)
LEMMA EndCheckLemma ==
    ASSUME ChecksOK(checks), NEW c \in checks, checks' = checks \ {c}
    PROVE  ChecksOK(checks')
<1>1. IsFiniteSet(checks') /\ Cardinality(checks') = Cardinality(checks) - 1
  BY FS_RemoveElement DEF ChecksOK
<1>2. Cardinality(checks) \in Nat
  BY FS_CardinalityType DEF ChecksOK
<1> QED BY <1>1, <1>2, PageConstants DEF ChecksOK

(* A change of a site makes the checks of it outdated, and no new ones.    *)
LEMMA ChangeLemma ==
    ASSUME TypeOK, ChecksOK(checks), NEW s \in Sites, Change(s)
    PROVE  /\ ChecksOK(checks')
           /\ checkCache' \in [Sites -> {"current", "outdated", None}]
           /\ \A z \in Sites : checkCache[z] # None <=> checkCache'[z] # None
           /\ \A z \in Sites : (\E c \in checks : c.name = z) => \E c \in checks' : c.name = z
           /\ \A z \in Sites \ {s} : /\ checkCache'[z] = checkCache[z]
                                     /\ Outdated(z) \in checks' <=> Outdated(z) \in checks
<1> DEFINE Rest == {c \in checks : c.name # s}
           Turned == {Outdated(s) : c \in {d \in checks : d.name = s}}
<1>1. checks' = Rest \cup Turned
  BY DEF Change
<1>2. Turned \subseteq {Outdated(s)}
  OBVIOUS
<1>3. checkCache' = [checkCache EXCEPT ![s] = IF @ = None THEN None ELSE "outdated"]
  BY DEF Change
<1>4. checkCache \in [Sites -> {"current", "outdated", None}] /\ checks \subseteq Check
  BY DEF TypeOK
<1>5. checkCache' \in [Sites -> {"current", "outdated", None}]
  BY <1>3, <1>4
<1>6. \A z \in Sites : checkCache[z] # None <=> checkCache'[z] # None
  BY <1>3, <1>4, PageConstants
<1>7. Outdated(s) \in Check /\ Outdated(s).name = s
  BY OutdatedIsCheck
<1>8. ChecksOK(checks')
  <2>1. CASE \E d \in checks : d.name = s
    <3>1. PICK d \in checks : d.name = s
      BY <2>1
    <3>2. Rest \subseteq checks \ {d}
      BY <3>1
    <3>3. IsFiniteSet(checks \ {d}) /\ Cardinality(checks \ {d}) = Cardinality(checks) - 1
      BY FS_RemoveElement, <3>1 DEF ChecksOK
    <3>4. IsFiniteSet(Rest) /\ Cardinality(Rest) <= Cardinality(checks \ {d})
      BY FS_Subset, <3>2, <3>3
    <3>5. checks' = Rest \cup {Outdated(s)}
      BY <1>1, <1>2, <3>1
    <3>6. /\ IsFiniteSet(Rest \cup {Outdated(s)})
          /\ Cardinality(Rest \cup {Outdated(s)})
             = IF Outdated(s) \in Rest THEN Cardinality(Rest) ELSE Cardinality(Rest) + 1
      BY FS_AddElement, <3>4
    <3>7. Cardinality(checks) \in Nat /\ Cardinality(Rest) \in Nat /\ Cardinality(checks) <= MaxChecks
      BY FS_CardinalityType, <3>4 DEF ChecksOK
    <3>8. checks' \subseteq Check
      BY <3>5, <1>4, <1>7
    <3> HIDE DEF Rest
    <3>9. Cardinality(checks') <= MaxChecks
      BY <3>3, <3>4, <3>5, <3>6, <3>7, PageConstants
    <3> QED BY <3>5, <3>6, <3>8, <3>9 DEF ChecksOK
  <2>2. CASE ~ \E d \in checks : d.name = s
    BY <2>2, <1>1
  <2> QED BY <2>1, <2>2
<1>9. ASSUME NEW z \in Sites, NEW c \in checks, c.name = z
      PROVE  \E d \in checks' : d.name = z
  <2>1. CASE z = s
    BY <1>1, <1>7, <1>9, <2>1
  <2>2. CASE z # s
    BY <1>1, <1>9, <2>2
  <2> QED BY <2>1, <2>2
<1>10. ASSUME NEW z \in Sites \ {s}
       PROVE  /\ checkCache'[z] = checkCache[z]
              /\ Outdated(z) \in checks' <=> Outdated(z) \in checks
  <2>1. Outdated(z).name = z
    BY OutdatedIsCheck
  <2>2. Outdated(z) \notin Turned
    BY <2>1, <1>7
  <2>3. Outdated(z) \in Rest <=> Outdated(z) \in checks
    BY <2>1
  <2>4. checkCache'[z] = checkCache[z]
    BY <1>3, <1>4
  <2> QED BY <1>1, <2>2, <2>3, <2>4
<1> QED BY <1>5, <1>6, <1>8, <1>9, <1>10

(* What choosing a site, a view or the new-site mode does.                 *)
LEMMA GoToLemma ==
    ASSUME TypeOK, ChecksOK(checks), LoadingMeansLoad,
           NEW s \in Sites \cup {None}, NEW new \in BOOLEAN, NEW view \in {"check", "edit"},
           GoTo(s, new, view)
    PROVE  /\ selected' = s /\ creatingNew' = new /\ viewMode' = view
           /\ loading' \in [flag : BOOLEAN, call : BOOLEAN]
           /\ checkError' \in BOOLEAN
           /\ ChecksOK(checks')
           /\ \A z : Outdated(z) \in checks' <=> Outdated(z) \in checks
           /\ LoadingMeansLoad'
           /\ where' # where =>
                 /\ dropped' = FALSE
                 /\ s # None /\ view = "check" => \/ checkCache'[s] # None
                                                  \/ \E c \in checks' : c.name = s
                 /\ s # None /\ view = "edit" => loading'.flag
           /\ where' = where => loading' = loading /\ checks' = checks /\ checkError' = checkError
<1>1. selected' = s /\ creatingNew' = new /\ viewMode' = view
  BY DEF GoTo
<1>2. CASE where' = where
  <2>1. loading' = loading /\ checks' = checks /\ checkError' = checkError
    BY <1>2 DEF GoTo
  <2>2. selected' = selected /\ viewMode' = viewMode
    BY <1>2 DEF where
  <2>3. LoadingMeansLoad'
    BY <2>1, <2>2 DEF LoadingMeansLoad
  <2>4. loading \in [flag : BOOLEAN, call : BOOLEAN] /\ checkError \in BOOLEAN
    BY DEF TypeOK
  <2> QED BY <1>1, <1>2, <2>1, <2>3, <2>4
<1>3. CASE where' # where
  <2>1. CheckEffect /\ LoadEffect /\ dropped' = FALSE
    BY <1>3 DEF GoTo
  <2>2. /\ loading' \in [flag : BOOLEAN, call : BOOLEAN]
        /\ s # None /\ view = "edit" => loading'.flag /\ loading'.call
    BY <1>1, <2>1 DEF LoadEffect, TypeOK
  <2>3. LoadingMeansLoad'
    BY <1>1, <2>2 DEF LoadingMeansLoad
  <2>4. /\ checkError' \in BOOLEAN
        /\ ChecksOK(checks')
        /\ \A z : Outdated(z) \in checks' <=> Outdated(z) \in checks
        /\ s # None /\ view = "check" => \/ checkCache'[s] # None
                                         \/ \E c \in checks' : c.name = s
    <3>1. CASE s # None /\ view = "check" /\ StartCheck(s)
      BY <3>1, StartCheckLemma
    <3>2. CASE /\ ~(s # None /\ view = "check" /\ checkCache'[s] = None)
               /\ UNCHANGED <<checks, checkError>>
      BY <3>2 DEF TypeOK
    <3> QED BY <1>1, <2>1, <3>1, <3>2 DEF CheckEffect
  <2> QED BY <1>1, <1>3, <2>1, <2>2, <2>3, <2>4
<1> QED BY <1>2, <1>3

--------------------------------------------------------------------------------
LEMMA InvChecks == ASSUME IInv PROVE ChecksOK(checks)
BY DEF IInv, TypeOK, ChecksOK

(* Going elsewhere: a site is edited only once its load has begun, and the *)
(* check view is filled by its effect.                                     *)
LEMMA MoveLemma ==
    ASSUME IInv, NEW s \in Sites \cup {None}, NEW new \in BOOLEAN, NEW view \in {"check", "edit"},
           GoTo(s, new, view),
           new => s = None,
           s # None /\ view = "edit" => where' # where,
           where' = where => dropped' = dropped,
           content' \in Sites \cup {"new", None}, saveError' \in BOOLEAN,
           UNCHANGED <<applying, checkCache, unseen>>
    PROVE  IInv'
<1>1. TypeOK /\ ChecksOK(checks) /\ LoadingMeansLoad /\ OutdatedBecause /\ CheckViewIsFilled
  BY InvChecks DEF IInv
<1>2. /\ selected' = s /\ creatingNew' = new /\ viewMode' = view
      /\ loading' \in [flag : BOOLEAN, call : BOOLEAN]
      /\ checkError' \in BOOLEAN
      /\ ChecksOK(checks')
      /\ \A z : Outdated(z) \in checks' <=> Outdated(z) \in checks
      /\ LoadingMeansLoad'
      /\ where' # where =>
            /\ dropped' = FALSE
            /\ s # None /\ view = "check" => \/ checkCache'[s] # None
                                             \/ \E c \in checks' : c.name = s
            /\ s # None /\ view = "edit" => loading'.flag
      /\ where' = where => loading' = loading /\ checks' = checks /\ checkError' = checkError
  BY <1>1, GoToLemma
<1>3. dropped' \in BOOLEAN
  BY <1>1, <1>2 DEF TypeOK
<1>4. TypeOK'
  BY <1>1, <1>2, <1>3 DEF TypeOK, ChecksOK
<1>5. EditorBecause'
  BY <1>2 DEF EditorBecause
<1>6. OutdatedBecause'
  BY <1>1, <1>2 DEF OutdatedBecause, Awaited
<1>7. CheckViewIsFilled'
  <2>1. CASE where' = where
    BY <1>1, <1>2, <2>1 DEF CheckViewIsFilled, where
  <2>2. CASE where' # where
    BY <1>2, <2>2 DEF CheckViewIsFilled
  <2> QED BY <2>1, <2>2
<1> QED BY <1>2, <1>4, <1>5, <1>6, <1>7 DEF IInv, ChecksOK

LEMMA Moves ==
    ASSUME IInv, \/ \E s \in Sites : selectSite(s)
                 \/ \E v \in {"check", "edit"} : setViewMode(v)
                 \/ cancelEditConfig \/ startNew \/ cancelCreateNew
    PROVE  IInv'
<1>1. TypeOK
  BY DEF IInv
<1>2. ASSUME NEW s \in Sites, selectSite(s) PROVE IInv'
  <2>1. content' \in Sites \cup {"new", None} /\ saveError' \in BOOLEAN
    BY <1>1, <1>2 DEF selectSite, TypeOK
  <2>2. GoTo(s, FALSE, "check") /\ (where' = where => UNCHANGED dropped)
        /\ UNCHANGED <<applying, checkCache, unseen>>
    BY <1>2 DEF selectSite
  <2> QED BY <2>1, <2>2, MoveLemma
<1>3. ASSUME NEW v \in {"check", "edit"}, setViewMode(v) PROVE IInv'
  <2>1. content' \in Sites \cup {"new", None} /\ saveError' \in BOOLEAN
    BY <1>1, <1>3 DEF setViewMode, TypeOK
  <2>2. GoTo(selected, FALSE, v) /\ UNCHANGED <<applying, checkCache, unseen>> /\ v # viewMode
    BY <1>3 DEF setViewMode
  <2>3. where' # where
    BY <2>2 DEF where, GoTo
  <2>4. selected \in Sites \cup {None}
    BY <1>1 DEF TypeOK
  <2> QED BY <2>1, <2>2, <2>3, <2>4, MoveLemma
<1>4. ASSUME cancelEditConfig PROVE IInv'
  <2>1. content' \in Sites \cup {"new", None} /\ saveError' \in BOOLEAN
    BY <1>1, <1>4 DEF cancelEditConfig, TypeOK
  <2>2. GoTo(selected, FALSE, "check") /\ UNCHANGED <<applying, checkCache, unseen>> /\ viewMode = "edit"
    BY <1>4 DEF cancelEditConfig
  <2>3. where' # where
    BY <2>2 DEF where, GoTo
  <2>4. selected \in Sites \cup {None}
    BY <1>1 DEF TypeOK
  <2> QED BY <2>1, <2>2, <2>3, <2>4, MoveLemma
<1>5. ASSUME startNew PROVE IInv'
  <2>1. content' \in Sites \cup {"new", None} /\ saveError' \in BOOLEAN
    BY <1>1, <1>5 DEF startNew, TypeOK
  <2>2. GoTo(None, TRUE, viewMode) /\ (where' = where => UNCHANGED dropped)
        /\ UNCHANGED <<applying, checkCache, unseen>>
    BY <1>5 DEF startNew
  <2>3. viewMode \in {"check", "edit"}
    BY <1>1 DEF TypeOK
  <2> QED BY <2>1, <2>2, <2>3, MoveLemma
<1>6. ASSUME cancelCreateNew PROVE IInv'
  <2>1. content' \in Sites \cup {"new", None} /\ saveError' \in BOOLEAN
    BY <1>1, <1>6 DEF cancelCreateNew, TypeOK
  <2>2. GoTo(None, FALSE, viewMode) /\ UNCHANGED <<applying, checkCache, unseen>> /\ creatingNew
    BY <1>6 DEF cancelCreateNew
  <2>3. where' # where
    BY <2>2 DEF where, GoTo
  <2>4. viewMode \in {"check", "edit"}
    BY <1>1 DEF TypeOK
  <2> QED BY <2>1, <2>2, <2>3, <2>4, MoveLemma
<1> QED BY <1>2, <1>3, <1>4, <1>5, <1>6

--------------------------------------------------------------------------------
(* Answers to a load.                                                      *)
LEMMA Loads == ASSUME IInv, Loaded \/ LoadFails PROVE IInv'
<1>1. TypeOK'
  <2>1. content' \in Sites \cup {"new", None} /\ saveError' \in BOOLEAN
    BY DEF IInv, TypeOK, Loaded, LoadFails
  <2>2. loading' \in [flag : BOOLEAN, call : BOOLEAN]
    <3>1. loading' = [flag |-> FALSE, call |-> FALSE]
      BY DEF Loaded, LoadFails
    <3> QED BY <3>1
  <2>3. UNCHANGED <<where, applying, checkCache, checks, checkError, unseen, dropped>>
    BY DEF Loaded, LoadFails
  <2> QED BY <2>1, <2>2, <2>3 DEF IInv, TypeOK, where
<1>2. EditorBecause'
  BY DEF IInv, EditorBecause, where, Loaded, LoadFails
<1>3. LoadingMeansLoad'
  BY DEF LoadingMeansLoad, Loaded, LoadFails
<1>4. OutdatedBecause'
  BY DEF IInv, OutdatedBecause, Awaited, Loaded, LoadFails
<1>5. CheckViewIsFilled' /\ IsFiniteSet(checks')
  BY DEF IInv, CheckViewIsFilled, where, Loaded, LoadFails
<1> QED BY <1>1, <1>2, <1>3, <1>4, <1>5 DEF IInv

(* A check begins or ends.                                                 *)
LEMMA Checks ==
    ASSUME IInv, recheck \/ \E c \in checks : Checked(c) \/ CheckFails(c)
    PROVE  IInv'
<1>1. TypeOK /\ ChecksOK(checks) /\ OutdatedBecause /\ CheckViewIsFilled
  BY InvChecks DEF IInv
<1>2. EditorBecause' /\ LoadingMeansLoad'
  BY DEF IInv, EditorBecause, LoadingMeansLoad, where, recheck, Checked, CheckFails
<1>3. CASE recheck
  <2>1. selected \in Sites /\ StartCheck(selected)
    BY <1>1, <1>3 DEF recheck, TypeOK
  <2>2. /\ ChecksOK(checks')
        /\ checkError' = FALSE
        /\ \E c \in checks' : c.name = selected
        /\ \A z : Outdated(z) \in checks' <=> Outdated(z) \in checks
    BY <1>1, <2>1, StartCheckLemma
  <2>3. TypeOK' /\ IsFiniteSet(checks')
    BY <1>1, <1>3, <2>2 DEF TypeOK, ChecksOK, recheck, where
  <2>4. OutdatedBecause'
    BY <1>1, <1>3, <2>2 DEF OutdatedBecause, Awaited, recheck
  <2>5. CheckViewIsFilled'
    BY <1>3, <2>2 DEF CheckViewIsFilled, recheck, where
  <2> QED BY <1>2, <2>3, <2>4, <2>5 DEF IInv
<1>4. ASSUME NEW c \in checks, Checked(c) PROVE IInv'
  <2>1. /\ checks' = checks \ {c}
        /\ checkCache' = [checkCache EXCEPT ![c.name] = c.seen]
        /\ unseen' = IF c.seen = "current" /\ Outdated(c.name) \notin checks
                     THEN unseen \ {c.name} ELSE unseen
        /\ dropped' = (dropped /\ c.name # selected)
        /\ UNCHANGED <<where, content, loading, saveError, applying, checkError>>
    BY <1>4 DEF Checked
  <2>2. c.name \in Sites /\ c.seen \in {"current", "outdated"} /\ c.seen # None
    BY <1>1, PageConstants DEF ChecksOK, Check
  <2>3. ChecksOK(checks')
    BY <1>1, <2>1, EndCheckLemma
  <2>4. TypeOK' /\ IsFiniteSet(checks')
    <3>1. /\ checkCache' \in [Sites -> {"current", "outdated", None}]
          /\ unseen' \subseteq Sites /\ dropped' \in BOOLEAN
      BY <1>1, <2>1, <2>2 DEF TypeOK
    <3> QED BY <1>1, <2>1, <2>3, <3>1 DEF TypeOK, ChecksOK, where
  <2>5. OutdatedBecause'
    <3> SUFFICES ASSUME NEW s \in Sites, checkCache'[s] = "outdated" \/ Outdated(s) \in checks'
                 PROVE  s \in unseen' \/ Awaited(s)'
      BY DEF OutdatedBecause
    <3>1. Awaited(s)' <=> Awaited(s)
      BY <2>1 DEF Awaited
    <3>2. CASE s # c.name
      BY <1>1, <2>1, <2>2, <3>1, <3>2 DEF OutdatedBecause, TypeOK
    <3>3. CASE s = c.name
      <4>1. checkCache'[s] = c.seen
        BY <1>1, <2>1, <2>2, <3>3 DEF TypeOK
      <4>2. c.seen = "outdated" => c = Outdated(s)
        BY <1>1, <3>3 DEF ChecksOK, Check, Outdated
      <4>3. Outdated(s) \in checks
        BY <2>1, <4>1, <4>2
      <4> QED BY <1>1, <2>1, <3>1, <3>3, <4>3 DEF OutdatedBecause
    <3> QED BY <3>2, <3>3
  <2>6. CheckViewIsFilled'
    <3> SUFFICES ASSUME selected # None, viewMode = "check"
                 PROVE  \/ checkCache'[selected] # None
                        \/ \E d \in checks' : d.name = selected
                        \/ checkError'
                        \/ dropped'
      BY <2>1 DEF CheckViewIsFilled, where
    <3>1. CASE c.name = selected
      BY <1>1, <2>1, <2>2, <3>1 DEF TypeOK
    <3>2. CASE c.name # selected
      <4>1. checkCache'[selected] = checkCache[selected]
        BY <1>1, <2>1, <3>2 DEF TypeOK
      <4> QED BY <1>1, <2>1, <3>2, <4>1 DEF CheckViewIsFilled
    <3> QED BY <3>1, <3>2
  <2> QED BY <1>2, <2>4, <2>5, <2>6 DEF IInv
<1>5. ASSUME NEW c \in checks, CheckFails(c) PROVE IInv'
  <2>1. ChecksOK(checks')
    BY <1>1, <1>5, EndCheckLemma DEF CheckFails
  <2>2. TypeOK' /\ IsFiniteSet(checks')
    BY <1>1, <1>5, <2>1 DEF TypeOK, ChecksOK, CheckFails, where
  <2>3. OutdatedBecause'
    BY <1>1, <1>5 DEF OutdatedBecause, Awaited, CheckFails
  <2>4. CheckViewIsFilled'
    BY <1>5 DEF CheckViewIsFilled, CheckFails
  <2> QED BY <1>2, <2>2, <2>3, <2>4 DEF IInv
<1> QED BY <1>3, <1>4, <1>5

--------------------------------------------------------------------------------
(* A call is sent: nothing was awaited in its place.                       *)
LEMMA Sends ==
    ASSUME IInv, \/ \E s \in Sites : handleSave(s) \/ handleRestoreBackup(s)
                 \/ certbotIssue
    PROVE  IInv'
<1> DEFINE Sending(k, s, text) ==
              /\ Send(k, s, text)
              /\ k = "save" => text = content
              /\ saveError' = saveError \/ (k = "save" /\ saveError' = FALSE)
              /\ UNCHANGED <<where, content, loading, checkCache, checks, checkError, unseen, dropped>>
<1>0. PICK k \in Kinds, s \in Sites, text \in Sites \cup {"new", None} : Sending(k, s, text)
  <2>1. content \in Sites \cup {"new", None} /\ selected \in Sites \cup {None}
    BY DEF IInv, TypeOK
  <2>2. ASSUME NEW z \in Sites, handleSave(z)
        PROVE  /\ Send("save", z, content) /\ saveError' = FALSE
               /\ UNCHANGED <<where, content, loading, checkCache, checks, checkError, unseen, dropped>>
    BY <2>2 DEF handleSave
  <2>3. ASSUME NEW z \in Sites, handleRestoreBackup(z)
        PROVE  /\ Send("restore", z, None) /\ saveError' = saveError
               /\ UNCHANGED <<where, content, loading, checkCache, checks, checkError, unseen, dropped>>
    BY <2>3 DEF handleRestoreBackup
  <2>4. ASSUME certbotIssue
        PROVE  /\ selected \in Sites /\ Send("issue", selected, None) /\ saveError' = saveError
               /\ UNCHANGED <<where, content, loading, checkCache, checks, checkError, unseen, dropped>>
    BY <2>1, <2>4 DEF certbotIssue
  <2>5. "save" \in Kinds /\ "restore" \in Kinds /\ "issue" \in Kinds
    BY DEF Kinds
  <2>6. CASE \E z \in Sites : handleSave(z)
    <3>1. PICK z \in Sites : Sending("save", z, content)
      BY <2>2, <2>6
    <3> HIDE DEF Sending
    <3> QED BY <2>1, <2>5, <3>1
  <2>7. CASE \E z \in Sites : handleRestoreBackup(z)
    <3>1. PICK z \in Sites : Sending("restore", z, None)
      BY <2>3, <2>7
    <3> HIDE DEF Sending
    <3> QED BY <2>5, <3>1
  <2>8. CASE certbotIssue
    <3>1. selected \in Sites /\ Sending("issue", selected, None)
      BY <2>4, <2>8
    <3> HIDE DEF Sending
    <3> QED BY <2>5, <3>1
  <2> HIDE DEF Sending
  <2> QED BY <2>6, <2>7, <2>8
<1>1. /\ Send(k, s, text)
      /\ k = "save" => text = content
      /\ saveError' = saveError \/ (k = "save" /\ saveError' = FALSE)
      /\ UNCHANGED <<where, content, loading, checkCache, checks, checkError, unseen, dropped>>
  BY <1>0
<1> HIDE DEF Sending
<1> DEFINE new == [name |-> s, text |-> text, written |-> FALSE]
<1>2. new \in Calls
  BY DEF Calls
<1>3. applying' = [applying EXCEPT ![k] = new] /\ applying[k] = None
  BY <1>1 DEF Send
<1>4. applying \in [Kinds -> Calls \cup {None}] /\ saveError \in BOOLEAN
  BY DEF IInv, TypeOK
<1>5. new.text = text
  OBVIOUS
<1> HIDE DEF new
<1>6. TypeOK' /\ IsFiniteSet(checks')
  <2>1. applying' \in [Kinds -> Calls \cup {None}]
    BY <1>2, <1>3, <1>4
  <2>2. saveError' \in BOOLEAN
    BY <1>1, <1>4
  <2> QED BY <1>1, <2>1, <2>2 DEF IInv, TypeOK, where
<1>7. EditorBecause'
  <2>1. CASE k = "save"
    <3>1. applying'["save"] # None /\ applying'["save"].text = content
      BY <1>1, <1>2, <1>3, <1>4, <1>5, CallFields, <2>1
    <3> QED BY <1>1, <3>1 DEF EditorBecause
  <2>2. CASE k # "save"
    <3>1. applying'["save"] = applying["save"] /\ saveError' = saveError
      BY <1>1, <1>3, <1>4, <2>2 DEF Kinds
    <3> QED BY <1>1, <3>1 DEF IInv, EditorBecause, where
  <2> QED BY <2>1, <2>2
<1>8. OutdatedBecause'
  <2>1. ASSUME NEW z \in Sites, Awaited(z) PROVE Awaited(z)'
    <3>1. PICK j \in Kinds : applying[j] # None /\ applying[j].name = z /\ applying[j].written
      BY <2>1 DEF Awaited
    <3>2. applying'[j] = applying[j]
      BY <1>3, <1>4, <3>1
    <3> QED BY <3>1, <3>2 DEF Awaited
  <2> QED BY <1>1, <2>1 DEF IInv, OutdatedBecause
<1>9. LoadingMeansLoad' /\ CheckViewIsFilled'
  BY <1>1 DEF IInv, LoadingMeansLoad, CheckViewIsFilled, where
<1> QED BY <1>6, <1>7, <1>8, <1>9 DEF IInv

(* A site changes on the server, by a call of the page or otherwise.       *)
LEMMA Changes ==
    ASSUME IInv, (\E k \in Kinds : Apply(k)) \/ (\E s \in Sites : OtherChange(s))
    PROVE  IInv'
<1>1. TypeOK /\ ChecksOK(checks) /\ OutdatedBecause /\ CheckViewIsFilled /\ EditorBecause
  BY InvChecks DEF IInv
<1>2. PICK s \in Sites :
         /\ Change(s)
         /\ UNCHANGED <<where, content, loading, saveError, checkError, dropped>>
         /\ applying' \in [Kinds -> Calls \cup {None}]
         /\ unseen \subseteq unseen' /\ unseen' \subseteq Sites
         /\ applying["save"] # None => applying'["save"] # None /\ applying'["save"].text = applying["save"].text
         /\ \A z \in Sites : Awaited(z) => Awaited(z)'
         /\ s \in unseen' \/ Awaited(s)'
  <2>1. ASSUME NEW k \in Kinds, Apply(k)
        PROVE  /\ \E s \in Sites : Change(s) /\ Awaited(s)'
               /\ UNCHANGED <<where, content, loading, saveError, checkError, unseen, dropped>>
               /\ applying' \in [Kinds -> Calls \cup {None}]
               /\ applying["save"] # None => applying'["save"] # None /\ applying'["save"].text = applying["save"].text
               /\ \A z \in Sites : Awaited(z) => Awaited(z)'
    <3> DEFINE old == applying[k]
               now == [applying[k] EXCEPT !.written = TRUE]
    <3>1. /\ applying' = [applying EXCEPT ![k] = now]
          /\ Change(old.name)
          /\ UNCHANGED <<where, content, loading, saveError, checkError, unseen, dropped>>
      BY <2>1 DEF Apply
    <3>2. old \in Calls /\ applying \in [Kinds -> Calls \cup {None}]
      BY <1>1, <2>1 DEF TypeOK, Apply
    <3>3. now \in Calls /\ now.name = old.name /\ now.text = old.text /\ now.written /\ now # None
      BY <3>2, CallsWritten, CallFields DEF Calls
    <3>4. applying' \in [Kinds -> Calls \cup {None}] /\ applying'[k] = now
      <4> HIDE DEF now
      <4> QED BY <3>1, <3>2, <3>3
    <3>5. \A j \in Kinds : j # k => applying'[j] = applying[j]
      <4> HIDE DEF now
      <4> QED BY <3>1, <3>2
    <3>6. applying["save"] # None => applying'["save"] # None /\ applying'["save"].text = applying["save"].text
      <4> HIDE DEF now
      <4> QED BY <3>3, <3>4, <3>5 DEF Kinds
    <3>7. ASSUME NEW z \in Sites, Awaited(z) PROVE Awaited(z)'
      <4>1. PICK j \in Kinds : applying[j] # None /\ applying[j].name = z /\ applying[j].written
        BY <3>7 DEF Awaited
      <4>2. applying'[j] # None /\ applying'[j].name = z /\ applying'[j].written
        <5> HIDE DEF now
        <5> QED BY <3>3, <3>4, <3>5, <4>1
      <4> QED BY <4>2 DEF Awaited
    <3>8. \E s \in Sites : Change(s) /\ Awaited(s)'
      <4>1. PICK s \in Sites : s = old.name
        BY <3>2, CallFields
      <4>2. applying'[k] # None /\ applying'[k].name = s /\ applying'[k].written
        <5> HIDE DEF now
        <5> QED BY <3>3, <3>4, <4>1
      <4>3. Awaited(s)'
        BY <4>2 DEF Awaited
      <4> QED BY <3>1, <4>1, <4>3
    <3> QED BY <3>1, <3>4, <3>6, <3>7, <3>8
  <2>2. ASSUME NEW s \in Sites, OtherChange(s)
        PROVE  /\ Change(s)
               /\ UNCHANGED <<where, content, loading, saveError, applying, checkError, dropped>>
               /\ unseen' = unseen \cup {s}
    BY <2>2 DEF OtherChange
  <2>3. unseen \subseteq Sites /\ applying \in [Kinds -> Calls \cup {None}]
    BY <1>1 DEF TypeOK
  <2>4. CASE \E k \in Kinds : Apply(k)
    BY <2>1, <2>3, <2>4
  <2>5. CASE \E s \in Sites : OtherChange(s)
    <3>1. PICK s \in Sites : OtherChange(s)
      BY <2>5
    <3>2. \A z \in Sites : Awaited(z) => Awaited(z)'
      BY <3>1, <2>2 DEF Awaited
    <3> QED BY <2>2, <2>3, <3>1, <3>2
  <2> QED BY <2>4, <2>5
<1>3. /\ ChecksOK(checks')
      /\ checkCache' \in [Sites -> {"current", "outdated", None}]
      /\ \A z \in Sites : checkCache[z] # None <=> checkCache'[z] # None
      /\ \A z \in Sites : (\E c \in checks : c.name = z) => \E c \in checks' : c.name = z
      /\ \A z \in Sites \ {s} : /\ checkCache'[z] = checkCache[z]
                                /\ Outdated(z) \in checks' <=> Outdated(z) \in checks
  BY <1>1, <1>2, ChangeLemma
<1>4. TypeOK' /\ IsFiniteSet(checks')
  BY <1>1, <1>2, <1>3 DEF TypeOK, ChecksOK, where
<1>5. EditorBecause' /\ LoadingMeansLoad'
  BY <1>1, <1>2 DEF IInv, EditorBecause, LoadingMeansLoad, where
<1>6. OutdatedBecause'
  <2> SUFFICES ASSUME NEW z \in Sites, checkCache'[z] = "outdated" \/ Outdated(z) \in checks'
               PROVE  z \in unseen' \/ Awaited(z)'
    BY DEF OutdatedBecause
  <2>1. CASE z = s
    BY <1>2, <2>1
  <2>2. CASE z # s
    BY <1>1, <1>2, <1>3, <2>2 DEF OutdatedBecause
  <2> QED BY <2>1, <2>2
<1>7. CheckViewIsFilled'
  BY <1>1, <1>2, <1>3 DEF CheckViewIsFilled, TypeOK, where
<1> QED BY <1>4, <1>5, <1>6, <1>7 DEF IInv

--------------------------------------------------------------------------------
(* A call ends badly: the page does not learn what it has changed.         *)
LEMMA Failures == ASSUME IInv, NEW k \in Kinds, ApplyFails(k) PROVE IInv'
<1>1. /\ applying \in [Kinds -> Calls \cup {None}] /\ applying[k] \in Calls
      /\ saveError \in BOOLEAN /\ unseen \subseteq Sites
  BY DEF IInv, TypeOK, ApplyFails
<1>2. /\ applying' = [applying EXCEPT ![k] = None]
      /\ saveError' = (saveError \/ k = "save")
      /\ unseen' = IF applying[k].written THEN unseen \cup {applying[k].name} ELSE unseen
      /\ UNCHANGED <<where, content, loading, checkCache, checks, checkError, dropped>>
  BY DEF ApplyFails
<1>3. applying[k].name \in Sites
  BY <1>1, CallFields
<1>4. TypeOK' /\ IsFiniteSet(checks')
  <2>1. applying' \in [Kinds -> Calls \cup {None}] /\ saveError' \in BOOLEAN /\ unseen' \subseteq Sites
    BY <1>1, <1>2, <1>3
  <2> QED BY <1>2, <2>1 DEF IInv, TypeOK, where
<1>5. EditorBecause'
  <2>1. k # "save" => applying'["save"] = applying["save"]
    BY <1>1, <1>2 DEF Kinds
  <2> QED BY <1>2, <2>1 DEF IInv, EditorBecause, where
<1>6. ASSUME NEW z \in Sites, Awaited(z) PROVE z \in unseen' \/ Awaited(z)'
  <2>1. PICK j \in Kinds : applying[j] # None /\ applying[j].name = z /\ applying[j].written
    BY <1>6 DEF Awaited
  <2>2. j # k => applying'[j] = applying[j]
    BY <1>1, <1>2
  <2> QED BY <1>2, <2>1, <2>2 DEF Awaited
<1>7. OutdatedBecause'
  BY <1>2, <1>6 DEF IInv, OutdatedBecause
<1>8. LoadingMeansLoad' /\ CheckViewIsFilled'
  BY <1>2 DEF IInv, LoadingMeansLoad, CheckViewIsFilled, where
<1> QED BY <1>4, <1>5, <1>7, <1>8 DEF IInv

(* An answer drops the cached check: what was awaited is accounted for.    *)
LEMMA FinishLemma ==
    ASSUME TypeOK, OutdatedBecause, NEW k \in Kinds, Finish(k),
           \A z : Outdated(z) \in checks' <=> Outdated(z) \in checks
    PROVE  /\ applying[k] \in Calls
           /\ applying' \in [Kinds -> Calls \cup {None}]
           /\ \A j \in Kinds : j # k => applying'[j] = applying[j]
           /\ checkCache' \in [Sites -> {"current", "outdated", None}]
           /\ \A z \in Sites : z # applying[k].name => checkCache'[z] = checkCache[z]
           /\ unseen' \subseteq Sites
           /\ OutdatedBecause'
<1> DEFINE s == applying[k].name
<1>1. /\ applying \in [Kinds -> Calls \cup {None}] /\ applying[k] \in Calls
      /\ checkCache \in [Sites -> {"current", "outdated", None}] /\ unseen \subseteq Sites
  BY DEF TypeOK, Finish
<1>2. s \in Sites
  BY <1>1, CallFields
<1>3. /\ applying' = [applying EXCEPT ![k] = None]
      /\ checkCache' = [checkCache EXCEPT ![s] = None]
      /\ unseen' = IF Outdated(s) \in checks THEN unseen \cup {s} ELSE unseen \ {s}
  BY DEF Finish, DropCheck
<1>4. /\ applying' \in [Kinds -> Calls \cup {None}]
      /\ \A j \in Kinds : j # k => applying'[j] = applying[j]
      /\ checkCache' \in [Sites -> {"current", "outdated", None}]
      /\ \A z \in Sites : z # s => checkCache'[z] = checkCache[z]
      /\ checkCache'[s] = None
      /\ unseen' \subseteq Sites
  <2> HIDE DEF s
  <2> QED BY <1>1, <1>2, <1>3
<1>5. ASSUME NEW z \in Sites, checkCache'[z] = "outdated" \/ Outdated(z) \in checks'
      PROVE  z \in unseen' \/ Awaited(z)'
  <2>1. CASE z = s
    <3>1. Outdated(z) \in checks
      BY <1>4, <1>5, <2>1, PageConstants
    <3> QED BY <1>3, <2>1, <3>1
  <2>2. CASE z # s
    <3>1. z \in unseen \/ Awaited(z)
      BY <1>4, <1>5, <2>2 DEF OutdatedBecause
    <3>2. z \in unseen => z \in unseen'
      BY <1>3, <2>2
    <3>3. ASSUME Awaited(z) PROVE Awaited(z)'
      <4>1. PICK j \in Kinds : applying[j] # None /\ applying[j].name = z /\ applying[j].written
        BY <3>3 DEF Awaited
      <4>2. applying'[j] = applying[j]
        BY <1>4, <2>2, <4>1
      <4> QED BY <4>1, <4>2 DEF Awaited
    <3> QED BY <3>1, <3>2, <3>3
  <2> QED BY <2>1, <2>2
<1>6. OutdatedBecause'
  BY <1>5 DEF OutdatedBecause
<1> QED BY <1>1, <1>4, <1>6

LEMMA Certificate == ASSUME IInv, Issued PROVE IInv'
<1>1. TypeOK /\ OutdatedBecause /\ CheckViewIsFilled /\ EditorBecause /\ LoadingMeansLoad
  BY DEF IInv
<1>2. /\ Finish("issue") /\ UnderTheView(applying["issue"].name) /\ "issue" \in Kinds
      /\ UNCHANGED <<where, content, loading, saveError, checks, checkError>>
  BY DEF Issued, Kinds
<1>3. /\ applying["issue"] \in Calls
      /\ applying' \in [Kinds -> Calls \cup {None}]
      /\ \A j \in Kinds : j # "issue" => applying'[j] = applying[j]
      /\ checkCache' \in [Sites -> {"current", "outdated", None}]
      /\ \A z \in Sites : z # applying["issue"].name => checkCache'[z] = checkCache[z]
      /\ unseen' \subseteq Sites
      /\ OutdatedBecause'
  BY <1>1, <1>2, FinishLemma
<1>4. TypeOK' /\ IsFiniteSet(checks')
  BY <1>1, <1>2, <1>3 DEF IInv, TypeOK, UnderTheView, where
<1>5. EditorBecause' /\ LoadingMeansLoad'
  <2>1. applying'["save"] = applying["save"]
    BY <1>3 DEF Kinds
  <2> QED BY <1>1, <1>2, <2>1 DEF EditorBecause, LoadingMeansLoad, where
<1>6. CheckViewIsFilled'
  BY <1>1, <1>2, <1>3 DEF CheckViewIsFilled, TypeOK, UnderTheView, where
<1> QED BY <1>3, <1>4, <1>5, <1>6 DEF IInv

(* Saved and Restored: the page goes to the site of the call.              *)
LEMMA Returns == ASSUME IInv, Saved \/ Restored PROVE IInv'
<1>1. /\ TypeOK /\ ChecksOK(checks) /\ OutdatedBecause /\ CheckViewIsFilled
      /\ EditorBecause /\ LoadingMeansLoad
  BY InvChecks DEF IInv
<1> DEFINE Returning(k, view) ==
              /\ Finish(k) /\ applying[k] \in Calls
              /\ GoTo(applying[k].name, FALSE, view)
              /\ where' = where => UnderTheView(applying[k].name)
              /\ content' \in Sites \cup {"new", None} /\ saveError' \in BOOLEAN
              /\ \/ Restored /\ view = "check"
                 \/ k = "save" /\ Saved
<1>0. PICK k \in Kinds, view \in {"check", "edit"} : Returning(k, view)
  <2>1. /\ "save" \in Kinds /\ "restore" \in Kinds /\ viewMode \in {"check", "edit"}
        /\ content \in Sites \cup {"new", None} /\ saveError \in BOOLEAN
        /\ applying \in [Kinds -> Calls \cup {None}]
    BY <1>1 DEF Kinds, TypeOK
  <2>2. CASE Saved
    <3>1. /\ Finish("save") /\ GoTo(applying["save"].name, FALSE, viewMode)
          /\ where' = where => UnderTheView(applying["save"].name)
          /\ content' \in {applying["save"].name, content} /\ saveError' = saveError
      BY <2>2 DEF Saved
    <3>2. applying["save"] \in Calls
      BY <2>1, <3>1 DEF Finish
    <3>3. content' \in Sites \cup {"new", None}
      BY <2>1, <3>1, <3>2, CallFields
    <3>4. Returning("save", viewMode)
      BY <2>1, <2>2, <3>1, <3>2, <3>3
    <3> HIDE DEF Returning
    <3> QED BY <2>1, <3>4
  <2>3. CASE Restored
    <3>1. /\ Finish("restore") /\ GoTo(applying["restore"].name, FALSE, "check")
          /\ where' = where => UnderTheView(applying["restore"].name)
          /\ content' = content /\ saveError' = FALSE
      BY <2>3 DEF Restored
    <3>2. applying["restore"] \in Calls
      BY <2>1, <3>1 DEF Finish
    <3>3. Returning("restore", "check")
      BY <2>1, <2>3, <3>1, <3>2
    <3> HIDE DEF Returning
    <3> QED BY <2>1, <3>3
  <2> QED BY <2>2, <2>3
<1>2. /\ Finish(k) /\ applying[k] \in Calls
      /\ GoTo(applying[k].name, FALSE, view)
      /\ where' = where => UnderTheView(applying[k].name)
      /\ content' \in Sites \cup {"new", None} /\ saveError' \in BOOLEAN
      /\ \/ Restored /\ view = "check"
         \/ k = "save" /\ Saved
  BY <1>0
<1> HIDE DEF Returning
<1> DEFINE s == applying[k].name
<1>3. s \in Sites /\ s # None
  BY <1>2, CallFields, PageConstants
<1>4. /\ selected' = s /\ creatingNew' = FALSE /\ viewMode' = view
      /\ loading' \in [flag : BOOLEAN, call : BOOLEAN]
      /\ checkError' \in BOOLEAN
      /\ ChecksOK(checks')
      /\ \A z : Outdated(z) \in checks' <=> Outdated(z) \in checks
      /\ LoadingMeansLoad'
      /\ where' # where =>
            /\ dropped' = FALSE
            /\ s # None /\ view = "check" => \/ checkCache'[s] # None
                                             \/ \E c \in checks' : c.name = s
            /\ s # None /\ view = "edit" => loading'.flag
      /\ where' = where => loading' = loading /\ checks' = checks /\ checkError' = checkError
  <2>1. s \in Sites \cup {None} /\ FALSE \in BOOLEAN
    BY <1>3
  <2>2. GoTo(s, FALSE, view)
    BY <1>2
  <2> HIDE DEF s
  <2> QED BY <1>1, <2>1, <2>2, GoToLemma
<1>5. /\ applying' \in [Kinds -> Calls \cup {None}]
      /\ \A j \in Kinds : j # k => applying'[j] = applying[j]
      /\ checkCache' \in [Sites -> {"current", "outdated", None}]
      /\ \A z \in Sites : z # s => checkCache'[z] = checkCache[z]
      /\ unseen' \subseteq Sites
      /\ OutdatedBecause'
  BY <1>1, <1>2, <1>4, FinishLemma
<1>6. dropped' \in BOOLEAN
  BY <1>1, <1>2, <1>4 DEF TypeOK, UnderTheView
<1>7. TypeOK' /\ IsFiniteSet(checks')
  <2> HIDE DEF s
  <2> QED BY <1>1, <1>2, <1>3, <1>4, <1>5, <1>6 DEF TypeOK, ChecksOK
<1>8. EditorBecause'
  <2>1. CASE view = "check"
    BY <1>4, <2>1 DEF EditorBecause
  <2>2. CASE view = "edit" /\ where' # where
    BY <1>3, <1>4, <2>2 DEF EditorBecause
  <2>3. CASE view = "edit" /\ where' = where /\ Saved /\ k = "save"
    <3>1. /\ selected = s /\ viewMode = "edit" /\ selected' = s /\ viewMode' = "edit"
          /\ loading' = loading /\ saveError' = saveError
          /\ content' = IF selected = s /\ viewMode = "edit" /\ ~loading.call /\ content = applying["save"].text
                        THEN s ELSE content
      BY <1>4, <2>3 DEF where, Saved
    <3>2. loading.flag <=> loading.call
      BY <1>1, <1>3, <3>1 DEF LoadingMeansLoad
    <3> QED BY <1>1, <1>3, <3>1, <3>2 DEF EditorBecause
  <2> QED BY <1>2, <2>1, <2>2, <2>3
<1>9. CheckViewIsFilled'
  <2>1. CASE where' # where
    BY <1>4, <2>1 DEF CheckViewIsFilled
  <2>2. CASE where' = where
    <3>1. selected = s /\ viewMode = view
      BY <1>4, <2>2 DEF where
    <3>2. view = "check" => dropped'
      BY <1>2, <2>2, <3>1 DEF UnderTheView
    <3> QED BY <1>4, <3>2 DEF CheckViewIsFilled
  <2> QED BY <2>1, <2>2
<1> QED BY <1>4, <1>5, <1>7, <1>8, <1>9 DEF IInv

--------------------------------------------------------------------------------
LEMMA InitHolds == Init => IInv
<1> SUFFICES ASSUME Init PROVE IInv
  OBVIOUS
<1>1. IsFiniteSet(checks) /\ Cardinality(checks) = 0
  BY FS_EmptySet DEF Init
<1>2. \A k \in Kinds : applying[k] = None
  BY DEF Init
<1>3. TypeOK
  <2>1. /\ applying \in [Kinds -> Calls \cup {None}] /\ checkCache \in [Sites -> {"current", "outdated", None}]
        /\ loading \in [flag : BOOLEAN, call : BOOLEAN]
    BY DEF Init
  <2>2. checks \subseteq Check /\ Cardinality(checks) <= MaxChecks /\ unseen \subseteq Sites
    BY <1>1, PageConstants DEF Init
  <2>3. /\ selected \in Sites \cup {None} /\ content \in Sites \cup {"new", None}
        /\ creatingNew \in BOOLEAN /\ (creatingNew => selected = None) /\ viewMode \in {"check", "edit"}
        /\ saveError \in BOOLEAN /\ checkError \in BOOLEAN /\ dropped \in BOOLEAN
    BY DEF Init
  <2> QED BY <2>1, <2>2, <2>3 DEF TypeOK
<1>4. EditorBecause /\ LoadingMeansLoad /\ CheckViewIsFilled
  BY DEF Init, EditorBecause, LoadingMeansLoad, CheckViewIsFilled
<1>5. OutdatedBecause
  BY PageConstants DEF Init, OutdatedBecause
<1> QED BY <1>1, <1>3, <1>4, <1>5 DEF IInv

LEMMA StepHolds == IInv /\ [Next]_vars => IInv'
<1> SUFFICES ASSUME IInv, [Next]_vars PROVE IInv'
  OBVIOUS
<1>1. CASE \/ \E s \in Sites : selectSite(s)
           \/ \E v \in {"check", "edit"} : setViewMode(v)
           \/ cancelEditConfig \/ startNew \/ cancelCreateNew
  BY <1>1, Moves
<1>2. CASE Loaded \/ LoadFails
  BY <1>2, Loads
<1>3. CASE recheck \/ \E c \in checks : Checked(c) \/ CheckFails(c)
  BY <1>3, Checks
<1>4. CASE (\E s \in Sites : handleSave(s) \/ handleRestoreBackup(s)) \/ certbotIssue
  BY <1>4, Sends
<1>5. CASE (\E k \in Kinds : Apply(k)) \/ (\E s \in Sites : OtherChange(s))
  BY <1>5, Changes
<1>6. CASE \E k \in Kinds : ApplyFails(k)
  BY <1>6, Failures
<1>7. CASE Saved \/ Restored
  BY <1>7, Returns
<1>8. CASE Issued
  BY <1>8, Certificate
<1>9. CASE UNCHANGED vars
  BY <1>9 DEF IInv, TypeOK, EditorBecause, LoadingMeansLoad, OutdatedBecause, CheckViewIsFilled,
              Awaited, vars, where
<1> QED BY <1>1, <1>2, <1>3, <1>4, <1>5, <1>6, <1>7, <1>8, <1>9 DEF Next

(* The inductive invariant: every state the page and the server reach has  *)
(* a reason for what the editor, the cache and the check view show.        *)
THEOREM InvariantHolds == Spec => []IInv
<1>1. Init => IInv
  BY InitHolds
<1>2. IInv /\ [Next]_vars => IInv'
  BY StepHolds
<1> QED BY <1>1, <1>2, PTL DEF Spec

(* The page's state (Nginx.jsx:243-278) keeps its types; no site is        *)
(* selected while a new one is made.                                       *)
THEOREM TypeCorrect == Spec => []TypeOK
<1>1. IInv => TypeOK
  BY DEF IInv
<1> QED BY <1>1, InvariantHolds, PTL

(* The text in the editor was loaded from the site that Save would write   *)
(* it to, unless an error is shown or a save is under way                  *)
(* (Nginx.jsx:318-332, 404-407).                                           *)
THEOREM EditorIsOfTheSite == Spec => []EditorHoldsTheSite
<1>1. IInv => EditorHoldsTheSite
  BY DEF IInv, EditorBecause, EditorHoldsTheSite
<1> QED BY <1>1, InvariantHolds, PTL

(* A site that is edited shows "Loading" as long as its load is under way  *)
(* (Nginx.jsx:318-332).                                                    *)
THEOREM LoadingIsTrue == Spec => []LoadingMeansLoad
<1>1. IInv => LoadingMeansLoad
  BY DEF IInv
<1> QED BY <1>1, InvariantHolds, PTL

(* An outdated check is in the cache only for a change the page has not    *)
(* learnt of or is about to (Nginx.jsx:292-301, 373-378).                  *)
THEOREM CacheIsCurrent == Spec => []CachedCheckIsCurrent
<1>1. IInv => CachedCheckIsCurrent
  BY DEF IInv, OutdatedBecause, CachedCheckIsCurrent, Awaited
<1> QED BY <1>1, InvariantHolds, PTL

(* The check view shows a result, a check under way, an error to retry, or *)
(* it is the one gap the property names (Nginx.jsx:309-316).               *)
THEOREM ViewIsFilled == Spec => []CheckViewIsFilled
<1>1. IInv => CheckViewIsFilled
  BY DEF IInv
<1> QED BY <1>1, InvariantHolds, PTL
================================================================================
