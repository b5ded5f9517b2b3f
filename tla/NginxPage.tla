------------------------------- MODULE NginxPage -------------------------------
(***************************************************************************)
(* The site explorer of the NGINX page (Nginx.jsx): an editor, a check     *)
(* view with a cache, and three ways to change a site (save, restore a     *)
(* backup, issue a certificate), over a server that others use as well.    *)
(*                                                                         *)
(* The page's two effects run when the site, the view or the new-site mode *)
(* changes, and only then; every answer can arrive after the page has      *)
(* moved on.  Of a text, only the site it was loaded from is kept; of a    *)
(* check, only whether the site has changed since.  The tab and the flag   *)
(* `checking` hide and grey out buttons and are left out.                  *)
(***************************************************************************)
EXTENDS FiniteSets, Naturals

CONSTANTS
    Sites,
    MaxChecks,      \* bound: checks under way
    None

(* A mutating call; written: the site has changed, the answer is to come.  *)
Calls == [name : Sites, text : Sites \cup {"new", None}, written : BOOLEAN]

ASSUME PageConstants ==
    /\ None \notin Sites \cup Calls \cup {"current", "outdated", "new"}
    /\ MaxChecks \in Nat

VARIABLES
    selected,       \* selectedName
    creatingNew,
    viewMode,
    content,        \* the site the text in the editor was loaded from, "new" for
                    \*   a template or an upload, None for the empty text
    loading,        \* [flag, call]: loadingContent, and a load not cancelled
    saveError,      \* an error is shown in the editor
    applying,       \* applying[k]: the mutating call of this kind under way
    checkCache,     \* is the cached check of a site current or outdated
    checks,         \* checks under way, with what they have seen
    checkError,
    unseen,         \* history: sites that changed without the page learning of it
                    \*   in time to drop an older check
    dropped         \* history: an answer dropped the cached check under the view

vars == <<selected, creatingNew, viewMode, content, loading, saveError, applying,
          checkCache, checks, checkError, unseen, dropped>>

where == <<selected, creatingNew, viewMode>>
Kinds == {"save", "restore", "issue"}
Check == [name : Sites, seen : {"current", "outdated"}]

TypeOK ==
    /\ selected \in Sites \cup {None}
    /\ creatingNew \in BOOLEAN /\ (creatingNew => selected = None)
    /\ viewMode \in {"check", "edit"}
    /\ content \in Sites \cup {"new", None}
    /\ loading \in [flag : BOOLEAN, call : BOOLEAN]
    /\ saveError \in BOOLEAN
    /\ applying \in [Kinds -> Calls \cup {None}]
    /\ checkCache \in [Sites -> {"current", "outdated", None}]
    /\ checks \subseteq Check /\ Cardinality(checks) <= MaxChecks
    /\ checkError \in BOOLEAN
    /\ unseen \subseteq Sites
    /\ dropped \in BOOLEAN

Init ==
    /\ selected = None /\ creatingNew = FALSE /\ viewMode = "check"
    /\ content = None
    /\ loading = [flag |-> FALSE, call |-> FALSE]
    /\ saveError = FALSE
    /\ applying = [k \in Kinds |-> None]
    /\ checkCache = [s \in Sites |-> None]
    /\ checks = {} /\ checkError = FALSE
    /\ unseen = {} /\ dropped = FALSE

--------------------------------------------------------------------------------
(* runCheck, from where it calls the server                                *)
StartCheck(s) ==
    /\ Cardinality(checks) < MaxChecks
    /\ checks' = checks \cup {[name |-> s, seen |-> "current"]}
    /\ checkError' = FALSE

(* The effect of the check view: a cached result is used again, unless it  *)
(* is too old.                                                             *)
CheckEffectOfTheSiteOnly ==
    \/ /\ selected' # None /\ selected' # selected /\ viewMode' = "check"
       /\ StartCheck(selected')
    \/ /\ ~(selected' # None /\ selected' # selected /\ viewMode' = "check" /\ checkCache'[selected'] = None)
       /\ UNCHANGED <<checks, checkError>>

CheckEffect ==
    \/ /\ selected' # None /\ viewMode' = "check"
       /\ StartCheck(selected')
    \/ /\ ~(selected' # None /\ viewMode' = "check" /\ checkCache'[selected'] = None)
       /\ UNCHANGED <<checks, checkError>>

(* The effect of the editor: leaving cancels the load under way without    *)
(* clearing the flag.                                                      *)
LoadEffectKeepsTheFlag ==
    loading' = [flag |-> loading.flag, call |-> selected' # None /\ viewMode' = "edit"]

LoadEffect ==
    loading' = IF selected' # None /\ viewMode' = "edit" THEN [flag |-> TRUE, call |-> TRUE]
                                                         ELSE [loading EXCEPT !.call = FALSE]

GoTo(s, new, view) ==
    /\ selected' = s /\ creatingNew' = new /\ viewMode' = view
    /\ IF where' # where
       THEN CheckEffect /\ LoadEffect /\ dropped' = FALSE
       ELSE UNCHANGED <<loading, checks, checkError>>

(* The dialog of the certificate button covers the page.                   *)
Free == applying["issue"] = None

selectSite(s) ==
    /\ Free
    /\ saveError' = FALSE
    /\ UNCHANGED <<content, applying, checkCache, unseen>>
    /\ GoTo(s, FALSE, "check")
    /\ (where' = where => UNCHANGED dropped)

setViewMode(v) ==
    /\ Free /\ selected # None /\ v # viewMode
    /\ UNCHANGED <<content, saveError, applying, checkCache, unseen>>
    /\ GoTo(selected, FALSE, v)

cancelEditConfig ==
    /\ Free /\ selected # None /\ viewMode = "edit"
    /\ applying["save"] = None
    /\ saveError' = FALSE
    /\ UNCHANGED <<content, applying, checkCache, unseen>>
    /\ GoTo(selected, FALSE, "check")

(* startNew, and handleFileSelected once the file is read                  *)
startNew ==
    /\ Free
    /\ content' = "new" /\ saveError' = FALSE
    /\ UNCHANGED <<applying, checkCache, unseen>>
    /\ GoTo(None, TRUE, viewMode)
    /\ (where' = where => UNCHANGED dropped)

cancelCreateNew ==
    /\ Free /\ creatingNew
    /\ applying["save"] = None
    /\ content' = None /\ saveError' = FALSE
    /\ UNCHANGED <<applying, checkCache, unseen>>
    /\ GoTo(None, FALSE, viewMode)

Loaded ==
    /\ loading.call
    /\ content' = selected
    /\ loading' = [flag |-> FALSE, call |-> FALSE]
    /\ UNCHANGED <<where, saveError, applying, checkCache, checks, checkError, unseen, dropped>>

LoadFailsSilently ==
    /\ loading.call
    /\ loading' = [flag |-> FALSE, call |-> FALSE]
    /\ UNCHANGED <<where, content, saveError, applying, checkCache, checks, checkError, unseen, dropped>>

LoadFails ==
    /\ loading.call
    /\ saveError' = TRUE
    /\ loading' = [flag |-> FALSE, call |-> FALSE]
    /\ UNCHANGED <<where, content, applying, checkCache, checks, checkError, unseen, dropped>>

--------------------------------------------------------------------------------
recheck ==
    /\ Free /\ selected # None /\ viewMode = "check"
    /\ checkCache[selected] # None \/ checkError
    /\ StartCheck(selected)
    /\ UNCHANGED <<where, content, loading, saveError, applying, checkCache, unseen, dropped>>

Outdated(s) == [name |-> s, seen |-> "outdated"]

Checked(c) ==
    /\ c \in checks
    /\ checks' = checks \ {c}
    /\ checkCache' = [checkCache EXCEPT ![c.name] = c.seen]
    /\ unseen' = IF c.seen = "current" /\ Outdated(c.name) \notin checks
                 THEN unseen \ {c.name} ELSE unseen
    /\ dropped' = (dropped /\ c.name # selected)
    /\ UNCHANGED <<where, content, loading, saveError, applying, checkError>>

(* One error for all sites: it shows under whatever site is selected.      *)
CheckFails(c) ==
    /\ c \in checks
    /\ checks' = checks \ {c}
    /\ checkError' = TRUE
    /\ UNCHANGED <<where, content, loading, saveError, applying, checkCache, unseen, dropped>>

--------------------------------------------------------------------------------
Send(k, s, text) ==
    /\ Free /\ applying[k] = None
    /\ applying' = [applying EXCEPT ![k] = [name |-> s, text |-> text, written |-> FALSE]]

(* A new site has the name that was typed, which an existing one may have. *)
handleSave(s) ==
    /\ creatingNew \/ (s = selected /\ viewMode = "edit")
    /\ ~loading.flag
    /\ Send("save", s, content)
    /\ saveError' = FALSE
    /\ UNCHANGED <<where, content, loading, checkCache, checks, checkError, unseen, dropped>>

handleRestoreBackup(s) ==
    /\ Send("restore", s, None)
    /\ UNCHANGED <<where, content, loading, saveError, checkCache, checks, checkError, unseen, dropped>>

certbotIssue ==
    /\ selected # None
    /\ Send("issue", selected, None)
    /\ UNCHANGED <<where, content, loading, saveError, checkCache, checks, checkError, unseen, dropped>>

(* The site changes on the server: what was seen of it before is outdated. *)
Change(s) ==
    /\ checkCache' = [checkCache EXCEPT ![s] = IF @ = None THEN None ELSE "outdated"]
    /\ checks' = {c \in checks : c.name # s}
                 \cup {Outdated(s) : c \in {d \in checks : d.name = s}}

(* setSiteRaw refuses an empty text.                                       *)
Apply(k) ==
    /\ applying[k] # None /\ ~applying[k].written
    /\ k = "save" => applying[k].text # None
    /\ applying' = [applying EXCEPT ![k].written = TRUE]
    /\ Change(applying[k].name)
    /\ UNCHANGED <<where, content, loading, saveError, checkError, unseen, dropped>>

(* An error may come from a helper that has changed the site.              *)
ApplyFails(k) ==
    /\ applying[k] # None
    /\ applying' = [applying EXCEPT ![k] = None]
    /\ saveError' = (saveError \/ k = "save")
    /\ unseen' = IF applying[k].written THEN unseen \cup {applying[k].name} ELSE unseen
    /\ UNCHANGED <<where, content, loading, checkCache, checks, checkError, dropped>>

(* The deploy panel, the Disable button and other clients: the page does   *)
(* not drop its check.                                                     *)
OtherChange(s) ==
    /\ Change(s)
    /\ unseen' = unseen \cup {s}
    /\ UNCHANGED <<where, content, loading, saveError, applying, checkError, dropped>>

(* The cached check of the site is dropped; one that is under way and saw  *)
(* the site as it was will be cached nevertheless.                         *)
DropCheckForgotten(s) == UNCHANGED <<checkCache, unseen>>

DropCheck(s) ==
    /\ checkCache' = [checkCache EXCEPT ![s] = None]
    /\ unseen' = IF Outdated(s) \in checks THEN unseen \cup {s} ELSE unseen \ {s}

Finish(k) ==
    /\ applying[k] # None /\ applying[k].written
    /\ applying' = [applying EXCEPT ![k] = None]
    /\ DropCheck(applying[k].name)

UnderTheView(s) == dropped' = (dropped \/ (selected = s /\ viewMode = "check"))

(* The page goes back to the saved site, whatever it shows by now.         *)
Saved ==
    LET call == applying["save"] IN
    /\ Finish("save")
    /\ GoTo(call.name, FALSE, viewMode)
    /\ (where' = where => UnderTheView(call.name))
    /\ content' = IF selected = call.name /\ viewMode = "edit" /\ ~loading.call /\ content = call.text
                  THEN call.name ELSE content
    /\ UNCHANGED saveError

Restored ==
    LET call == applying["restore"] IN
    /\ Finish("restore")
    /\ GoTo(call.name, FALSE, "check")
    /\ (where' = where => UnderTheView(call.name))
    /\ saveError' = FALSE
    /\ UNCHANGED content

Issued ==
    /\ Finish("issue")
    /\ UnderTheView(applying["issue"].name)
    /\ UNCHANGED <<where, content, loading, saveError, checks, checkError>>

Next ==
    \/ \E s \in Sites : selectSite(s) \/ handleSave(s) \/ handleRestoreBackup(s) \/ OtherChange(s)
    \/ \E v \in {"check", "edit"} : setViewMode(v)
    \/ cancelEditConfig
    \/ startNew
    \/ cancelCreateNew
    \/ Loaded
    \/ LoadFails
    \/ recheck
    \/ \E c \in checks : Checked(c) \/ CheckFails(c)
    \/ certbotIssue
    \/ \E k \in Kinds : Apply(k) \/ ApplyFails(k)
    \/ Saved
    \/ Restored
    \/ Issued

Spec == Init /\ [][Next]_vars

--------------------------------------------------------------------------------
(* What Save would write to an existing site was loaded from that site,    *)
(* unless the page shows an error or is saving right now ("the in-progress *)
(* buffer is never reused stale", Nginx.jsx:404-407).                      *)
EditorHoldsTheSite ==
    selected # None /\ viewMode = "edit" /\ ~loading.flag
    => content = selected \/ saveError \/ applying["save"] # None

(* While a site is edited, "Loading" is shown exactly as long as its load  *)
(* is under way; a load that was cancelled can leave the flag set only for *)
(* the other views (Nginx.jsx:318-332).                                    *)
LoadingMeansLoad ==
    selected # None /\ viewMode = "edit" => (loading.flag <=> loading.call)

(* A cached check is of the site as it is, unless the site changed without *)
(* the page learning of it, a check was overtaken by a change it had       *)
(* not seen, or the answer to the change is still to come ("Invalidate any *)
(* cached check for this site", Nginx.jsx:373-378).                        *)
CachedCheckIsCurrent ==
    \A s \in Sites : checkCache[s] = "outdated"
        => \/ s \in unseen
           \/ \E k \in Kinds : applying[k] # None /\ applying[k].name = s /\ applying[k].written

(* Whoever lands on the check view gets a check ("Auto-runs whenever the   *)
(* user lands on the check view", Nginx.jsx:309-311): a result, a check    *)
(* under way or an error with a retry button, unless the answer to a       *)
(* change dropped the result under the view, where no effect runs again.   *)
CheckViewIsFilled ==
    selected # None /\ viewMode = "check"
    => \/ checkCache[selected] # None
       \/ \E c \in checks : c.name = selected
       \/ checkError
       \/ dropped
================================================================================
