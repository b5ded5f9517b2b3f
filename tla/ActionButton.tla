------------------------------ MODULE ActionButton -----------------------------
(***************************************************************************)
(* The button that triggers every mutating action of the console: a click  *)
(* fetches a plan, a dialog shows it, a confirmation applies it            *)
(* (ActionButton.jsx, ConfirmDialog.jsx).  No call is cancelled by closing *)
(* the dialog, and a click does not clear the plan shown before; when the  *)
(* page takes the button away its apply goes on, beside those of the next. *)
(* A request stands for the parameters, which a plan is of.                *)
(***************************************************************************)
EXTENDS FiniteSets, Naturals

CONSTANTS
    Requests,
    Callbacks,      \* what onApplied has of the page it was rendered on
    Applies,        \* bound: calls of apply under way
    MaxStray,       \* bound: calls under way that no dialog waits for
    None

Calls == [request : Requests, then : Callbacks, is : {"sent", "done", "unheard"}]

ASSUME ButtonConstants ==
    /\ None \notin Requests \cup Applies
    /\ None \notin Calls /\ None \in Callbacks
    /\ MaxStray \in Nat

VARIABLES
    open,
    preview,        \* the request of the plan in the dialog
    loadingPlan,
    plan,           \* the call for the plan of the open dialog
    stray,          \* calls for plans of dialogs closed since
    applying,       \* the apply that the open dialog waits for
    calls,          \* calls[c]: its request and whether it is sent, done, or
                    \*   given up but still on its way to the server
    clicked,        \* history: the request of the last click
    strayed         \* history: the plan shown, or confirmed, is of a dialog
                    \*   closed before

buttonVars == <<open, preview, loadingPlan, plan, stray, applying, calls, clicked, strayed>>

ButtonTypeOK ==
    /\ open \in BOOLEAN /\ loadingPlan \in BOOLEAN /\ strayed \in BOOLEAN
    /\ preview \in Requests \cup {None}
    /\ plan \in Requests \cup {None}
    /\ stray \subseteq Requests
    /\ applying \in Applies \cup {None}
    /\ calls \in [Applies -> Calls \cup {None}]
    /\ clicked \in Requests \cup {None}

ButtonInit ==
    /\ open = FALSE /\ preview = None /\ loadingPlan = FALSE
    /\ plan = None /\ stray = {}
    /\ applying = None /\ calls = [c \in Applies |-> None]
    /\ clicked = None /\ strayed = FALSE

handleClick(r) ==
    /\ ~open
    /\ open' = TRUE /\ loadingPlan' = TRUE
    /\ plan' = r
    /\ clicked' = r
    /\ UNCHANGED <<preview, stray, applying, calls, strayed>>

(* The plan is shown with the parameters it was made for.                  *)
Planned ==
    /\ plan # None
    /\ preview' = plan /\ plan' = None
    /\ loadingPlan' = FALSE
    /\ strayed' = (strayed /\ applying # None)
    /\ UNCHANGED <<open, stray, applying, calls, clicked>>

(* ... also in the dialog of another click, or before there is one.        *)
StrayPlanned(r) ==
    /\ r \in stray
    /\ preview' = r /\ stray' = stray \ {r}
    /\ loadingPlan' = FALSE /\ strayed' = TRUE
    /\ UNCHANGED <<open, plan, applying, calls, clicked>>

PlanFails ==
    /\ \/ plan # None /\ plan' = None /\ UNCHANGED stray
       \/ \E r \in stray : stray' = stray \ {r} /\ UNCHANGED plan
    /\ loadingPlan' = FALSE
    /\ UNCHANGED <<open, preview, applying, calls, clicked, strayed>>

OneMore == Cardinality(stray) + Cardinality({c \in Applies \ {applying} : calls[c] # None}) < MaxStray

(* A closed dialog; the call for its plan goes on.                         *)
CloseKeepsPlan ==
    /\ open' = FALSE
    /\ plan' = None /\ stray' = stray \cup ({plan} \ {None})
    /\ applying' = None
    /\ clicked' = None /\ strayed' = FALSE
    /\ UNCHANGED <<preview, loadingPlan>>

Close ==
    /\ open' = FALSE /\ preview' = None
    /\ plan' = None /\ stray' = stray \cup ({plan} \ {None})
    /\ applying' = None
    /\ clicked' = None /\ strayed' = FALSE
    /\ UNCHANGED loadingPlan

onCancel ==
    /\ open /\ applying = None
    /\ plan = None \/ OneMore
    /\ Close
    /\ UNCHANGED calls

handleConfirm(then) ==
    /\ open /\ applying = None
    /\ ~loadingPlan /\ preview # None
    /\ \E c \in Applies :
          /\ calls[c] = None
          /\ applying' = c
          /\ calls' = [calls EXCEPT ![c] = [request |-> preview, then |-> then, is |-> "sent"]]
    /\ UNCHANGED <<open, preview, loadingPlan, plan, stray, clicked, strayed>>

(* The server answers a request whether or not somebody waits for it.      *)
Served(c) ==
    /\ calls[c] # None /\ calls[c].is # "done"
    /\ calls' = [calls EXCEPT ![c] = IF calls[c].is = "sent" THEN [calls[c] EXCEPT !.is = "done"] ELSE None]
    /\ UNCHANGED <<open, preview, loadingPlan, plan, stray, applying, clicked, strayed>>

(* The page no longer renders the button: its plans lead nowhere, but an   *)
(* apply under way goes on.                                                *)
Leave ==
    /\ open' = FALSE /\ preview' = None /\ loadingPlan' = FALSE
    /\ plan' = None /\ stray' = {}
    /\ applying' = None
    /\ clicked' = None /\ strayed' = FALSE

Unmount == Leave /\ UNCHANGED calls

(* onApplied is called also when the button is gone, and may take it away. *)
Applied(c, leaves) ==
    /\ calls[c] # None /\ calls[c].is = "done"
    /\ calls' = [calls EXCEPT ![c] = None]
    /\ \/ leaves /\ Leave
       \/ ~leaves /\ c = applying /\ Close
       \/ /\ ~leaves /\ c # applying
          /\ UNCHANGED <<open, preview, loadingPlan, plan, stray, applying, clicked, strayed>>

(* The server refuses, or request or answer are lost, or the request is    *)
(* given up and may yet be served; the dialog stays, to be confirmed again. *)
ApplyFails(c) ==
    /\ calls[c] # None /\ calls[c].is # "unheard"
    /\ \/ calls' = [calls EXCEPT ![c] = None]
       \/ /\ calls[c].is = "sent" /\ (c = applying => OneMore)
          /\ calls' = [calls EXCEPT ![c] = [calls[c] EXCEPT !.is = "unheard", !.then = None]]
    /\ applying' = IF c = applying THEN None ELSE applying
    /\ UNCHANGED <<open, preview, loadingPlan, plan, stray, clicked, strayed>>

ButtonNext ==
    \/ Planned
    \/ \E r \in stray : StrayPlanned(r)
    \/ PlanFails
    \/ onCancel
    \/ \E c \in Applies : ApplyFails(c)

--------------------------------------------------------------------------------
(* What is applied is what the last click asked for, "only on explicit     *)
(* confirm" (ActionButton.jsx:6-10), unless the plan in the dialog is of a *)
(* click whose dialog was closed.                                          *)
ConfirmedIsClicked ==
    applying # None => calls[applying].request = clicked \/ strayed
================================================================================
