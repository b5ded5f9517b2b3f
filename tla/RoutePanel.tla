------------------------------- MODULE RoutePanel ------------------------------
(***************************************************************************)
(* The route configurator of the NGINX page (RouteConfiguratorPanel.jsx):  *)
(* a form that validates a candidate, creates the route and deploys it, on *)
(* top of RouteDeploy.  Each of the three calls may be under way while the *)
(* form changes; the site editor can replace the whole form at any time.   *)
(***************************************************************************)
EXTENDS RouteDeploy

VARIABLES
    hostname,       \* the hostname in the form
    validation,     \* the last answer of /validate
    validating,     \* the call to /validate under way
    route,          \* the id of the route created here
    creating,       \* the call that creates it
    deploying,      \* the call that deploys it
    deployResult,   \* its answer
    renamed         \* history: the hostname changed while a suggested file name
                    \*   was shown or asked for

panelVars == <<hostname, validation, validating, route, creating, deploying, deployResult, renamed>>
vars == <<deployVars, panelVars>>

Suggestion == [file : Names, duplicate : BOOLEAN]

TypeOK ==
    /\ DeployTypeOK
    /\ hostname \in Hosts \cup {None}
    /\ validation \in Suggestion \cup {None}
    /\ validating \in [host : Hosts, file : Names \cup {None}] \cup {None}
    /\ route \in Ids \cup {None}
    /\ creating \in [host : Hosts, file : Names] \cup {None}
    /\ deploying \in [id : Ids, abandoned : BOOLEAN] \cup {None}
    /\ deployResult \in [id : Ids, abandoned : BOOLEAN] \cup {None}
    /\ renamed \in BOOLEAN

Init ==
    /\ DeployInit
    /\ hostname = None
    /\ validation = None /\ validating = None
    /\ route = None /\ creating = None
    /\ deploying = None /\ deployResult = None
    /\ renamed = FALSE

--------------------------------------------------------------------------------
(* The input fields; only the hostname matters to what follows.            *)
EditForm(h) ==
    /\ h # hostname
    /\ hostname' = h
    /\ renamed' = (renamed \/ validation # None \/ validating # None)
    /\ UNCHANGED <<deployVars, validation, validating, route, creating, deploying, deployResult>>

(* "Test in Route Configurator" of the site editor: everything is reset    *)
(* but the calls under way.                                                *)
PrefillKeepsSuggestion(h) ==
    /\ hostname' = h
    /\ route' = None /\ deployResult' = None
    /\ deploying' = IF deploying = None THEN None ELSE [deploying EXCEPT !.abandoned = TRUE]
    /\ renamed' = (renamed \/ validating # None)
    /\ UNCHANGED <<deployVars, validation, validating, creating>>

Prefill(h) ==
    /\ hostname' = h
    /\ validation' = None /\ route' = None /\ deployResult' = None
    /\ deploying' = IF deploying = None THEN None ELSE [deploying EXCEPT !.abandoned = TRUE]
    /\ renamed' = (renamed \/ validating # None)
    /\ UNCHANGED <<deployVars, validating, creating>>

(* handleValidate: a name suggested before is sent along, and kept.        *)
handleValidate ==
    /\ validating = None /\ hostname # None
    /\ validating' = [host |-> hostname,
                      file |-> IF validation = None THEN None ELSE validation.file]
    /\ UNCHANGED <<deployVars, hostname, validation, route, creating, deploying, deployResult, renamed>>

(* checkDuplicateHostname knows the hosts of all rows and site files, and  *)
(* reports no duplicate if a probe of the files fails.                     *)
KnownHosts ==
    {routes[id].host : id \in Existing} \cup {site[n].host : n \in {m \in Names : site[m] # None}}

Suggest(host, file, known) ==
    LET name == IF file = None THEN FileOf[host] ELSE file
    IN  [file |-> name,
         duplicate |-> host \in known \/ \E id \in Existing : routes[id].file = name]

(* The call settles, with the answer or with an error.                     *)
Validated ==
    /\ validating # None
    /\ \/ \E known \in {KnownHosts, {}} :
             validation' = Suggest(validating.host, validating.file, known)
       \/ UNCHANGED validation
    /\ validating' = None
    /\ UNCHANGED <<deployVars, hostname, route, creating, deploying, deployResult, renamed>>

(* handleCreate: the hostname of the form, the file name of the last       *)
(* validation                                                              *)
handleCreate ==
    /\ route = None /\ creating = None /\ hostname # None
    /\ validation # None /\ ~validation.duplicate
    /\ creating' = [host |-> hostname, file |-> validation.file]
    /\ UNCHANGED <<deployVars, hostname, validation, validating, route, deploying, deployResult, renamed>>

(* The call settles: 409, the new row, or an error that says nothing about *)
(* the row.                                                                *)
Created ==
    /\ creating # None
    /\ \/ /\ ~Taken(creating.host, creating.file)
          /\ createRoute(creating.host, creating.file)
          /\ route' \in {route, created + 1}
       \/ UNCHANGED <<routes, created, route>>
    /\ creating' = None
    /\ UNCHANGED <<site, certs, queue, step, reply, doubt>>
    /\ UNCHANGED <<hostname, validation, validating, deploying, deployResult, renamed>>

handleDeploy(tls) ==
    /\ route # None /\ deploying = None
    /\ deploying' = [id |-> route, abandoned |-> FALSE]
    /\ \/ /\ EnqueueDeploy(route, tls)
          /\ UNCHANGED reply
       \/ /\ route \notin Existing      \* 404
          /\ reply' = "error"
          /\ UNCHANGED queue
    /\ UNCHANGED <<routes, created, site, certs, step, doubt>>
    /\ UNCHANGED <<hostname, validation, validating, route, creating, deployResult, renamed>>

(* An error leaves the result of the deployment before.                    *)
Deployed ==
    /\ reply # None
    /\ deployResult' = IF reply = "error" THEN deployResult ELSE deploying
    /\ deploying' = None
    /\ reply' = None
    /\ UNCHANGED <<routes, created, site, certs, queue, step, doubt>>
    /\ UNCHANGED <<hostname, validation, validating, route, creating, renamed>>

PanelNext ==
    \/ \E h \in Hosts : EditForm(h) \/ Prefill(h)
    \/ handleValidate
    \/ Validated
    \/ handleCreate
    \/ Created
    \/ \E tls \in BOOLEAN : handleDeploy(tls)
    \/ Deployed

Next == PanelNext \/ (DeployNext /\ UNCHANGED panelVars)

Spec == Init /\ [][Next]_vars

--------------------------------------------------------------------------------
(* The result shown under a route is of that route, unless the form was    *)
(* replaced while the deployment of another one was under way: the reset   *)
(* that a new prefill is there for (RouteConfiguratorPanel.jsx:44-47).     *)
ResultIsOfTheRoute ==
    route # None /\ deployResult # None /\ deployResult.id # route => deployResult.abandoned

(* A route's file is named after its host, unless the hostname was changed *)
(* beside a suggestion that was shown or asked for: the suggestion is sent *)
(* back with every later call (RouteConfiguratorPanel.jsx:73, 95).         *)
NamesFollowHosts ==
    renamed \/ \A id \in Existing : routes[id].file = FileOf[routes[id].host]
================================================================================
