------------------------------ MODULE RouteDeploy ------------------------------
(***************************************************************************)
(* Guided NGINX routes in the backend: rows of nginx_routes, and their     *)
(* deployment in up to three steps (HTTP site, certificate, HTTPS site)    *)
(* as one task of the apply queue (routes/nginxRoutesApi.js,               *)
(* db/nginxRoutes.js, services/nginxRouteDeployer.js).                     *)
(*                                                                         *)
(* A site file is what the NGINX helper leaves: replaced as a whole or     *)
(* left alone (see NginxSites).  Of a generated configuration only the     *)
(* hostname and whether it is an HTTPS one are kept.                       *)
(***************************************************************************)
EXTENDS Naturals, Sequences

CONSTANTS
    Hosts,          \* public hostnames
    Names,          \* names of site files
    FileOf,         \* generateConfigFileName
    MaxRoutes,      \* bound: rows created
    MaxQueue,       \* bound: deployments waiting or running
    None

ASSUME RouteConstants ==
    /\ FileOf \in [Hosts -> Names]
    /\ MaxRoutes \in Nat /\ MaxQueue \in Nat
    /\ None \notin Hosts \cup Names \cup Nat

VARIABLES
    routes,     \* routes[id]: the row, None before its creation and after its deletion
    created,    \* rows created so far: AUTOINCREMENT never reuses an id
    site,       \* site[n]: what NGINX serves from the file n, None for nothing
    certs,      \* hosts with certificate files on the disk
    queue,      \* deployments, the first one running or about to
    step,       \* what the running deployment does next, "begin" if none has begun
    reply,      \* the answer on its way to the panel: the steps or an error
    doubt       \* history: files that something else than a whole deployment
                \*   of an existing route has touched last

deployVars == <<routes, created, site, certs, queue, step, reply, doubt>>

Ids == 1 .. MaxRoutes
Rows == [host : Hosts, file : Names, cert : {"none", "error", "valid"}, enabled : BOOLEAN]
Served == [host : Hosts, tls : BOOLEAN]
Deployments == [id : Ids, host : Hosts, file : Names, tls : BOOLEAN]

ASSUME NoneIsNothing == None \notin Rows \cup Served

DeployTypeOK ==
    /\ routes \in [Ids -> Rows \cup {None}]
    /\ created \in 0 .. MaxRoutes
    /\ site \in [Names -> Served \cup {None}]
    /\ certs \subseteq Hosts
    /\ queue \in Seq(Deployments) /\ Len(queue) <= MaxQueue
    /\ step \in {"begin", "certificate", "https", "record"}
    /\ reply \in {"steps", "error", None}
    /\ doubt \subseteq Names

Existing == {id \in Ids : routes[id] # None}
Current == Head(queue)

DeployInit ==
    /\ routes = [id \in Ids |-> None]
    /\ created = 0
    /\ site = [n \in Names |-> None]
    /\ certs = {}
    /\ queue = <<>>
    /\ step = "begin"
    /\ reply = None
    /\ doubt = {}

--------------------------------------------------------------------------------
(* POST /api/nginx-routes                                                  *)
TakenIgnoringFiles(host, file) == \E id \in Existing : routes[id].host = host

Taken(host, file) == \E id \in Existing : routes[id].host = host \/ routes[id].file = file

createRoute(host, file) ==
    /\ created < MaxRoutes
    /\ created' = created + 1
    /\ routes' = [routes EXCEPT ![created + 1] =
                    [host |-> host, file |-> file, cert |-> "none", enabled |-> FALSE]]

(* DELETE /:id: the row only                                               *)
Delete(id) ==
    /\ id \in Existing
    /\ routes' = [routes EXCEPT ![id] = None]
    /\ UNCHANGED <<created, site, certs, queue, step, reply, doubt>>

(* POST /:id/deploy: the row is read here, and used whenever its turn      *)
(* comes.                                                                  *)
EnqueueDeploy(id, tls) ==
    /\ id \in Existing
    /\ Len(queue) < MaxQueue
    /\ queue' = Append(queue, [id |-> id, host |-> routes[id].host, file |-> routes[id].file,
                               tls |-> tls])

--------------------------------------------------------------------------------
updateRoute(id, cert) ==
    IF routes[id] = None THEN routes
    ELSE [routes EXCEPT ![id].cert = cert, ![id].enabled = TRUE]

(* The end of deployRoute and the rest of the handler, in one turn of Node *)
Answer ==
    /\ queue' = Tail(queue)
    /\ step' = "begin"
    /\ reply' = "steps"

Whole == IF Current.id \in Existing THEN doubt \ {Current.file} ELSE doubt \cup {Current.file}

WriteHttp ==
    /\ queue # <<>> /\ step = "begin"
    /\ site' = [site EXCEPT ![Current.file] = [host |-> Current.host, tls |-> FALSE]]
    /\ step' = IF Current.tls THEN "certificate" ELSE "record"
    /\ UNCHANGED <<routes, created, certs, queue, reply, doubt>>

(* setSiteRaw fails: the helper has rolled back, or the reload or the read  *)
(* back failed after the file was kept.  The row is not touched.           *)
WriteHttpFails ==
    /\ queue # <<>> /\ step = "begin"
    /\ site' \in {site, [site EXCEPT ![Current.file] = [host |-> Current.host, tls |-> FALSE]]}
    /\ doubt' = IF site' = site THEN doubt ELSE Whole
    /\ Answer
    /\ UNCHANGED <<routes, created, certs>>

IssueCertificate ==
    /\ step = "certificate"
    /\ certs' = certs \cup {Current.host}
    /\ step' = "https"
    /\ UNCHANGED <<routes, created, site, queue, reply, doubt>>

(* certbot fails, or its time limit passes after it issued the certificate *)
CertificateFails ==
    /\ step = "certificate"
    /\ certs' \in {certs, certs \cup {Current.host}}
    /\ routes' = updateRoute(Current.id, "error")
    /\ Answer
    /\ doubt' = Whole
    /\ UNCHANGED <<created, site>>

WriteHttps ==
    /\ step = "https"
    /\ site' = [site EXCEPT ![Current.file] = [host |-> Current.host, tls |-> TRUE]]
    /\ step' = "record"
    /\ UNCHANGED <<routes, created, certs, queue, reply, doubt>>

(* The HTTP site stays, or again the new file is kept; the certificate is  *)
(* there.                                                                  *)
WriteHttpsFails ==
    /\ step = "https"
    /\ site' \in {site, [site EXCEPT ![Current.file] = [host |-> Current.host, tls |-> TRUE]]}
    /\ routes' = updateRoute(Current.id, "valid")
    /\ Answer
    /\ doubt' = Whole
    /\ UNCHANGED <<created, certs>>

RecordSameForBoth ==
    /\ step = "record"
    /\ routes' = updateRoute(Current.id, "none")
    /\ Answer
    /\ doubt' = Whole
    /\ UNCHANGED <<created, site, certs>>

Record ==
    /\ step = "record"
    /\ routes' = updateRoute(Current.id, IF Current.tls THEN "valid" ELSE "none")
    /\ Answer
    /\ doubt' = Whole
    /\ UNCHANGED <<created, site, certs>>

(* The backend stops and starts again: nothing remembers the queue.        *)
Restart ==
    /\ queue # <<>>
    /\ doubt' = IF step = "begin" THEN doubt ELSE doubt \cup {Current.file}
    /\ reply' = "error"
    /\ queue' = <<>>
    /\ step' = "begin"
    /\ UNCHANGED <<routes, created, site, certs>>

DeployStep ==
    \/ WriteHttp
    \/ WriteHttpFails
    \/ IssueCertificate
    \/ CertificateFails
    \/ WriteHttps
    \/ WriteHttpsFails
    \/ Record

DeployNext ==
    \/ DeployStep
    \/ \E id \in Ids : Delete(id)
    \/ Restart

--------------------------------------------------------------------------------
(* "never enable a TLS config for a cert that isn't really there"          *)
(* (nginxRouteDeployer.js:60-62): whatever fails or stops on the way, an   *)
(* HTTPS site has its certificate.                                         *)
TlsOnlyWithCertificate ==
    \A n \in Names : site[n] # None /\ site[n].tls => site[n].host \in certs

(* The row and the site agree: a route that is enabled serves its host     *)
(* from its file, and over HTTPS only if the row says the certificate is   *)
(* valid, as long as every deployment of the file ran to its end with its  *)
(* row in place (nginxRouteDeployer.js:40-93).                             *)
RowTellsTheSite ==
    \A id \in Existing :
        LET r == routes[id] IN
        /\ r.enabled /\ r.file \notin doubt
        /\ ~(queue # <<>> /\ step # "begin" /\ Current.file = r.file)
        => /\ site[r.file] # None
           /\ site[r.file].host = r.host
           /\ site[r.file].tls => r.cert = "valid"

(* A deployment replaces the site file of another existing route only if   *)
(* its own row was deleted while it waited, which frees the name           *)
(* (nginxRoutesApi.js:84-89, 114-128).                                     *)
NoRouteOverwritesAnother ==
    [][\A n \in Names :
          site'[n] # site[n] =>
             \/ Current.id \notin Existing
             \/ \A id \in Existing : routes[id].file = n => id = Current.id]_deployVars
================================================================================
