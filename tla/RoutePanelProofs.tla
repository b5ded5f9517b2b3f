--------------------------- MODULE RoutePanelProofs ----------------------------
(***************************************************************************)
(* Proofs about guided routes, the panel included, for any hosts, file     *)
(* names, and numbers of rows and of deployments that wait.                *)
(***************************************************************************)
EXTENDS RoutePanel, TLAPS

(* Ids are never given out twice and file names are unique among the rows  *)
(* there are, so a deployment that waited still names its row's file,      *)
(* unless the row is gone.                                                 *)
RowsAreDistinct ==
    /\ \A id \in Ids : id > created => routes[id] = None
    /\ \A i, j \in Existing : routes[i].file = routes[j].file => i = j

QueueNamesRows ==
    \A k \in 1 .. Len(queue) :
        /\ queue[k].id <= created
        /\ queue[k].id \in Existing
           => /\ routes[queue[k].id].host = queue[k].host
              /\ routes[queue[k].id].file = queue[k].file

(* What a deployment that has begun has done so far.                       *)
RunningHasDone ==
    step # "begin" =>
        /\ queue # <<>>
        /\ step \in {"certificate", "https"} => Current.tls
        /\ step = "https" => Current.host \in certs
        /\ site[Current.file] =
              [host |-> Current.host, tls |-> IF step = "record" THEN Current.tls ELSE FALSE]

(* A deployment that was not abandoned, under way or shown, is of the      *)
(* route of the panel.                                                     *)
PanelKeepsToItsRoute ==
    /\ creating # None => route = None
    /\ deploying # None /\ ~deploying.abandoned => deploying.id = route
    /\ deployResult # None /\ ~deployResult.abandoned => deployResult.id = route

(* As long as the hostname has kept still beside a suggestion, each name   *)
(* on its way from the suggestion to a row is that of its host.            *)
NamesOnTheWay ==
    ~renamed =>
        /\ validation # None => hostname \in Hosts /\ validation.file = FileOf[hostname]
        /\ validating # None => /\ validating.host = hostname
                                /\ validating.file \in {None, FileOf[hostname]}
        /\ creating # None => creating.file = FileOf[creating.host]

IInv ==
    /\ TypeOK
    /\ RowsAreDistinct
    /\ QueueNamesRows
    /\ RunningHasDone
    /\ TlsOnlyWithCertificate
    /\ RowTellsTheSite
    /\ PanelKeepsToItsRoute
    /\ NamesOnTheWay
    /\ NamesFollowHosts

--------------------------------------------------------------------------------
(* The first deployment of the queue and the rest of it                    *)
LEMMA QueueParts ==
    ASSUME queue \in Seq(Deployments), queue # <<>>
    PROVE  /\ Current \in Deployments
           /\ Current = queue[1] /\ 1 \in 1 .. Len(queue)
           /\ Tail(queue) \in Seq(Deployments)
           /\ Len(Tail(queue)) = Len(queue) - 1 /\ Len(queue) \in Nat
           /\ \A k \in 1 .. Len(Tail(queue)) :
                 k + 1 \in 1 .. Len(queue) /\ Tail(queue)[k] = queue[k + 1]
  BY DEF Current

LEMMA CurrentFields ==
    ASSUME Current \in Deployments
    PROVE  Current.id \in Ids /\ Current.host \in Hosts /\ Current.file \in Names
           /\ Current.tls \in BOOLEAN
  BY DEF Deployments

(* updateRoute changes neither which rows there are nor what they name.    *)
LEMMA UpdateKeepsNames ==
    ASSUME routes \in [Ids -> Rows \cup {None}],
           NEW id \in Ids, NEW c \in {"none", "error", "valid"}
    PROVE  /\ updateRoute(id, c) \in [Ids -> Rows \cup {None}]
           /\ \A i \in Ids : /\ updateRoute(id, c)[i] = None <=> routes[i] = None
                             /\ i # id => updateRoute(id, c)[i] = routes[i]
           /\ routes[id] # None => /\ updateRoute(id, c)[id].host = routes[id].host
                                   /\ updateRoute(id, c)[id].file = routes[id].file
                                   /\ updateRoute(id, c)[id].cert = c
  <1>1. CASE routes[id] = None
    BY <1>1 DEF updateRoute
  <1>2. CASE routes[id] # None
    <2> DEFINE new == [routes[id] EXCEPT !.cert = c, !.enabled = TRUE]
    <2>1. routes[id] \in Rows
      BY <1>2
    <2>2. new \in Rows /\ new.host = routes[id].host /\ new.file = routes[id].file /\ new.cert = c
      BY <2>1 DEF Rows
    <2>3. new # None
      BY <2>2, NoneIsNothing
    <2>4. updateRoute(id, c) = [routes EXCEPT ![id] = new]
      BY <1>2 DEF updateRoute
    <2> HIDE DEF new
    <2> QED  BY <1>2, <2>2, <2>3, <2>4
  <1> QED  BY <1>1, <1>2

LEMMA ServedIsSomething ==
    ASSUME NEW h \in Hosts, NEW t \in BOOLEAN
    PROVE  [host |-> h, tls |-> t] \in Served /\ [host |-> h, tls |-> t] # None
  BY NoneIsNothing DEF Served

--------------------------------------------------------------------------------
(* Types, one lemma for the backend's steps and one for the panel's        *)
LEMMA DeployTypes ==
    ASSUME DeployTypeOK, RunningHasDone, DeployNext
    PROVE  DeployTypeOK'
  <1> USE DEF DeployTypeOK
  <1>0. (queue # <<>>) =>
          /\ Tail(queue) \in Seq(Deployments) /\ Len(Tail(queue)) <= MaxQueue
          /\ Current.id \in Ids /\ Current.host \in Hosts /\ Current.file \in Names
          /\ [host |-> Current.host, tls |-> FALSE] \in Served
          /\ [host |-> Current.host, tls |-> TRUE] \in Served
          /\ Whole \subseteq Names
          /\ \A c \in {"none", "error", "valid"} :
                updateRoute(Current.id, c) \in [Ids -> Rows \cup {None}]
    <2> SUFFICES ASSUME queue # <<>>
                 PROVE  /\ Tail(queue) \in Seq(Deployments) /\ Len(Tail(queue)) <= MaxQueue
                        /\ Current.id \in Ids /\ Current.host \in Hosts /\ Current.file \in Names
                        /\ [host |-> Current.host, tls |-> FALSE] \in Served
                        /\ [host |-> Current.host, tls |-> TRUE] \in Served
                        /\ Whole \subseteq Names
                        /\ \A c \in {"none", "error", "valid"} :
                              updateRoute(Current.id, c) \in [Ids -> Rows \cup {None}]
      OBVIOUS
    <2>1. Tail(queue) \in Seq(Deployments) /\ Len(Tail(queue)) <= MaxQueue
      BY QueueParts, RouteConstants
    <2>2. Current.id \in Ids /\ Current.host \in Hosts /\ Current.file \in Names
      BY QueueParts, CurrentFields
    <2>3. \A t \in BOOLEAN : [host |-> Current.host, tls |-> t] \in Served
      BY <2>2, ServedIsSomething
    <2>4. Whole \subseteq Names
      BY <2>2 DEF Whole
    <2>5. \A c \in {"none", "error", "valid"} :
             updateRoute(Current.id, c) \in [Ids -> Rows \cup {None}]
      BY <2>2, UpdateKeepsNames
    <2> QED  BY <2>1, <2>2, <2>3, <2>4, <2>5
  <1>1. step # "begin" => queue # <<>>
    BY DEF RunningHasDone
  <1>2. CASE WriteHttp
    BY <1>0, <1>2 DEF WriteHttp
  <1>3. CASE WriteHttpFails
    BY <1>0, <1>3 DEF WriteHttpFails, Answer
  <1>4. CASE IssueCertificate
    BY <1>0, <1>1, <1>4 DEF IssueCertificate
  <1>5. CASE CertificateFails
    BY <1>0, <1>1, <1>5 DEF CertificateFails, Answer
  <1>6. CASE WriteHttps
    BY <1>0, <1>1, <1>6 DEF WriteHttps
  <1>7. CASE WriteHttpsFails
    BY <1>0, <1>1, <1>7 DEF WriteHttpsFails, Answer
  <1>8. CASE Record
    BY <1>0, <1>1, <1>8 DEF Record, Answer
  <1>9. ASSUME NEW id \in Ids, Delete(id) PROVE DeployTypeOK'
    BY <1>9 DEF Delete
  <1>10. CASE Restart
    BY <1>0, <1>10, RouteConstants DEF Restart
  <1> QED
    BY <1>2, <1>3, <1>4, <1>5, <1>6, <1>7, <1>8, <1>9, <1>10 DEF DeployNext, DeployStep
LEMMA SuggestTypes ==
    ASSUME NEW host \in Hosts, NEW file \in Names \cup {None}, NEW known
    PROVE  Suggest(host, file, known) \in Suggestion
  <1> DEFINE name == IF file = None THEN FileOf[host] ELSE file
             seen == host \in known \/ \E id \in Existing : routes[id].file = name
  <1>1. name \in Names
    BY RouteConstants
  <1>2. seen \in BOOLEAN
    OBVIOUS
  <1>3. Suggest(host, file, known) = [file |-> name, duplicate |-> seen]
    BY DEF Suggest
  <1> HIDE DEF name, seen
  <1> QED  BY <1>1, <1>2, <1>3 DEF Suggestion

LEMMA NewRow ==
    ASSUME NEW host \in Hosts, NEW file \in Names
    PROVE  [host |-> host, file |-> file, cert |-> "none", enabled |-> FALSE] \in Rows
  BY DEF Rows

LEMMA CreatedTypes ==
    ASSUME DeployTypeOK, NEW host \in Hosts, NEW file \in Names, createRoute(host, file)
    PROVE  /\ created \in 0 .. MaxRoutes /\ created' = created + 1 /\ created + 1 \in Ids
           /\ routes' \in [Ids -> Rows \cup {None}]
  <1>1. created + 1 \in Ids /\ created' = created + 1 /\ created \in 0 .. MaxRoutes
    BY RouteConstants DEF DeployTypeOK, Ids, createRoute
  <1> QED  BY <1>1, NewRow DEF DeployTypeOK, createRoute

LEMMA EnqueuedTypes ==
    ASSUME DeployTypeOK, NEW id \in Ids, NEW tls \in BOOLEAN, EnqueueDeploy(id, tls)
    PROVE  LET d == [id |-> id, host |-> routes[id].host, file |-> routes[id].file, tls |-> tls]
           IN  /\ id \in Existing
               /\ d \in Deployments
               /\ queue' = Append(queue, d)
               /\ queue' \in Seq(Deployments) /\ Len(queue') <= MaxQueue
  <1> DEFINE d == [id |-> id, host |-> routes[id].host, file |-> routes[id].file, tls |-> tls]
  <1>1. routes[id] \in Rows
    BY DEF DeployTypeOK, EnqueueDeploy, Existing
  <1>2. routes[id].host \in Hosts /\ routes[id].file \in Names
    BY <1>1 DEF Rows
  <1>3. d \in Deployments
    BY <1>2 DEF Deployments
  <1>4. queue' = Append(queue, d) /\ Len(queue) < MaxQueue /\ id \in Existing
    BY DEF EnqueueDeploy
  <1> HIDE DEF d
  <1>5. queue' \in Seq(Deployments) /\ Len(queue') <= MaxQueue
    BY <1>3, <1>4, RouteConstants DEF DeployTypeOK
  <1> QED  BY <1>3, <1>4, <1>5 DEF d

LEMMA PanelTypes ==
    ASSUME TypeOK, PanelNext
    PROVE  TypeOK'
  <1> USE DEF TypeOK, DeployTypeOK
  <1>1. ASSUME NEW h \in Hosts, EditForm(h) PROVE TypeOK'
    BY <1>1 DEF EditForm, deployVars
  <1>2. ASSUME NEW h \in Hosts, Prefill(h) PROVE TypeOK'
    BY <1>2 DEF Prefill, deployVars
  <1>3. CASE handleValidate
    BY <1>3 DEF handleValidate, deployVars, Suggestion
  <1>4. CASE Validated
    <2>1. validating \in [host : Hosts, file : Names \cup {None}]
      BY <1>4 DEF Validated
    <2>2. validating.host \in Hosts /\ validating.file \in Names \cup {None}
      BY <2>1
    <2>3. \A known \in {KnownHosts, {}} :
             Suggest(validating.host, validating.file, known) \in Suggestion
      BY <2>2, SuggestTypes
    <2> QED  BY <1>4, <2>3 DEF Validated, deployVars
  <1>5. CASE handleCreate
    BY <1>5 DEF handleCreate, deployVars, Suggestion
  <1>6. CASE Created
    <2>1. creating \in [host : Hosts, file : Names]
      BY <1>6 DEF Created
    <2>2. CASE createRoute(creating.host, creating.file)
      <3>1. /\ created \in 0 .. MaxRoutes /\ created' = created + 1 /\ created + 1 \in Ids
            /\ routes' \in [Ids -> Rows \cup {None}]
        BY <2>1, <2>2, CreatedTypes
      <3>2. created' \in 0 .. MaxRoutes
        BY <3>1, RouteConstants DEF Ids
      <3>3. route' \in Ids \cup {None}
        BY <1>6, <3>1 DEF Created
      <3> QED  BY <1>6, <3>1, <3>2, <3>3 DEF Created
    <2>3. CASE UNCHANGED <<routes, created, route>>
      BY <1>6, <2>3 DEF Created
    <2> QED  BY <1>6, <2>2, <2>3 DEF Created
  <1>7. ASSUME NEW tls \in BOOLEAN, handleDeploy(tls) PROVE TypeOK'
    <2>1. route \in Ids /\ deploying' = [id |-> route, abandoned |-> FALSE]
      BY <1>7 DEF handleDeploy
    <2>2. queue' \in Seq(Deployments) /\ Len(queue') <= MaxQueue
      BY <1>7, <2>1, EnqueuedTypes DEF handleDeploy
    <2>3. reply' \in {"steps", "error", None}
      BY <1>7 DEF handleDeploy
    <2> QED  BY <1>7, <2>1, <2>2, <2>3 DEF handleDeploy
  <1>8. CASE Deployed
    BY <1>8 DEF Deployed
  <1> QED
    BY <1>1, <1>2, <1>3, <1>4, <1>5, <1>6, <1>7, <1>8 DEF PanelNext

--------------------------------------------------------------------------------
(* Whatever the backend does to the rows, those that stay keep their names *)
(* and the queue only gets shorter.                                        *)
LEMMA DeployKeepsNames ==
    ASSUME DeployTypeOK, RunningHasDone, DeployNext
    PROVE  /\ created' = created
           /\ \A i \in Ids : \/ routes'[i] = None
                             \/ /\ routes[i] # None
                                /\ routes'[i].host = routes[i].host
                                /\ routes'[i].file = routes[i].file
           /\ queue' = queue \/ queue' = <<>> \/ (queue # <<>> /\ queue' = Tail(queue))
  <1> DEFINE Goal ==
           /\ created' = created
           /\ \A i \in Ids : \/ routes'[i] = None
                             \/ /\ routes[i] # None
                                /\ routes'[i].host = routes[i].host
                                /\ routes'[i].file = routes[i].file
           /\ queue' = queue \/ queue' = <<>> \/ (queue # <<>> /\ queue' = Tail(queue))
  <1>1. step # "begin" => queue # <<>>
    BY DEF RunningHasDone
  <1>2. CASE WriteHttp \/ IssueCertificate \/ WriteHttps
    BY <1>2 DEF WriteHttp, IssueCertificate, WriteHttps
  <1>3. CASE WriteHttpFails
    BY <1>3 DEF WriteHttpFails, Answer
  <1>4. ASSUME NEW c \in {"none", "error", "valid"}, queue # <<>>,
               routes' = updateRoute(Current.id, c), Answer, UNCHANGED created
        PROVE  Goal
    <2>1. Current.id \in Ids /\ routes \in [Ids -> Rows \cup {None}]
      BY <1>4, QueueParts, CurrentFields DEF DeployTypeOK
    <2>2. \A i \in Ids : \/ routes'[i] = None
                         \/ /\ routes[i] # None
                            /\ routes'[i].host = routes[i].host
                            /\ routes'[i].file = routes[i].file
      BY <1>4, <2>1, UpdateKeepsNames
    <2> QED  BY <1>4, <2>2 DEF Answer
  <1>5. CASE CertificateFails
    BY <1>1, <1>4, <1>5 DEF CertificateFails
  <1>6. CASE WriteHttpsFails
    BY <1>1, <1>4, <1>6 DEF WriteHttpsFails
  <1>7. CASE Record
    BY <1>1, <1>4, <1>7 DEF Record
  <1>8. ASSUME NEW id \in Ids, Delete(id) PROVE Goal
    BY <1>8 DEF Delete, DeployTypeOK
  <1>9. CASE Restart
    BY <1>9 DEF Restart
  <1> QED
    BY <1>2, <1>3, <1>5, <1>6, <1>7, <1>8, <1>9 DEF DeployNext, DeployStep

LEMMA DeployRows ==
    ASSUME DeployTypeOK, RunningHasDone, RowsAreDistinct, QueueNamesRows, DeployNext
    PROVE  RowsAreDistinct' /\ QueueNamesRows'
  <1>1. /\ created' = created
        /\ \A i \in Ids : \/ routes'[i] = None
                          \/ /\ routes[i] # None
                             /\ routes'[i].host = routes[i].host
                             /\ routes'[i].file = routes[i].file
        /\ queue' = queue \/ queue' = <<>> \/ (queue # <<>> /\ queue' = Tail(queue))
    BY DeployKeepsNames
  <1>2. RowsAreDistinct'
    BY <1>1 DEF RowsAreDistinct, Existing
  <1>3. \A k \in 1 .. Len(queue') : \E l \in 1 .. Len(queue) : queue'[k] = queue[l]
    <2>1. CASE queue' = queue \/ queue' = <<>>
      BY <2>1
    <2>2. CASE queue # <<>> /\ queue' = Tail(queue)
      BY <2>2, QueueParts DEF DeployTypeOK
    <2> QED  BY <1>1, <2>1, <2>2
  <1>4. QueueNamesRows'
    <2> SUFFICES ASSUME NEW k \in 1 .. Len(queue')
                 PROVE  /\ queue'[k].id <= created'
                        /\ queue'[k].id \in Existing'
                           => /\ routes'[queue'[k].id].host = queue'[k].host
                              /\ routes'[queue'[k].id].file = queue'[k].file
      BY DEF QueueNamesRows
    <2>1. PICK l \in 1 .. Len(queue) : queue'[k] = queue[l]
      BY <1>3
    <2> DEFINE d == queue[l]
    <2>2. d.id <= created
          /\ (d.id \in Existing => routes[d.id].host = d.host /\ routes[d.id].file = d.file)
      BY DEF QueueNamesRows
    <2> HIDE DEF d
    <2>3. d.id \in Existing' => /\ d.id \in Existing
                                /\ routes'[d.id].host = routes[d.id].host
                                /\ routes'[d.id].file = routes[d.id].file
      BY <1>1 DEF Existing
    <2> QED  BY <1>1, <2>1, <2>2, <2>3 DEF d
  <1> QED  BY <1>2, <1>4

(* createRoute uses the next id and a name that no row has.                *)
LEMMA CreatedRows ==
    ASSUME DeployTypeOK, RowsAreDistinct, QueueNamesRows, UNCHANGED queue,
           NEW host \in Hosts, NEW file \in Names, ~Taken(host, file), createRoute(host, file)
    PROVE  RowsAreDistinct' /\ QueueNamesRows'
  <1> DEFINE new == [host |-> host, file |-> file, cert |-> "none", enabled |-> FALSE]
  <1>1. /\ created \in 0 .. MaxRoutes /\ created' = created + 1 /\ created + 1 \in Ids
        /\ routes' = [routes EXCEPT ![created + 1] = new] /\ routes \in [Ids -> Rows \cup {None}]
    BY CreatedTypes DEF createRoute, DeployTypeOK
  <1>2. new.file = file
    OBVIOUS
  <1>3. \A id \in Existing : routes[id].file # file
    BY DEF Taken
  <1> HIDE DEF new
  <1>4. routes'[created + 1] = new /\ \A i \in Ids : i # created + 1 => routes'[i] = routes[i]
    BY <1>1
  <1>5. Existing' \subseteq Existing \cup {created + 1}
    BY <1>4 DEF Existing
  <1>6. \A i, j \in Existing' : routes'[i].file = routes'[j].file => i = j
    BY <1>2, <1>3, <1>4, <1>5 DEF RowsAreDistinct, Existing
  <1>7. \A id \in Ids : id > created' => routes'[id] = None
    BY <1>1, <1>4 DEF RowsAreDistinct, Ids
  <1>8. QueueNamesRows'
    <2> SUFFICES ASSUME NEW k \in 1 .. Len(queue)
                 PROVE  /\ queue[k].id <= created'
                        /\ queue[k].id \in Existing'
                           => /\ routes'[queue[k].id].host = queue[k].host
                              /\ routes'[queue[k].id].file = queue[k].file
      BY DEF QueueNamesRows
    <2>1. queue[k] \in Deployments
      BY DEF DeployTypeOK
    <2>2. queue[k].id \in Ids /\ queue[k].id <= created
      BY <2>1 DEF Deployments, QueueNamesRows
    <2>3. queue[k].id # created + 1 /\ queue[k].id <= created + 1
      BY <1>1, <2>2, RouteConstants DEF Ids
    <2> QED  BY <1>1, <1>4, <1>5, <2>2, <2>3 DEF QueueNamesRows
  <1> QED  BY <1>6, <1>7, <1>8 DEF RowsAreDistinct

(* A deployment is put in line with the names of its row.                  *)
LEMMA EnqueuedRows ==
    ASSUME DeployTypeOK, RowsAreDistinct, QueueNamesRows, UNCHANGED <<routes, created>>,
           NEW id \in Ids, NEW tls \in BOOLEAN, EnqueueDeploy(id, tls)
    PROVE  RowsAreDistinct' /\ QueueNamesRows'
  <1> DEFINE d == [id |-> id, host |-> routes[id].host, file |-> routes[id].file, tls |-> tls]
  <1>1. /\ id \in Existing /\ d \in Deployments /\ queue \in Seq(Deployments)
        /\ queue' = Append(queue, d)
    BY EnqueuedTypes DEF DeployTypeOK
  <1>2. d.id = id /\ d.host = routes[id].host /\ d.file = routes[id].file
    OBVIOUS
  <1>3. id <= created
    BY <1>1, RouteConstants DEF RowsAreDistinct, Existing, Ids, DeployTypeOK
  <1> HIDE DEF d
  <1>4. \A k \in 1 .. Len(queue') : queue'[k] = d \/ (k \in 1 .. Len(queue) /\ queue'[k] = queue[k])
    BY <1>1
  <1>5. QueueNamesRows'
    BY <1>2, <1>3, <1>4 DEF QueueNamesRows, Existing
  <1>6. RowsAreDistinct'
    BY DEF RowsAreDistinct, Existing
  <1> QED  BY <1>5, <1>6

--------------------------------------------------------------------------------
(* The three steps of a deployment in their order                          *)
LEMMA DeployRunning ==
    ASSUME DeployTypeOK, RunningHasDone, DeployNext
    PROVE  RunningHasDone'
  <1>1. step # "begin" => queue # <<>>
    BY DEF RunningHasDone
  <1>2. CASE WriteHttp
    <2>1. Current \in Deployments /\ Current' = Current /\ queue' = queue
      BY <1>2, QueueParts DEF WriteHttp, DeployTypeOK, Current
    <2>2. Current.tls \in BOOLEAN /\ Current.file \in Names
      BY <2>1, CurrentFields
    <2>3. site'[Current.file] = [host |-> Current.host, tls |-> FALSE]
      BY <1>2, <2>2 DEF WriteHttp, DeployTypeOK
    <2>4. step' = (IF Current.tls THEN "certificate" ELSE "record")
      BY <1>2 DEF WriteHttp
    <2>5. CASE Current.tls
      BY <1>2, <2>1, <2>3, <2>4, <2>5 DEF WriteHttp, RunningHasDone
    <2>6. CASE Current.tls = FALSE
      BY <1>2, <2>1, <2>3, <2>4, <2>6 DEF WriteHttp, RunningHasDone
    <2> QED  BY <2>2, <2>5, <2>6
  <1>3. CASE IssueCertificate
    <2>1. Current' = Current
      BY <1>3 DEF IssueCertificate, Current
    <2> QED  BY <1>3, <2>1 DEF IssueCertificate, RunningHasDone
  <1>4. CASE WriteHttps
    <2>1. Current' = Current /\ Current \in Deployments /\ Current.tls
      BY <1>1, <1>4, QueueParts DEF WriteHttps, Current, RunningHasDone, DeployTypeOK
    <2>2. Current.file \in Names /\ Current.tls = TRUE
      BY <2>1, CurrentFields
    <2>3. site'[Current.file] = [host |-> Current.host, tls |-> TRUE]
      BY <1>4, <2>2 DEF WriteHttps, DeployTypeOK
    <2> QED  BY <1>1, <1>4, <2>1, <2>2, <2>3 DEF WriteHttps, RunningHasDone
  <1>5. CASE Answer
    BY <1>5 DEF Answer, RunningHasDone
  <1>6. ASSUME NEW id \in Ids, Delete(id) PROVE RunningHasDone'
    <2>1. Current' = Current
      BY <1>6 DEF Delete, Current
    <2> QED  BY <1>6, <2>1 DEF Delete, RunningHasDone
  <1>7. CASE Restart
    BY <1>7 DEF Restart, RunningHasDone
  <1> QED
    BY <1>2, <1>3, <1>4, <1>5, <1>6, <1>7
    DEF DeployNext, DeployStep, WriteHttpFails, CertificateFails, WriteHttpsFails, Record

(* Certificates are only added, and an HTTPS site comes after its own.     *)
LEMMA DeployTls ==
    ASSUME DeployTypeOK, RunningHasDone, TlsOnlyWithCertificate, DeployNext
    PROVE  TlsOnlyWithCertificate'
  <1>1. step # "begin" => queue # <<>>
    BY DEF RunningHasDone
  <1>2. queue # <<>> => Current.host \in Hosts /\ Current.file \in Names
    BY QueueParts, CurrentFields DEF DeployTypeOK
  <1>3. certs \subseteq certs'
    BY DEF DeployNext, DeployStep, WriteHttp, WriteHttpFails, IssueCertificate, CertificateFails,
           WriteHttps, WriteHttpsFails, Record, Delete, Restart
  <1>4. \/ site' = site
        \/ queue # <<>> /\ site' = [site EXCEPT ![Current.file] = [host |-> Current.host, tls |-> FALSE]]
        \/ /\ queue # <<>> /\ Current.host \in certs
           /\ site' = [site EXCEPT ![Current.file] = [host |-> Current.host, tls |-> TRUE]]
    BY DEF DeployNext, DeployStep, WriteHttp, WriteHttpFails, IssueCertificate, CertificateFails,
           WriteHttps, WriteHttpsFails, Record, Delete, Restart, RunningHasDone
  <1>5. \A n \in Names : \/ site'[n] = site[n]
                         \/ site'[n].tls = FALSE
                         \/ site'[n].host \in certs
    BY <1>2, <1>4 DEF DeployTypeOK
  <1> QED  BY <1>3, <1>5 DEF TlsOnlyWithCertificate

--------------------------------------------------------------------------------
(* The row and the site of one route                                       *)
Agrees(id) ==
    LET r == routes[id] IN
    /\ r.enabled /\ r.file \notin doubt
    /\ ~(queue # <<>> /\ step # "begin" /\ Current.file = r.file)
    => /\ site[r.file] # None
       /\ site[r.file].host = r.host
       /\ site[r.file].tls => r.cert = "valid"

LEMMA RowTellsIsAgrees == RowTellsTheSite <=> \A id \in Existing : Agrees(id)
  BY DEF RowTellsTheSite, Agrees

LEMMA CurrentRow ==
    ASSUME DeployTypeOK, RowsAreDistinct, QueueNamesRows, queue # <<>>
    PROVE  /\ Current.id \in Ids /\ Current.host \in Hosts /\ Current.file \in Names
           /\ Current.tls \in BOOLEAN
           /\ Current.id \in Existing
              => /\ routes[Current.id].host = Current.host
                 /\ routes[Current.id].file = Current.file
                 /\ \A id \in Existing : routes[id].file = Current.file => id = Current.id
  <1>1. Current \in Deployments /\ Current = queue[1] /\ 1 \in 1 .. Len(queue)
    BY QueueParts DEF DeployTypeOK
  <1>2. Current.id \in Existing => /\ routes[Current.id].host = Current.host
                                   /\ routes[Current.id].file = Current.file
    BY <1>1 DEF QueueNamesRows
  <1> QED  BY <1>1, <1>2, CurrentFields DEF RowsAreDistinct

(* The site file is written: no other row looks at it, and its own row     *)
(* waits for the end of the deployment.                                    *)
LEMMA WritingAgrees ==
    ASSUME DeployTypeOK, RowTellsTheSite, queue # <<>>, NEW t \in BOOLEAN, NEW h \in Hosts,
           site' = [site EXCEPT ![Current.file] = [host |-> h, tls |-> t]],
           UNCHANGED <<routes, queue, doubt>>, step' # "begin"
    PROVE  RowTellsTheSite'
  <1> SUFFICES ASSUME NEW id \in Existing' PROVE Agrees(id)'
    BY RowTellsIsAgrees DEF RowTellsTheSite, Agrees
  <1>1. id \in Existing /\ Agrees(id) /\ routes[id] \in Rows /\ Current' = Current
    BY RowTellsIsAgrees DEF Existing, DeployTypeOK, Current
  <1>2. routes[id].file \in Names
    BY <1>1 DEF Rows
  <1>3. CASE routes[id].file = Current.file
    BY <1>1, <1>3 DEF Agrees
  <1>4. CASE routes[id].file # Current.file
    <2>1. site'[routes[id].file] = site[routes[id].file]
      BY <1>2, <1>4 DEF DeployTypeOK
    <2> QED  BY <1>1, <1>4, <2>1 DEF Agrees
  <1> QED  BY <1>3, <1>4

(* A deployment ends with its file holding its host, with TLS only if the  *)
(* row is told that the certificate is valid.                              *)
LEMMA EndingAgrees ==
    ASSUME DeployTypeOK, RowsAreDistinct, QueueNamesRows, RowTellsTheSite, queue # <<>>,
           NEW c \in {"none", "error", "valid"}, NEW t \in BOOLEAN, t => c = "valid",
           site' = [site EXCEPT ![Current.file] = [host |-> Current.host, tls |-> t]],
           routes' = updateRoute(Current.id, c), doubt' = Whole, Answer
    PROVE  RowTellsTheSite'
  <1> SUFFICES ASSUME NEW id \in Existing' PROVE Agrees(id)'
    BY RowTellsIsAgrees DEF RowTellsTheSite, Agrees
  <1>1. /\ Current.id \in Ids /\ Current.host \in Hosts /\ Current.file \in Names
        /\ Current.id \in Existing
           => /\ routes[Current.id].host = Current.host
              /\ routes[Current.id].file = Current.file
              /\ \A i \in Existing : routes[i].file = Current.file => i = Current.id
    BY CurrentRow
  <1>2. /\ \A i \in Ids : /\ routes'[i] = None <=> routes[i] = None
                          /\ i # Current.id => routes'[i] = routes[i]
        /\ routes[Current.id] # None => /\ routes'[Current.id].host = routes[Current.id].host
                                        /\ routes'[Current.id].file = routes[Current.id].file
                                        /\ routes'[Current.id].cert = c
    BY <1>1, UpdateKeepsNames DEF DeployTypeOK
  <1>3. id \in Existing /\ Agrees(id) /\ routes[id] \in Rows
    BY <1>2, RowTellsIsAgrees DEF Existing, DeployTypeOK
  <1>4. routes[id].file \in Names
    BY <1>3 DEF Rows
  <1>5. step' = "begin"
    BY DEF Answer
  <1>6. CASE id = Current.id
    <2>1. site'[Current.file] = [host |-> Current.host, tls |-> t] /\ site'[Current.file] # None
      BY <1>1, ServedIsSomething DEF DeployTypeOK
    <2>2. /\ routes'[id].host = Current.host /\ routes'[id].file = Current.file
          /\ routes'[id].cert = c
      BY <1>1, <1>2, <1>3, <1>6 DEF Existing
    <2> QED  BY <2>1, <2>2 DEF Agrees
  <1>7. CASE id # Current.id /\ routes[id].file = Current.file
    <2>1. routes'[id].file \in doubt'
      BY <1>1, <1>2, <1>3, <1>7 DEF Whole, Existing
    <2> QED  BY <2>1 DEF Agrees
  <1>8. CASE id # Current.id /\ routes[id].file # Current.file
    <2>1. routes'[id] = routes[id] /\ site'[routes[id].file] = site[routes[id].file]
      BY <1>2, <1>3, <1>4, <1>8 DEF Existing, DeployTypeOK
    <2>2. routes[id].file \in doubt => routes[id].file \in doubt'
      BY <1>8 DEF Whole
    <2> QED  BY <1>3, <1>5, <1>8, <2>1, <2>2 DEF Agrees
  <1> QED  BY <1>6, <1>7, <1>8

LEMMA DeployRowTells ==
    ASSUME DeployTypeOK, RowsAreDistinct, QueueNamesRows, RunningHasDone, RowTellsTheSite, DeployNext
    PROVE  RowTellsTheSite'
  <1> DEFINE With(t) == [site EXCEPT ![Current.file] = [host |-> Current.host, tls |-> t]]
  <1>1. step # "begin" =>
           /\ queue # <<>>
           /\ step \in {"certificate", "https"} => Current.tls
           /\ site[Current.file] =
                 [host |-> Current.host, tls |-> IF step = "record" THEN Current.tls ELSE FALSE]
    BY DEF RunningHasDone
  <1>2. queue # <<>> =>
           /\ Current.id \in Ids /\ Current.host \in Hosts /\ Current.file \in Names
           /\ Current.tls \in BOOLEAN
           /\ Current.id \in Existing
              => /\ routes[Current.id].host = Current.host
                 /\ routes[Current.id].file = Current.file
                 /\ \A id \in Existing : routes[id].file = Current.file => id = Current.id
    BY CurrentRow
  <1>3. CASE WriteHttp
    <2>1. queue # <<>> /\ site' = With(FALSE) /\ step' # "begin"
      BY <1>3, <1>2 DEF WriteHttp
    <2> HIDE DEF With
    <2> QED  BY <1>2, <1>3, <2>1, WritingAgrees DEF WriteHttp, With
  <1>4. CASE WriteHttpFails
    <2> SUFFICES ASSUME NEW id \in Existing' PROVE Agrees(id)'
      BY RowTellsIsAgrees DEF RowTellsTheSite, Agrees
    <2>1. /\ queue # <<>> /\ step = "begin" /\ step' = "begin" /\ routes' = routes
          /\ site' \in {site, With(FALSE)} /\ doubt' = IF site' = site THEN doubt ELSE Whole
      BY <1>4 DEF WriteHttpFails, Answer
    <2>2. id \in Existing /\ Agrees(id) /\ routes[id] \in Rows
      BY <2>1, RowTellsIsAgrees DEF Existing, DeployTypeOK
    <2>3. routes[id].file \in Names
      BY <2>2 DEF Rows
    <2>4. CASE site' = site
      BY <2>1, <2>2, <2>4 DEF Agrees
    <2>5. CASE site' # site /\ routes[id].file # Current.file
      <3>1. site'[routes[id].file] = site[routes[id].file]
        BY <2>1, <2>3, <2>5 DEF DeployTypeOK
      <3>2. routes[id].file \in doubt => routes[id].file \in doubt'
        BY <2>1, <2>5 DEF Whole
      <3> QED  BY <2>1, <2>2, <3>1, <3>2 DEF Agrees
    <2>6. CASE site' # site /\ routes[id].file = Current.file
      <3>1. CASE Current.id \in Existing
        <4>1. id = Current.id /\ routes'[id].host = Current.host /\ routes'[id].file = Current.file
          BY <1>2, <2>1, <2>2, <2>6, <3>1
        <4>2. site'[Current.file] = [host |-> Current.host, tls |-> FALSE] /\ site'[Current.file] # None
          BY <1>2, <2>1, <2>6, ServedIsSomething DEF DeployTypeOK
        <4> QED  BY <4>1, <4>2 DEF Agrees
      <3>2. CASE Current.id \notin Existing
        BY <2>1, <2>6, <3>2 DEF Whole, Agrees
      <3> QED  BY <3>1, <3>2
    <2> QED  BY <2>4, <2>5, <2>6
  <1>5. CASE IssueCertificate
    <2> SUFFICES ASSUME NEW id \in Existing' PROVE Agrees(id)'
      BY RowTellsIsAgrees DEF RowTellsTheSite, Agrees
    <2>1. id \in Existing /\ Agrees(id) /\ Current' = Current
      BY <1>5, RowTellsIsAgrees DEF IssueCertificate, Existing, Current
    <2> QED  BY <1>5, <2>1 DEF IssueCertificate, Agrees
  <1>6. CASE CertificateFails
    <2>1. site' = With(FALSE)
      BY <1>1, <1>2, <1>6 DEF CertificateFails, DeployTypeOK
    <2> HIDE DEF With
    <2> QED  BY <1>1, <1>6, <2>1, EndingAgrees DEF CertificateFails, With
  <1>7. CASE WriteHttps
    <2>1. site' = With(TRUE) /\ step' # "begin" /\ queue # <<>>
      BY <1>1, <1>7 DEF WriteHttps
    <2> HIDE DEF With
    <2> QED  BY <1>2, <1>7, <2>1, WritingAgrees DEF WriteHttps, With
  <1>8. CASE WriteHttpsFails
    <2>1. site' = With(FALSE) \/ site' = With(TRUE)
      BY <1>1, <1>2, <1>8 DEF WriteHttpsFails, DeployTypeOK
    <2> HIDE DEF With
    <2> QED  BY <1>1, <1>8, <2>1, EndingAgrees DEF WriteHttpsFails, With
  <1>9. CASE Record
    <2>1. site' = With(Current.tls) /\ queue # <<>> /\ Current.tls \in BOOLEAN
      BY <1>1, <1>2, <1>9 DEF Record, DeployTypeOK
    <2> HIDE DEF With
    <2>2. CASE Current.tls
      BY <1>9, <2>1, <2>2, EndingAgrees DEF Record, With
    <2>3. CASE ~Current.tls
      BY <1>9, <2>1, <2>3, EndingAgrees DEF Record, With
    <2> QED  BY <2>2, <2>3
  <1>10. ASSUME NEW i \in Ids, Delete(i) PROVE RowTellsTheSite'
    <2> SUFFICES ASSUME NEW id \in Existing' PROVE Agrees(id)'
      BY RowTellsIsAgrees DEF RowTellsTheSite, Agrees
    <2>1. routes'[id] = routes[id] /\ id \in Existing /\ Agrees(id) /\ Current' = Current
      BY <1>10, RowTellsIsAgrees DEF Delete, Existing, Current, DeployTypeOK
    <2> QED  BY <1>10, <2>1 DEF Delete, Agrees
  <1>11. CASE Restart
    <2> SUFFICES ASSUME NEW id \in Existing' PROVE Agrees(id)'
      BY RowTellsIsAgrees DEF RowTellsTheSite, Agrees
    <2>1. id \in Existing /\ Agrees(id)
      BY <1>11, RowTellsIsAgrees DEF Restart, Existing
    <2> QED  BY <1>11, <2>1 DEF Restart, Agrees
  <1> QED
    BY <1>3, <1>4, <1>5, <1>6, <1>7, <1>8, <1>9, <1>10, <1>11 DEF DeployNext, DeployStep

--------------------------------------------------------------------------------
(* The panel touches the backend by making a row, by adding a deployment   *)
(* to the queue and by taking an answer.                                   *)
LEMMA PanelTouches ==
    ASSUME TypeOK, PanelNext
    PROVE  /\ UNCHANGED <<site, certs, step, doubt>>
           /\ \/ UNCHANGED <<routes, created, queue>>
              \/ /\ creating \in [host : Hosts, file : Names]
                 /\ ~Taken(creating.host, creating.file)
                 /\ createRoute(creating.host, creating.file)
                 /\ UNCHANGED queue
              \/ /\ \E id \in Ids, tls \in BOOLEAN : EnqueueDeploy(id, tls)
                 /\ UNCHANGED <<routes, created>>
  <1> USE DEF deployVars
  <1>1. CASE Created
    BY <1>1 DEF Created, TypeOK
  <1>2. ASSUME NEW tls \in BOOLEAN, handleDeploy(tls)
        PROVE  /\ UNCHANGED <<site, certs, step, doubt, routes, created>>
               /\ UNCHANGED queue \/ (route \in Ids /\ EnqueueDeploy(route, tls))
    BY <1>2 DEF handleDeploy, TypeOK
  <1>3. CASE \/ \E h \in Hosts : EditForm(h) \/ Prefill(h)
             \/ handleValidate \/ Validated \/ handleCreate \/ Deployed
    BY <1>3 DEF EditForm, Prefill, handleValidate, Validated, handleCreate, Deployed
  <1> QED  BY <1>1, <1>2, <1>3 DEF PanelNext

DeployInv ==
    /\ RowsAreDistinct
    /\ QueueNamesRows
    /\ RunningHasDone
    /\ TlsOnlyWithCertificate
    /\ RowTellsTheSite

LEMMA CreatedAgrees ==
    ASSUME DeployTypeOK, RowTellsTheSite, UNCHANGED <<site, certs, queue, step, doubt>>,
           NEW host \in Hosts, NEW file \in Names, createRoute(host, file)
    PROVE  RowTellsTheSite'
  <1> DEFINE new == [host |-> host, file |-> file, cert |-> "none", enabled |-> FALSE]
  <1> SUFFICES ASSUME NEW id \in Existing' PROVE Agrees(id)'
    BY RowTellsIsAgrees DEF RowTellsTheSite, Agrees
  <1>1. created + 1 \in Ids /\ routes' = [routes EXCEPT ![created + 1] = new]
    BY CreatedTypes DEF createRoute
  <1>2. new.enabled = FALSE
    OBVIOUS
  <1> HIDE DEF new
  <1>3. CASE id = created + 1
    <2>1. routes'[id] = new
      BY <1>1, <1>3 DEF DeployTypeOK
    <2> QED  BY <1>2, <2>1 DEF Agrees
  <1>4. CASE id # created + 1
    <2>1. routes'[id] = routes[id] /\ id \in Existing /\ Agrees(id) /\ Current' = Current
      BY <1>1, <1>4, RowTellsIsAgrees DEF Existing, DeployTypeOK, Current
    <2> QED  BY <2>1 DEF Agrees
  <1> QED  BY <1>3, <1>4

LEMMA PanelKeepsDeployInv ==
    ASSUME TypeOK, DeployInv, PanelNext
    PROVE  DeployInv'
  <1>0. DeployTypeOK
    BY DEF TypeOK
  <1>1. UNCHANGED <<site, certs, step, doubt>>
    BY PanelTouches
  <1>2. CASE UNCHANGED <<routes, created, queue>>
    <2>1. Current' = Current /\ Existing' = Existing
      BY <1>2 DEF Current, Existing
    <2> QED
      BY <1>1, <1>2, <2>1
      DEF DeployInv, RowsAreDistinct, QueueNamesRows, RunningHasDone, TlsOnlyWithCertificate,
          RowTellsTheSite
  <1>3. CASE /\ creating \in [host : Hosts, file : Names]
             /\ ~Taken(creating.host, creating.file)
             /\ createRoute(creating.host, creating.file)
             /\ UNCHANGED queue
    <2>1. creating.host \in Hosts /\ creating.file \in Names
      BY <1>3
    <2>2. RowsAreDistinct' /\ QueueNamesRows'
      BY <1>0, <1>3, <2>1, CreatedRows DEF DeployInv
    <2>3. RowTellsTheSite'
      BY <1>0, <1>1, <1>3, <2>1, CreatedAgrees DEF DeployInv
    <2>4. RunningHasDone' /\ TlsOnlyWithCertificate'
      BY <1>1, <1>3 DEF DeployInv, RunningHasDone, TlsOnlyWithCertificate, Current
    <2> QED  BY <2>2, <2>3, <2>4 DEF DeployInv
  <1>4. ASSUME NEW id \in Ids, NEW tls \in BOOLEAN, EnqueueDeploy(id, tls),
               UNCHANGED <<routes, created>>
        PROVE  DeployInv'
    <2>1. RowsAreDistinct' /\ QueueNamesRows'
      BY <1>0, <1>4, EnqueuedRows DEF DeployInv
    <2>2. PICK d \in Deployments : queue' = Append(queue, d) /\ queue \in Seq(Deployments)
      BY <1>0, <1>4, EnqueuedTypes DEF DeployTypeOK
    <2>3. queue' # <<>> /\ (queue # <<>> => Current' = Current)
      BY <2>2 DEF Current
    <2>4. step # "begin" => queue # <<>>
      BY DEF DeployInv, RunningHasDone
    <2>5. RunningHasDone'
      BY <1>1, <2>3, <2>4 DEF DeployInv, RunningHasDone
    <2>6. TlsOnlyWithCertificate'
      BY <1>1 DEF DeployInv, TlsOnlyWithCertificate
    <2>7. RowTellsTheSite'
      <3> SUFFICES ASSUME NEW i \in Existing' PROVE Agrees(i)'
        BY RowTellsIsAgrees DEF RowTellsTheSite, Agrees
      <3>1. i \in Existing /\ Agrees(i)
        BY <1>4, RowTellsIsAgrees DEF Existing, DeployInv
      <3> QED  BY <1>1, <1>4, <2>3, <2>4, <3>1 DEF Agrees
    <2> QED  BY <2>1, <2>5, <2>6, <2>7 DEF DeployInv
  <1> QED  BY <1>2, <1>3, <1>4, PanelTouches

--------------------------------------------------------------------------------
(* What the panel shows and what it remembers                              *)
LEMMA PanelRoute ==
    ASSUME TypeOK, PanelKeepsToItsRoute, PanelNext
    PROVE  PanelKeepsToItsRoute'
  <1> USE DEF PanelKeepsToItsRoute
  <1>1. ASSUME NEW h \in Hosts, EditForm(h) PROVE PanelKeepsToItsRoute'
    BY <1>1 DEF EditForm
  <1>2. ASSUME NEW h \in Hosts, Prefill(h) PROVE PanelKeepsToItsRoute'
    <2>1. deploying' # None => deploying'.abandoned
      BY <1>2 DEF Prefill, TypeOK
    <2> QED  BY <1>2, <2>1 DEF Prefill
  <1>3. CASE handleValidate
    BY <1>3 DEF handleValidate
  <1>4. CASE Validated
    BY <1>4 DEF Validated
  <1>5. CASE handleCreate
    BY <1>5 DEF handleCreate
  <1>6. CASE Created
    <2>1. route = None
      BY <1>6 DEF Created
    <2>2. /\ deploying # None => deploying.id \in Ids
          /\ deployResult # None => deployResult.id \in Ids
      BY DEF TypeOK
    <2>3. None \notin Ids
      BY RouteConstants DEF Ids
    <2> QED  BY <1>6, <2>1, <2>2, <2>3 DEF Created
  <1>7. ASSUME NEW tls \in BOOLEAN, handleDeploy(tls) PROVE PanelKeepsToItsRoute'
    BY <1>7 DEF handleDeploy
  <1>8. CASE Deployed
    BY <1>8 DEF Deployed
  <1> QED
    BY <1>1, <1>2, <1>3, <1>4, <1>5, <1>6, <1>7, <1>8 DEF PanelNext

LEMMA PanelNames ==
    ASSUME TypeOK, NamesOnTheWay, NamesFollowHosts, PanelNext
    PROVE  NamesOnTheWay' /\ NamesFollowHosts'
  <1> USE DEF NamesOnTheWay, NamesFollowHosts, deployVars
  <1>0. (UNCHANGED routes => Existing' = Existing) /\ None \notin Hosts
    BY RouteConstants DEF Existing
  <1>1. ASSUME NEW h \in Hosts, EditForm(h) PROVE NamesOnTheWay' /\ NamesFollowHosts'
    BY <1>0, <1>1 DEF EditForm, TypeOK
  <1>2. ASSUME NEW h \in Hosts, Prefill(h) PROVE NamesOnTheWay' /\ NamesFollowHosts'
    BY <1>0, <1>2 DEF Prefill, TypeOK
  <1>3. CASE handleValidate
    BY <1>0, <1>3 DEF handleValidate, TypeOK
  <1>4. CASE Validated
    <2>1. CASE UNCHANGED validation
      BY <1>0, <1>4, <2>1 DEF Validated
    <2>2. ASSUME NEW known, validation' = Suggest(validating.host, validating.file, known)
          PROVE  NamesOnTheWay' /\ NamesFollowHosts'
      <3>1. validating \in [host : Hosts, file : Names \cup {None}]
        BY <1>4 DEF Validated, TypeOK
      <3>2. validating.host \in Hosts
        BY <3>1
      <3>3. validation'.file = IF validating.file = None THEN FileOf[validating.host]
                               ELSE validating.file
        BY <2>2 DEF Suggest
      <3>4. ~renamed => hostname \in Hosts /\ validation'.file = FileOf[hostname]
        BY <1>4, <3>2, <3>3 DEF Validated
      <3> QED  BY <1>0, <1>4, <3>4 DEF Validated
    <2> QED  BY <1>4, <2>1, <2>2 DEF Validated
  <1>5. CASE handleCreate
    BY <1>0, <1>5 DEF handleCreate
  <1>6. CASE Created
    <2>1. NamesOnTheWay'
      BY <1>6 DEF Created
    <2>2. CASE UNCHANGED routes
      BY <1>0, <1>6, <2>2 DEF Created
    <2>3. CASE createRoute(creating.host, creating.file)
      <3> DEFINE new == [host |-> creating.host, file |-> creating.file,
                         cert |-> "none", enabled |-> FALSE]
      <3>1. creating.host \in Hosts /\ creating.file \in Names /\ DeployTypeOK
        BY <1>6 DEF Created, TypeOK
      <3>2. created + 1 \in Ids /\ routes' = [routes EXCEPT ![created + 1] = new]
        BY <2>3, <3>1, CreatedTypes DEF createRoute
      <3>3. ~renamed => new.file = FileOf[new.host]
        BY <1>6 DEF Created
      <3> HIDE DEF new
      <3>4. \A id \in Existing' : routes'[id] = new \/ (id \in Existing /\ routes'[id] = routes[id])
        BY <3>1, <3>2 DEF Existing, DeployTypeOK
      <3> QED  BY <1>6, <2>1, <3>3, <3>4 DEF Created
    <2> QED  BY <1>6, <2>2, <2>3 DEF Created
  <1>7. ASSUME NEW tls \in BOOLEAN, handleDeploy(tls) PROVE NamesOnTheWay' /\ NamesFollowHosts'
    BY <1>0, <1>7 DEF handleDeploy
  <1>8. CASE Deployed
    BY <1>0, <1>8 DEF Deployed
  <1> QED
    BY <1>1, <1>2, <1>3, <1>4, <1>5, <1>6, <1>7, <1>8 DEF PanelNext

LEMMA DeployNames ==
    ASSUME DeployTypeOK, RunningHasDone, NamesFollowHosts, DeployNext, UNCHANGED renamed
    PROVE  NamesFollowHosts'
  BY DeployKeepsNames DEF NamesFollowHosts, Existing

--------------------------------------------------------------------------------
LEMMA InitHolds == Init => IInv
  <1> SUFFICES ASSUME Init PROVE IInv
    OBVIOUS
  <1> USE DEF Init, DeployInit
  <1>1. Existing = {}
    BY DEF Existing
  <1>2. TypeOK
    <2>1. routes \in [Ids -> Rows \cup {None}] /\ site \in [Names -> Served \cup {None}]
      OBVIOUS
    <2>2. created \in 0 .. MaxRoutes /\ queue \in Seq(Deployments) /\ Len(queue) <= MaxQueue
      BY RouteConstants
    <2>3. DeployTypeOK
      BY <2>1, <2>2 DEF DeployTypeOK
    <2> QED  BY <2>3 DEF TypeOK
  <1>3. RowsAreDistinct /\ QueueNamesRows /\ RunningHasDone /\ RowTellsTheSite
    BY <1>1 DEF RowsAreDistinct, QueueNamesRows, RunningHasDone, RowTellsTheSite
  <1>4. TlsOnlyWithCertificate
    BY DEF TlsOnlyWithCertificate
  <1>5. PanelKeepsToItsRoute /\ NamesOnTheWay /\ NamesFollowHosts
    BY <1>1 DEF PanelKeepsToItsRoute, NamesOnTheWay, NamesFollowHosts
  <1> QED  BY <1>2, <1>3, <1>4, <1>5 DEF IInv

LEMMA StepHolds == IInv /\ [Next]_vars => IInv'
  <1> SUFFICES ASSUME IInv, [Next]_vars PROVE IInv'
    OBVIOUS
  <1>0. TypeOK /\ DeployTypeOK /\ DeployInv
    BY DEF IInv, DeployInv, TypeOK
  <1>1. CASE PanelNext
    <2>1. TypeOK'
      BY <1>0, <1>1, PanelTypes
    <2>2. DeployInv'
      BY <1>0, <1>1, PanelKeepsDeployInv
    <2>3. PanelKeepsToItsRoute' /\ NamesOnTheWay' /\ NamesFollowHosts'
      BY <1>0, <1>1, PanelRoute, PanelNames DEF IInv
    <2> QED  BY <2>1, <2>2, <2>3 DEF IInv, DeployInv
  <1>2. CASE DeployNext /\ UNCHANGED panelVars
    <2>1. DeployTypeOK'
      BY <1>0, <1>2, DeployTypes DEF DeployInv
    <2>2. TypeOK'
      BY <1>0, <1>2, <2>1 DEF TypeOK, panelVars
    <2>3. RowsAreDistinct' /\ QueueNamesRows'
      BY <1>0, <1>2, DeployRows DEF DeployInv
    <2>4. RunningHasDone' /\ TlsOnlyWithCertificate'
      BY <1>0, <1>2, DeployRunning, DeployTls DEF DeployInv
    <2>5. RowTellsTheSite'
      BY <1>0, <1>2, DeployRowTells DEF DeployInv
    <2>6. PanelKeepsToItsRoute' /\ NamesOnTheWay'
      BY <1>2 DEF IInv, PanelKeepsToItsRoute, NamesOnTheWay, panelVars
    <2>7. NamesFollowHosts'
      BY <1>0, <1>2, DeployNames DEF IInv, DeployInv, panelVars
    <2> QED  BY <2>2, <2>3, <2>4, <2>5, <2>6, <2>7 DEF IInv
  <1>3. CASE UNCHANGED vars
    BY <1>3
    DEF vars, deployVars, panelVars, IInv, TypeOK, DeployTypeOK, RowsAreDistinct, QueueNamesRows,
        RunningHasDone, TlsOnlyWithCertificate, RowTellsTheSite, PanelKeepsToItsRoute,
        NamesOnTheWay, NamesFollowHosts, Existing, Current
  <1> QED  BY <1>1, <1>2, <1>3 DEF Next

(* The conjunction of the named parts above is inductive.                  *)
THEOREM InvariantHolds == Spec => []IInv
  BY InitHolds, StepHolds, PTL DEF Spec

(* Every variable of rows, queue, sites and panel keeps its type.          *)
THEOREM TypeCorrect == Spec => []TypeOK
  <1>1. IInv => TypeOK
    BY DEF IInv
  <1> QED  BY <1>1, InvariantHolds, PTL

(* Whatever fails or stops in whichever step of a deployment, an HTTPS     *)
(* site has its certificate (nginxRouteDeployer.js:60-62).                 *)
THEOREM TlsHasCertificate == Spec => []TlsOnlyWithCertificate
  <1>1. IInv => TlsOnlyWithCertificate
    BY DEF IInv
  <1> QED  BY <1>1, InvariantHolds, PTL

(* An enabled row is true of its site after any sequence of whole          *)
(* deployments, failed ones included (nginxRouteDeployer.js:40-93).        *)
THEOREM RowIsTrue == Spec => []RowTellsTheSite
  <1>1. IInv => RowTellsTheSite
    BY DEF IInv
  <1> QED  BY <1>1, InvariantHolds, PTL

(* The result in the panel is of the route in the panel                    *)
(* (RouteConfiguratorPanel.jsx:44-47).                                     *)
THEOREM ResultIsShownRight == Spec => []ResultIsOfTheRoute
  <1>1. IInv => ResultIsOfTheRoute
    BY DEF IInv, TypeOK, PanelKeepsToItsRoute, ResultIsOfTheRoute
  <1> QED  BY <1>1, InvariantHolds, PTL

(* A file is named after its host as long as no hostname is changed beside *)
(* a suggestion (RouteConfiguratorPanel.jsx:73, 95).                       *)
THEOREM NamesAreOfHosts == Spec => []NamesFollowHosts
  <1>1. IInv => NamesFollowHosts
    BY DEF IInv
  <1> QED  BY <1>1, InvariantHolds, PTL

(* However long a deployment waited, it writes to no other route's file    *)
(* while its own row is there (nginxRoutesApi.js:84-89, 114-128).          *)
THEOREM OthersAreLeftAlone == Spec => NoRouteOverwritesAnother
  <1> DEFINE A == \A n \in Names :
                     site'[n] # site[n] =>
                        \/ Current.id \notin Existing
                        \/ \A id \in Existing : routes[id].file = n => id = Current.id
  <1>1. IInv /\ [Next]_vars => [A]_deployVars
    <2> SUFFICES ASSUME IInv, [Next]_vars, NEW n \in Names, site'[n] # site[n],
                        Current.id \in Existing, NEW id \in Existing, routes[id].file = n
                 PROVE  id = Current.id
      OBVIOUS
    <2>0. TypeOK /\ DeployTypeOK /\ RowsAreDistinct /\ QueueNamesRows /\ RunningHasDone
      BY DEF IInv, TypeOK
    <2>1. DeployNext
      BY <2>0, PanelTouches DEF Next, vars, deployVars
    <2>2. queue # <<>> /\ \E w : site' = [site EXCEPT ![Current.file] = w]
      BY <2>0, <2>1
      DEF RunningHasDone, DeployNext, DeployStep, WriteHttp, WriteHttpFails, IssueCertificate,
          CertificateFails, WriteHttps, WriteHttpsFails, Record, Delete, Restart
    <2>3. n = Current.file
      BY <2>0, <2>2 DEF DeployTypeOK
    <2> QED  BY <2>0, <2>2, <2>3, CurrentRow
  <1> QED  BY <1>1, InvariantHolds, PTL DEF Spec, NoRouteOverwritesAnother
================================================================================
