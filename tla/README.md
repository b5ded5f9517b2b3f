# A verification development of the VPS console

The VPS console is a small web application for one server: a Node backend
(`src/backend/src`) that runs without privileges and calls a fixed set of root helper scripts
through `sudo` (`src/backend/scripts`), a React frontend (`src/frontend/src`) and the files that
deploy them (`src/deploy`). This directory holds TLA+ models of the parts of it whose correctness
depends on the order in which things happen, the TLC configurations that check them on small
instances, and proofs, checked by TLAPS, of what holds for every instance.

All paths below are relative to the repository's `src/`.

## 1. Inventory

| Part | State it keeps | Operations | What makes it hard |
|---|---|---|---|
| Refresh-token store (`backend/src/auth/jwt.js`) | rows of `refresh_tokens` | issue, rotate, detect reuse, revoke one, revoke all of a user | a rotation is two statements outside a transaction |
| Browser session (`frontend/src/api/client.js`, `auth/AuthContext.jsx`, cookie routes of `backend/src/auth/routes.js`) | cookie jar shared by tabs, access token per tab, the refresh in flight per tab | login, refresh, logout, reload | calls of several tabs in any order, lost answers, a cookie that is replaced under way |
| Login flow (`backend/src/auth/routes.js`, `lockout.js`, `totp.js`) | users' secrets and flags, backup codes, pending logins, failure counts in memory | password, enrolment, code, backup code | every argon2 call is an `await` between a check and its effect; restarts forget the counts |
| Apply queue (`backend/src/catalog/queue.js`, `routes/catalogRoutes.js`, `exec/sudoExec.js`) | a promise chain, one helper process | detect, plan, apply, audit | helpers with time limits, processes that outlive their promise, restarts |
| NGINX helper (`backend/scripts/nginx_configure.sh`, `lib/common.sh`) | site files, links, backups, the running server | apply, setraw, restore, remove, read-only commands | a script can be stopped between any two commands; backups are named by the second |
| Guided routes (`backend/src/services/nginxRouteDeployer.js`, `routes/nginxRoutesApi.js`) | rows of `nginx_routes` | create, deploy (HTTP, certificate, HTTPS), delete | three steps that can each fail, on a row read earlier |
| Guided route panel (`frontend/src/components/RouteConfiguratorPanel.jsx`) | a form, a suggestion, a created route, its result | validate, create, deploy, replace the form | three calls whose answers find a changed form |
| Route validation and diagnostics (`backend/src/services/*`) | none | duplicates, suggested name; probes | what is suggested once comes back with every later call |
| NGINX page (`frontend/src/pages/services/Nginx.jsx`) | selection, editor, cache of checks | load, check, save, restore, certificate | effects that run on some changes only, answers that come late |
| WireGuard (`backend/scripts/wireguard_*.sh`, `catalog/actions/wireguard.js`) | interface files, the kernel's peers | add, update, remove, raw edit, toggle | line editing with `awk`, two places to keep in step, actions that ask the kernel and scripts that ask the file |
| WireGuard page (`frontend/src/pages/services/WireGuard.jsx`) | tunnel, peer, status, form | poll, select, edit, remove | polls that overtake each other, requests that name a peer and not its key |
| Mosquitto (`backend/scripts/mosquitto_configure.sh`) | listener file, password file, broker | listener, add user, remove user | trial run beside the live broker, rollback without a backup, a broker that restarts by itself |
| Audit log (`backend/src/audit/log.js`) | hash-chained rows | append, verify | one synchronous turn, one writer; which entries are made is the queue's matter |
| File transfer (`backend/src/fileTransfer`) | a directory | upload, list, download, checksum, delete | asynchronous checksum of a file others may replace |
| Service, system, Node.js actions | the operating system's | one command each | none of their own; queued like all actions |
| Database, server, configuration, middleware | tables; nothing that changes | start-up | none |
| Action button, polling (`frontend/src/components/ActionButton.jsx`, `hooks/usePolling.js`) | dialog, last answer | plan, confirm; poll, refresh | late answers |
| Pages, network views, styles | none beyond forms | rendering | none |
| Deployment files (`deploy/`) | the operating system's | install, restart | the unit restarts the backend at any time |

How they interact: the browser calls the routes with an access token and, for `/refresh` and
`/logout`, the cookie. The last step of the login flow calls the token store. A mutating action
goes through the apply queue, which starts one helper script by way of `sudo`, waits for it and
appends to the audit log. Route deployment uses the same queue and, inside it, the NGINX action.
The frontend confirms an action against a plan computed by an earlier call.

`PROJECT.json` lists each part with its status, and every hazard found in the code with the
properties that would catch it. The properties that make each modelled part correct are in
section 3; what the others would need is in section 7.

## 2. Modules

| Module | Models | Abstract specification |
|---|---|---|
| `RefreshTokens` | `jwt.js` on the table `refresh_tokens` | `SessionRegistry` |
| `BrowserSession` | tabs, jar and cookie routes, composed with `RefreshTokens`, which it `EXTENDS` | |
| `LoginFlow` | `routes.js` up to the session, `lockout.js`, backup codes | |
| `ActionQueue` | `queue.js`, the apply handler, `sudoExec.js`, one helper per task | `SerialApplies` |
| `NginxSites` | `nginx_configure.sh` and the file functions of `common.sh` | `SiteTransactions` |
| `RouteDeploy` | `nginxRouteDeployer.js`, `nginxRoutesApi.js`, rows of `nginx_routes` | |
| `RoutePanel` | `RouteConfiguratorPanel.jsx` and `routeValidation.js`, on top of `RouteDeploy` by `EXTENDS` | |
| `NginxPage` | `Nginx.jsx` | |
| `WireGuardConf` | `wireguard_*.sh` and the actions of `wireguard.js` | `Peers`, the meaning of the lines |
| `ActionButton` | `ActionButton.jsx`, `ConfirmDialog.jsx` | |
| `WireGuardPage` | `WireGuard.jsx` and `usePolling.js`, on top of `ActionButton` by `EXTENDS` | |
| `Mosquitto` | `mosquitto_configure.sh`, the actions of `mosquitto.js`, the broker | |
| `...Proofs` | the theorems of section 5 | |
| `MC...` | symmetry and small constants for TLC | |

A definition whose name ends in a phrase (`RotateRevokeForgotten`, `MyTurnAtOnce`, ...) and that
stands right before the definition it resembles is not part of the model: it is a plausible wrong
version of that code. `PROJECT.json` pairs each property with one of them, under which TLC finds
the property violated. This shows that the property can tell right code from wrong.

### RefreshTokens

`row` is the table (one row per jti), `expired` the tokens whose JWT is past its `exp`, `rotating`
the token revoked by a rotation whose `INSERT` is still to come. `better-sqlite3` is synchronous,
so Node runs every function without a break, but the process can die between the `UPDATE` and the
`INSERT` of a rotation: `RotateRevoke` and `RotateInsert` are two actions, every other one needs
`Idle`, and `Crash` clears `rotating`. `parent` and `reused` are history. Signatures and hashes are
abstracted: a call presents a jti. An expired token is refused by `jwt.verify` before the
row is looked at; logout accepts it (`ignoreExpiration`).

`SessionRegistry` has sessions that are unused, open or ended. A family is open while it has a
usable token or is being given one.

### BrowserSession

`cookie` is the jar, `access` and `shows` are the memory of each tab, `call` the requests under
way: sent, in the middle of a rotation, or answered with a `Set-Cookie` still to be applied. The jar is read when a
request is sent and written when its answer arrives; both happen in any order. `SendRefresh` is
held back while a refresh of the same tab has not settled (`refreshInFlight`); `SendLogout` is not.
A page that is reloaded no longer waits for its calls, but the server still serves them. `hurt`,
`raced`, `tabRaced` and `loggedOut` are history: which families had a call lost, raced or a logout.

The csrf cookie is set and cleared with the refresh cookie, so `requireCsrf` refuses
exactly the calls without cookie (`RefuseCsrf`). Tokens are a finite pool; `PoolSuffices` lets a
call be sent only when it could still be answered. The `Set-Cookie` of an answer that no page waits
for is applied or not (`Discard`).

### LoginFlow

A handler that awaits argon2 is two actions: one up to the `await`, which leaves what the handler
carries in `call`, one after it. All the others run without a break. `failures` and `locked` are
the `Map` of `lockout.js`, which a restart empties. Rows of `pending_logins` carry whether they are
expired or deleted. A password is right or wrong; a TOTP code is right for one secret; a backup code
is one of `Codes`. The time of a lock, 30 seconds and more, is an action that ends it (`LockPasses`). The code has one count a
name; `wrongPasswords` and `wrongCodes` are history and count each factor for itself, since the last lock, restart or, for the
factor that was right, success. `cleared` notes whose wrong codes a right password took off the code's count. The pairs
`Login`/`LoginSucceeds`, `Confirm`/`StoreCode`, `VerifyCode`/`CodeAccepted` are where
interleavings bite.

### ActionQueue

`task[r]` is the state of the promise `enqueue` returned, `place[r]` its position in the chain,
`helper[r]` how far the helper process is, `conf` the configuration file all the tasks work on, and
`logged[r]` the audit entry that `recordAudit` makes. After a promise settles, Node runs the rest of the apply handler in
the same turn; `turn` says so. A time limit (`TimeOut`) rejects the promise and sends SIGTERM to
`sudo`, which runs as root: the constant `Timeouts` says whether the signal may be refused, so that
the helper runs on, or does kill it. `Restart` is systemd ending the control group, helper
included, and starting again with an empty chain.

Any command of a helper may fail. Under `set -e` that ends it (`BreakOff`), and after the write it leaves the new file:
`nginx -t` was satisfied and the reload was not. A signal or a restart cuts it off in the same two ways.

`SerialApplies` lets the requests take effect one at a time, each decided on what it then changes and none after it was
reported. It names two exceptions: a change that could not be activated, or was cut off before its validation, stays; and
failure may be reported of a change that is done. Under the mapping a write counts once its helper has exited, and
`basis` is what `detect` read.

### NginxSites

Each action is one command of the script on the disk; `script` holds its variables and how far it
is. Operations that write a site differ only in where the content comes from. `Test` is `nginx -t`,
which rejects a bad file or a dangling link among the enabled sites; `ReloadOrStart` makes NGINX
serve what is on the disk; `ReloadDoesNotWork` is `systemctl` failing, which under `set -e` ends
the script with nothing put back. `Kill` stops the script between any two commands. `BackUpFails` is a `cp` that fails in
`backup_file`, which the script does not notice; `copied` notes it. A copy that stopped half-way counts as none. `before` is
history: the files as the script found them. Of a script that is over only that remains, and of one that was ok what it was asked for.

`SiteTransactions` is what the helper promises: a change of a site is whole and served, or nothing
has happened, or it was cut off or could not be undone, which can have touched the files of that site but not what NGINX
serves. The files of a running script count once it is over.

### RouteDeploy and RoutePanel

`routes[id]` is a row, `site[n]` what NGINX serves from file `n`: a host, with or without TLS. A
deployment takes its row when it is enqueued (`EnqueueDeploy`) and works on that copy later, so rows
can be deleted and made anew meanwhile. Its three steps and their failures are actions; each of the
two writes of a site either leaves the file or keeps the new one although it is reported as failed
(a reload or a read-back that fails), as `NginxSites` and `ActionQueue` show the helper can. `doubt`
is history: files last touched by a deployment that was cut off, or whose row was gone.

The panel holds what the React state holds. `Prefill` is the site editor's "Test in Route Configurator", which resets everything but the calls
under way; a call that settles later finds another form. `abandoned` and `renamed` are
history and mark the two cases of section 4.

### NginxPage

Two `useEffect`s decide what the page loads and checks. `LoadEffect` and `CheckEffect` are evaluated
on the primed state of the actions that change one of their dependencies, and of no other action, which is how React runs
them. Of a text only the site it came from is kept, of a check only whether the site has
changed since it was made. `OtherChange` is a change made by somebody else, or by another part of the page.

### WireGuardConf

The file is a sequence of lines; the three `awk` programs are folds over it (`AddPeer`, `UpdatePeer`,
`RemovePeer`). What the lines mean is defined apart from them: `Peers` and `Listed` from `wireguard_status.sh`, `Stripped` and
`Accepts` from what `wg` reads and refuses, section by section. The run compares the edits with that meaning. A helper is two
steps: up to the new file, and then `strip`, `syncconf` or the rollback. `kernel` is what the interface has, `Nil`
while it is down and `Mixed` when it is out of step. `Shown` is what an action
sees of it before its helper starts. A line is a record of its kind and its value; the kinds `name`, `group` and `Peer`
stand for the lines `# name:`, `# group:` and `[Peer]`. `Nil` plays the part `None` has in the page, so that one
module can speak of both.

The raw editor writes any text (`RawTexts`), because `wg-quick strip` refuses none: names and keys twice, markers anywhere, sections
without a key. For the private key it takes a real one, none, the sentinel, or a text that is no key (`Mangled`: garbage, or a
sentinel in a spelling the `sed` of `setraw` does not match). `typed` is history: the key found or last typed in.

### ActionButton and WireGuardPage

`ActionButton` is the dialog of every mutating action: `handleClick` asks for a plan, `Planned` shows
it, `handleConfirm` applies its request. No call is cancelled. The plan of a dialog that was closed is in `stray`, and comes up in the
next one; an apply (`calls`) goes on when its button is unmounted, beside those of the next button; one that was given up
(`unheard`) may still be served. `strayed` is history: what is shown or confirmed came from a closed dialog.

The page adds the status that is polled, the selected peer and the edit form. `Rendered` says which button is on the page, and so when React
unmounts one, and its dialog with it. A poll is answered with the tunnel as it is when the server sees it (`PollServed`), and is shown when the
answer arrives (`Polled`), which may be after a younger one. An edit rewrites the lines of whichever peer has the name, also when it keeps the
name: `data` says whose form a peer's group and addresses come from. Other clients add, remove and rename peers. A request
carries the key of the peer the user meant (`meant`), which the code does not send: it
is history for `ActsOnThePeerShown`, as `reused` is, the names given to a key anew.

### Mosquitto

`file` and `passwd` are the two files, `broker` what the running broker has read of them, `op` the
command the helper is at. The trial run, the restart, `mosquitto_passwd`, the reload and the backup may each
fail or be cut off; the broker starts and stops between any two commands. `asked`, `told`, `behind` and `doubt` are
history: `told` is the password each user was last given with the answer ok.

## 3. Runs

Every passing run explores its whole state space; the numbers are distinct states.

| Run | Question | States |
|---|---|---|
| `refresh_tokens` | Is a family a chain with one usable token, ended by reuse, and are families sessions? | 2,393 |
| `browser` | When does a tab or a browser lose its session, or leave one behind? | 633,632 |
| `browser_liveness` | Does a tab always stop waiting for a refresh? | 20,359 |
| `login` | Do enrolment, backup codes and lockout hold with handlers interleaved at every await? | 379,059 |
| `queue_serial` | Do applies behave as if made one after the other, also when they fail, are killed or lose their backend? | 2,911 |
| `queue_faults` | With helpers that outlive their time limit too: is what is audited true, and is every apply answered? | 214,837 |
| `sites` | Is a change of a site a transaction, and what survives a kill? | 3,407,462 |
| `routes` | Do rows, sites and certificates agree, whatever step fails and whatever the panel shows meanwhile? | 2,076,658 |
| `nginx_page` | Whose text is in the editor, and how old is a check? | 2,143,308 |
| `wireguard_conf` | Does an edit of the file reach the peer it names and no other, and does the interface follow? | 205,010 |
| `wireguard_page` | Which peer does a confirmed action reach? | 1,669,893 |
| `mosquitto` | Does the broker do what was asked for last? | 1,669,044 |

A run checks what its questions turn on: each property there has a wrong version of the code that
breaks it. What is proved for every instance in section 5 and would only be repeated (types above all, and
what a refinement that is checked implies) is not in a cfg; the list marks it with an asterisk. Each was a property of
its run, with the bounds below, before it was proved.

The properties, by what they are about:

* `OneLiveTokenPerFamily`, `RotationIsAChain`, `ReuseEndsFamily`: rotation hands a session from token
  to token without forking it, and a token that comes back ends all of it.
  `ImplementsRegistry`: families are sessions; an ended one never reopens; `/logout-all` ends those of
  its user only.
* `TabRacesOnlyWhenLoggingOut`, `ReuseHasACause`, `CookieIsCurrent`, `NoStrandedSession`,
  `LogoutEndsSession`: reuse detection treats a repeated token as stolen. These properties list every
  innocent cause: a lost call, two calls of two tabs, or a logout sent during a refresh of the same
  tab. Outside these the jar holds the token the server accepts next, and logging out ends the session.
* `PendingOpensOneSession`, `SessionNeedsEnrolment`\*, `EnrolmentIsFinal`: the second factor cannot be
  used twice, skipped, or replaced by another login of the same account that is still pending.
  `CodesAreComplete` and `CodesUsedOnceUnlessTogether` are about backup codes up to the two gaps of
  section 4. `LockoutBoundsTries`: calls already under way when the lock comes are the only wrong passwords
  that add to `MAX_ATTEMPTS`, and the only tries of both factors together while no right password has cleared the
  count of wrong codes.
* `TasksInOrder`\*, `OneHelperAtATime`, `DetectIsFresh`\*, `ImplementsSerialApplies`, `SuccessIsReal`, `EveryApplyIsAnswered`: the queue serialises, an entry of
  success tells the truth, and one failed apply does not wedge the queue.
* `FailureIsRolledBack`\*, `NothingIsLost`, `OnlySoundIsServed`\*, `RestoreBringsBack`,
  `ImplementsSiteTransactions`: a rejected site leaves no trace, a killed script loses nothing, both but for a copy
  that failed, and NGINX never serves what it would reject.
* `TlsOnlyWithCertificate`\*, `RowTellsTheSite`, `NoRouteOverwritesAnother`: of a deployment that stops
  at any step the row says what is served, and however long it waited it writes to
  no other route's file while its row is there. `ResultIsOfTheRoute`\*, `NamesFollowHosts`: the panel
  shows and sends what belongs to the route in it.
* `EditorHoldsTheSite`, `LoadingMeansLoad`, `CachedCheckIsCurrent`, `CheckViewIsFilled`: what Save
  would write was loaded from the site it is written to; a check is of the site as it is; and no view waits
  for an answer that nobody sends. Each names its exceptions.
* `OnlyTheNamedPeerChanges`, `TidyStays`: a removal or an update reaches the named peer and no
  other in every file in which the scripts can tell peers apart, and no helper but the raw editor spoils such a file or brings
  a name or a key in twice. `KernelFollowsTheFile`, `NoSuchPeerIsTrue`: file, interface and answers agree, and what runs was
  accepted. `PrivateKeyIsKept`: edits with the sentinel in place of the private key never change it, through rollbacks and kills.
* `ConfirmedIsClicked`, `FormIsOfThePeer`\*, `ActsOnThePeerShown`: the dialog
  confirms what was clicked, but for plans of a closed dialog, and a removal or an edit, also one that keeps the name, reaches the
  peer that was shown.
* `BrokerFollowsTheFiles`, `ListenerIsAsAsked`, `UsersCanLogIn`: between helpers the broker lets in whom
  the files say, and the listener is the last one that was answered ok. Who was told that a password is set can log in with it
  at any time the broker runs, whatever is done to listeners and other users, until the next change of that user begins.

### Bounds, and why they are enough

* `refresh_tokens`: two users, three families, four tokens. Two families of one user beside one of
  another tell `/logout-all` from both narrower and wider ones; four tokens allow two rotations
  of a family beside a second family. The proofs of section 5 lift the bounds.
* `browser`: two tabs, two calls under way, three tokens in two families: a session that is rotated
  twice, or rotated once beside a second login. Every race is one between two calls. Pages may be
  reloaded and messages lost. `browser_liveness` keeps one tab, because
  waiting is a matter within a tab.
* `login`: two users, three pending logins (one to enrol, two to verify), two handlers at a time, two
  secrets, two codes a user out of a pool of two, two attempts before the lock. A third handler repeats what
  the second does to the first; both codes of an account are needed to see an incomplete set.
* `queue_*`: three requests: one running, one waiting behind it, one that arrives or comes after
  a failure. The proofs lift the bound.
* `sites`: two sites (at any time one being changed and one that only takes part in the test), two good contents and
  a bad one, two seconds on the clock, any state of the disk at the start. Any number of scripts in
  a row.
* `routes`: two hosts with a file name each, two rows, one deployment at a time. The second row is the
  other route, or the same one made anew after its deletion, while the deployment of the first
  still runs. The proofs lift the bounds, that of one deployment included.
* `nginx_page`: two sites, the one shown and the one left or chosen, and two checks under way, which can be of
  two sites or of one before and after a change.
* `wireguard_conf`: any file of up to two peers, each with or without name and group, in either order;
  two names, two keys, two ranges, one private key beside none and a mangled one. Two peers in a row show whether
  an edit runs on into the next one. Typed texts: none, one that `wg` refuses, a name or a key twice, markers with no peer behind.
* `wireguard_page`: a tunnel with two peers and one with none, one name given to a key anew, by an edit or by another client, one
  apply under way, one call for a plan that no dialog waits for, two answers to polls, so that one can overtake the
  other. Peers of one tunnel shown under another's name are met with a second tunnel that has none; that both have peers,
  and more of everything, is covered by the proofs.
* `mosquitto`: two ports (one of them the default), two users, two passwords. The proofs lift the bounds.

### Fairness

Safety runs assume none. In `browser_liveness`, Node serves every request that reached it
(`SF` on `Serve`, because `Idle` comes and goes) and the network delivers an answer or fails (`WF`):
a handler that is ready is run by the event loop, and a `fetch` settles. Nothing is assumed of users,
expiry, loss or crashes. In `queue_faults`, every ready handler and timer of Node runs (`WF` on `NodeStep`);
helpers are not fair, as they may hang, and only the time limit ends the wait. A restart
loses what was waiting, and `EveryApplyIsAnswered` says so.

Deadlock is checked in `mosquitto`, which has no pool, and in `wireguard_page`, whose polls go on. Elsewhere it is not: the session, login, queue
and route models stop when their pool of tokens, pending logins, requests or rows is used up, the site and the WireGuard file
models when nothing more can be asked within their bounds, and the NGINX page when a user does nothing more; the real ones go on.

## 4. Where code and text disagree

No run expects a violation: what follows is stated as an exception by name in the property it belongs
to, so that the run shows it to be the only way.

* `queue.js:2-4` says two mutating actions never run concurrently. A time limit rejects the apply even
  if the signal to `sudo` was refused (`sudoExec.js:26`), and the next task starts its helper beside
  the old one. `OneHelperAtATime` is checked and proved on the condition that signals arrive (`Timeouts` without
  `"refused"`), and is false otherwise.
* `TotpEnroll.jsx:44` says a backup code can be used once. The unused codes are read before an `await`
  and marked after it (`routes.js:195`), so two verifications under way at once can both spend one
  (`CodesUsedOnceUnlessTogether`).
* `README.md:106-107` says that enrolment shows ten codes. `totp_enabled` is set before the ten hashes
  are awaited (`routes.js:155`); a crash in between leaves an account enrolled that never sees them
  (`CodesAreComplete`).
* `README.md:27-28` and `173-176` count on the account lockout, and `lockout.js:1` calls it per account. A right password
  clears the count (`routes.js:98`) before the second factor is asked for, and a wrong second factor needs a new password
  login: whoever has the password is held up in guessing codes by the rate limit per IP alone. `LockoutBoundsTries` bounds wrong passwords
  without exception, and both factors together but for the names in `cleared`.
* `actions/nginx.js:135` and `211` report every error as "failed validation, rolled back". If the reload fails
  after a good test, nothing is rolled back (`nginx_configure.sh:73`, `FailureIsRolledBack`, `Leave` in
  `SerialApplies`); and an error in reading back a change that was made is reported in its place (`Report`).
* `nginx_configure.sh:298-299` says a restore is undoable. Backups are named by the second
  (`common.sh:20`); a restore within the second of the backup it restores first overwrites that
  backup (`RestoreBringsBack`).
* `nginxRouteDeployer.js`: a redeployment first replaces an HTTPS site by its HTTP form; when the
  certificate then fails, the site stays without TLS and the row says `error`. A deployment whose row
  was deleted while it waited still writes its file, also over that of a route which has taken the name
  (`NoRouteOverwritesAnother`).
* `RouteConfiguratorPanel.jsx`: a file name that was suggested once is sent back with every later
  validation, also after the hostname was changed by hand (`NamesFollowHosts`); the result of a
  deployment that was under way when the form was replaced is shown under the next route
  (`ResultIsOfTheRoute`). "Live at" is shown although the first step failed (line 331); no property is about that wording.
* `Nginx.jsx`: after a failed load the editor keeps the text of the site before, to be saved to this
  one, beside an error (`EditorHoldsTheSite`); a new site started during a load leaves "Loading..." set
  (`LoadingMeansLoad`); a check that was overtaken by a change is cached as current
  (`CachedCheckIsCurrent`); a change that drops the check under the check view leaves neither result nor
  button (`CheckViewIsFilled`).
* `nginx_configure.sh:21-22` promises the previous state if validation fails. `backup_file` is called in a command substitution, where
  bash clears `set -e`: a `cp` that fails (`common.sh:22`) goes unnoticed, and the rollback then finds no file and says "rolled back"
  (`BackUpFails`; the same holds for WireGuard and Mosquitto).
* `actions/wireguard.js:388` answers that there is no such peer while the tunnel is down and the peer in
  the file, and can be wrong in a file that has something twice or out of place, as the interface is asked and not the file (`NoSuchPeerIsTrue`). The raw editor calls a file valid that `wg-quick strip`
  passes (`wireguard_config.sh:54-68`), which looks at no key: while the tunnel is down a name or key that is there twice, or a
  `PrivateKey` that is none, stays in the file until the next start fails (`Accepts`, `Orderly`), and saving the sentinel where
  the file has no private key writes an empty one (`PrivateKeyIsKept`). In files made by hand, an edit runs on into peers without a name
  marker, and a group line before the name marker outlives its peer (`OnlyTheNamedPeerChanges`,
  whose proviso is `Alone`). Not modelled: the private key made for a peer is
  never shown when the answer of its addition is lost; a handshake in the future counts as good in
  `wireguard.js:406` and as critical in `peerStatus.js:21`.
* `usePolling.js:14-24` shows whichever answer comes last, also an older one after a newer, or one tunnel's peers under another;
  and requests name peers, so that a removal or an edit reaches whoever has the name by then (`ActsOnThePeerShown`).
* `ActionButton.jsx:26-41` clears neither the plan nor the call of a dialog that is closed: its plan can come up in the next
  dialog, over the button of something else, and be what is read before "Confirm" (`ConfirmedIsClicked`, `strayed`). What is then applied
  is the request of the plan that is shown, not what was clicked. An apply that failed for the page
  because its connection broke may still be carried out.
* `mosquitto_configure.sh:17-26` means to try a listener on a spare port. It changes lines that start with `port` in a file that
  says `listener`, so the trial asks for the live port: with a running broker it succeeds only
  when the broker has another one. "Rolled back" (`mosquitto.js:85`) is also answered
  when the restart failed with the new file in place, or when there was no backup to put back, as of a first file
  (`ListenerIsAsAsked`). `removeuser` ignores that `mosquitto_passwd` failed (line 153, `|| true`).
* An apply whose backend dies between the end of its helper and `recordAudit` (`catalogRoutes.js:71`)
  leaves a change without the audit entry that `README.md:28-29` promises. `SerialApplies` leaves
  such a change without a verdict.

## 5. Proofs

`tlapm` checks every step of the eight modules `SessionProofs`, `ActionQueueProofs`, `LoginFlowProofs`,
`NginxSitesProofs`, `RoutePanelProofs`, `MosquittoProofs`, `NginxPageProofs` and `WireGuardProofs`. The constants are assumed to be what
`ASSUME` says in the modules: numbers are naturals, and `None` (`Nil` in `WireGuardConf`) is not a value of anything it stands beside.

**RefreshTokens**, for all sets of users, tokens and families, with the one assumption that `None` is
none of their members. None of the three safety invariants is inductive: that `RotateInsert` keeps
`RotationIsAChain` needs that the token being rotated has no successor yet, and that it keeps
`OneLiveTokenPerFamily` needs that its family has no usable token meanwhile. `IInv` is their conjunction
with `TypeOK` and `Bookkeeping` (a rotation in flight has used up a token without a successor; only rows
have parents; the tokens of a family have one user). `InvariantHolds` proves `[]IInv`, one lemma per
kind of step; `TypeCorrect`, `OneLiveToken`, `RotationChain` and `ReuseEnds` follow. `Refinement`
proves that the store implements `SessionRegistry`: an issue opens a session, a revocation that takes the
last usable token ends it, reuse and a crash end it, and a rotation, which passes through
a state without usable token, is a stutter because `StatusOf` counts the rotation in flight.

**BrowserSession** with `RefreshTokens`, for any number of tabs, of calls under way, of tokens and of families. The browser names
steps of the store, so `BrowserSpec => Spec` (`BrowserUsesTheStore`): every theorem about the store holds of the composition.
`BrowserInv` adds to the properties and to `IInv` of the store what makes them inductive. `CallsAreMeant` says what a call under
way can look like by its kind and stage. `CallsAreNoted`: two calls are about one family only if the history says it was raced.
`LoginsAreAlone`: the token of a login is in nobody else's hands before it is delivered. `CallsInStep` and `CookieInStep`
are the idea: for a family to which nothing named in the properties happened, the jar, the one call under way
and the server agree on where the family is - each token is the server's usable one, or being rotated, or on its way to the jar. Reuse
in such a family would need a presented token that was used up, which agreement excludes. `LogoutsTakeEffect` follows a
logout to the server. `ReuseIsCaused`, `TabsRaceOnlyAtLogout`, `CookieStaysCurrent`, `NoneIsStranded`, `LogoutsEndSessions`
and `BrowserTypeCorrect` follow. Of `RefreshSettles` the safety part is proved, for finite pools: `RefreshesGoOn` says that a
refresh under way can go on or waits for a rotation that can (a rotation always has its call, `RotationHasCall`, and the pool a
token for each call that may need one, `PoolLasts`), and `CallsOnlyAdvance` that no call ever goes back.

**ActionQueue**, for any set of requests. `OrderInv` (types, positions without gaps or repetition,
helpers that belong to begun tasks, answers that belong to settled tasks, `TasksInOrder`) is inductive
whatever time limits and restarts do; the step that needs an idea is `Detect`, where the predecessor
in the chain being over must mean that all earlier tasks are (`TurnMeansAllOver`, from `TasksInOrder`
itself and the absence of gaps). `InOrder` and `SuccessHolds` follow. Under the assumption that no
SIGTERM is refused, `QuietInv` adds that a running helper is awaited by its task; from it come
`OneHelper` and `DetectFresh`. `SerialInv` adds what backups and the file hold while a helper runs, and `Implements` proves
the refinement of `SerialApplies` on the same condition: a helper that exits, in whatever way, takes effect
(`ExitTakesEffect`), the audit entry reports (`ReplyReports`), and nothing else is seen. The condition on signals is needed: see
the first item of section 4.
Of `EveryApplyIsAnswered` the safety part is proved, whatever time limits and restarts do. `AnswersFollow` adds to
`OrderInv` that a settled task is being answered or has its audit entry; `NeverWedged` says that some task at or before
one that waits has a step to take, `StepsAreFinite` that every step brings a task or its helper further and none
brings it back, `SettledIsAudited` that nothing settles without its audit entry.

**LoginFlow**, for any users, pending logins, handlers under way (finitely many), codes and attempts. `IInv` adds to
the properties what handlers may rely on after their `await`. `PendingsAreSpent`: the pending login a
handler carries is deleted, has had no session, and is carried by no other handler; so the session issued after
the `await` is its only one. `ConfirmedOnce`: an account is confirmed by one handler, which still has codes to
store; so the codes are complete exactly when it ends. `CodesAreSpent`: two handlers with one code are in `together`,
and so is the code of a handler that took it for unused when it is used by now. `TriesAreCounted`: the wrong passwords of a name are at most
its failures while it is not locked, and with the handlers that can still add one stay below the bound when it is; the same of both
factors together unless it is in `cleared`. The lemmas on `Guesses` count those handlers with the theorems on finite sets. `OneSessionEach`, `EnrolmentIsMandatory`, `CodesStayComplete`, `CodesOpenOnce`,
`TriesAreBounded` and the action property `EnrolmentStays` follow.

**NginxSites**, for any sites, contents and clock. `IInv` says for each command of the script what it has changed so
far (`FileSoFar`, `LinkSoFar`), that the rest is as it was found (`OthersUntouched`), that it can undo what it did
unless its copy failed (`CanUndo`), and that what a restore asked for is what its backup holds until its own backup may have overwritten it
(`RestoreSource`). From it come `FailuresAreRolledBack`, `KillsLoseNothing`, `ServedIsSound`, `RestoresBringBack`, and
`Refinement`: under the mapping, which shows the files as the script found them until it is over, every command is
a stutter but the reload and the end.

**RoutePanel** with `RouteDeploy`, for any hosts, file names and numbers of rows and waiting deployments. `IInv` says that ids are not
given twice and names are unique among rows (`RowsAreDistinct`), that a waiting deployment names its row's host and
file while the row is there (`QueueNamesRows`), what a running one has done (`RunningHasDone`), and which calls of the
panel are about its route and host (`PanelKeepsToItsRoute`, `NamesOnTheWay`). `TlsHasCertificate`, `RowIsTrue`,
`ResultIsShownRight`, `NamesAreOfHosts` and the action property `OthersAreLeftAlone` follow.

**Mosquitto**, for any ports, users and passwords. Each property speaks of the files between helpers; its strengthening
(`FollowsThroughout`, `AsAskedThroughout`, `LetsInThroughout`) says at each command what holds of the file that was
written and of the one that would be put back. `LetsInThroughout` says that whoever was given a password with the answer ok has it in the
password file, and can log in with it under the listener file, under the one that would be put back, and now (`CanLogIn`); `Added` says the same
of the user the helper is at. `BrokerFollows`, `ListenerAsAsked` and `UsersLogIn` follow.

**NginxPage**, for any sites and any number of checks under way. `EditorBecause` says what the editor may hold while a
save is under way, so that its answer can leave the text in place; `OutdatedBecause` says of the checks under way what
`CachedCheckIsCurrent` says of the cache, because each may end up there; the other two properties are inductive beside them.
`GoToLemma` and `MoveLemma` carry the two effects through every change of site and view; `ChangeLemma` bounds the
checks under way by the theorems on finite sets. `EditorIsOfTheSite`, `LoadingIsTrue`, `CacheIsCurrent` and `ViewIsFilled`
follow.

**WireGuardPage** with `ActionButton`, for any tunnels, names and keys, any number of polls, applies and plans of closed dialogs,
and any changes by other clients, on the
assumption that a key is of one tunnel. `Dialog` says what the dialog may show, and which apply is its own. `Fits` says of a name
on a tunnel and a key that the name had this key at the start, or was given to a key anew: it does not speak of the
present, so it stays true however old an answer is, and passes from the servers to the answers under way and the status shown
(`StatusFits`), to the form that was filled from it
(`FormFits`) and to the request that was made of both (`RequestsFit`). `WhatIsConfirmed`,
`FormIsOfItsPeer` and the action property `ActsOnIt` follow.

**WireGuardConf**, for any names, keys and ranges and files of any length. The difficulty is that everything is said of
whole files: the scripts are folds over the lines, and a peer is read from all lines between two keys. The proof
replaces both by what stands beside each line, for files that are `Orderly`; of the others, which the raw editor can write, it says only what holds
of every file.

* *The form.* `WellFormed` is a sequence of lines that is `Orderly`: `Formed` (the three lines of a section stand together, a name stands
  before them, at most with its group between) and `OnceEach` (no name and no key twice). In such a file `PeerIsLocal` shows that
  `PeerBy`, which reads a peer from the two or three lines around its key, agrees with `PeerAt`, which looks at all
  lines up to the last key.
* *The folds.* `RemoveRuns` and `UpdateRuns` show that a script joins, for each line of the file, the lines it
  makes of it; `JoinedIsEdited` then gives each line of the old file its place in the new one, in order and without
  gaps. The community modules define a fold by recursion over sets of places; `FoldExists` derives that each line
  is one step. The inductions are over numbers and sets of numbers, never over operators: `Inductive` says that a
  set which has 0 and passes from each number to the next has all of them, and comes from `WFMin` of the library.
* *The edits.* `Keeps` says what the two scripts have in common: they keep the lines of one peer or take them out
  together, change no line's kind, and put in nothing but a group after a name. `EditKeeps` proves that such an edit keeps the form.
  For addition and the initial files there are lemmas on joined files (`AppendedStaysFormed`, `WrittenIsFormed`).
* *The invariant.* `ConfInv` is `ConfTypeOK`, `KernelThroughout` (while a helper is at work the kernel has the peers of the file it
  would put back, a file it would take again), `KeyThroughout` (that file, and the one being written, have the private key typed in last),
  that no answer is given while a helper is at work, and
  `NoSuchPeerIsTrue`. It asks nothing of the form of the file. `ConfTypeCorrect`, `KernelIsFile`, `PrivateKeyKept` and `NoSuchPeer` follow.
* *Who is changed.* `HelpersKeepTidy` proves `TidyStays`: the helpers keep an orderly file orderly, and a tidy one tidy.
  `NamedPeerChanges` proves `OnlyTheNamedPeerChanges`: if the file is orderly and the named
  peer's markers stand alone, its lines are those of exactly one key, each other peer reads the same at its
  new place, and every peer of the new file comes from one of the old.

`ConfConstants` assumes that `Nil` and `Mixed` are none of the names, keys and ranges, that `Mangled` is no private key and not `Nil`, and that
`Nil` is no pending edit.

Every invariant, action property and refinement that the runs check is also proved. Only model-checked are the two
liveness properties, `RefreshSettles` and `EveryApplyIsAnswered`: fairness and `ENABLED` are beyond the prover. What they rest on
beside fairness, that somebody can always go on and nobody goes back, is proved; the conditions `CanGoOn` and
`RefreshGoesOn` are the guards of the actions, written out because `ENABLED` cannot be used.

## 6. What is abstracted

Texts, formats and layout; argon2, TOTP and JWT arithmetic (an outcome each); rate limits (they
refuse before a handler runs); access tokens (no state). Helpers of `ActionQueue` all write one
file; `NginxSites`, `WireGuardConf` and `Mosquitto` show what helpers do in detail. In `RouteDeploy` a site file is replaced as a whole or
left alone, which `ImplementsSiteTransactions` justifies. `nginx -t`, `systemctl` and
`certbot` are external and modelled by what the scripts rely on. Time is an order of events, except for the seconds
that name backups.

## 7. Plan

In this order, most important behaviour first:

1. (done) sessions: `RefreshTokens`, `SessionRegistry`, `BrowserSession`, proved.
2. (done) the queue: `ActionQueue`, `SerialApplies`, with the refinement proved.
3. (done) `LoginFlow`, proved.
4. (done) `NginxSites`, `SiteTransactions`, with the refinement proved.
5. (done) `RouteDeploy` and `RoutePanel`, proved.
6. (done) `WireGuardConf`, proved.
7. (done) `Mosquitto`, proved.
8. (done) the pages with state of their own: `NginxPage`, `ActionButton`, `WireGuardPage`, proved.
9. `FileTransfer`: upload, checksum, list and delete interleaved on one directory, with the page `Files.jsx`: the
   checksum that is shown and audited is of the file that is there; a listing with a file deleted under it;
   `jail.js` as a function on path components.

The raw editor and the check of the WireGuard page repeat those of `NginxPage`; the form that adds a
peer and the making of an interface are left out of the WireGuard models. The login pages are left
out: they forward what is typed.

Not to be modelled: the hash chain of the audit log (its read and insert are one synchronous turn of
the only process that writes it), network views and styles, read-only probes, start-up code, and
one-command scripts (packages, services, firewall), which keep no state of their own.
