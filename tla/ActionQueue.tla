------------------------------ MODULE ActionQueue ------------------------------
(***************************************************************************)
(* Mutating applies: POST /api/actions/:id/apply (catalogRoutes.js), the   *)
(* promise chain they go through (catalog/queue.js), and the root helper   *)
(* script each of them runs with a time limit (exec/sudoExec.js).          *)
(*                                                                         *)
(* A task detects the state of the machine, plans, and applies: it starts  *)
(* one helper, which backs the configuration up, writes it, validates it   *)
(* and keeps it or puts the backup back.  Any of its commands may fail and *)
(* ends it there (set -e), the reload after a good validation included:    *)
(* the new file then stays although the helper has failed.  All tasks here *)
(* work on the same configuration file, as two applies to one site do.     *)
(*                                                                         *)
(* Node runs a handler to its next await without a break.  When a task     *)
(* settles, the audit entry and the response are made in the same turn     *)
(* (the reaction of the chain only starts the next task), so between Settle*)
(* and Reply no other Node step happens; helpers are processes of their    *)
(* own, and the Node process can die at any moment.                        *)
(***************************************************************************)
EXTENDS Naturals

CONSTANTS
    Requests,   \* apply calls of mutating actions, each made once
    Original,   \* the configuration before any of them
    Timeouts,   \* what a time limit may do to the helper; see below
    Restarts    \* whether the backend process may die and be restarted

(* execFile sends SIGTERM to sudo, which runs as root: the kernel may      *)
(* refuse ("refused": the promise rejects, the helper goes on), or sudo    *)
(* gets it and passes it on ("killed": the helper dies where it is; no     *)
(* script has a trap).  Without either, no time limit is reached.          *)
ASSUME TimeoutsAreKnown == Timeouts \subseteq {"refused", "killed"}
ASSUME RestartsIsAFlag == Restarts \in BOOLEAN
ASSUME OriginalIsNoRequest == Original \notin Requests

VARIABLES
    place,      \* place[r]: position of r's task in the chain, 0 before enqueue
    enqueued,   \* how many tasks were enqueued
    task,       \* task[r]: state of the promise returned by enqueue
    seen,       \* seen[r]: the configuration r's detect read
    helper,     \* helper[r]: how far the helper process of r is
    backup,     \* backup[r]: the content the helper of r backed up
    conf,       \* the configuration file: the request that wrote it last
    turn,       \* the request whose settlement Node is handling, or Original
    logged      \* logged[r]: the audit entry of r: "none", "success" or "failure"

vars == <<place, enqueued, task, seen, helper, backup, conf, turn, logged>>

NoOne == Original
Contents == Requests \cup {Original}

TypeOK ==
    /\ place \in [Requests -> Nat]
    /\ enqueued \in Nat
    /\ task \in [Requests -> {"none", "waiting", "detected", "running",
                              "fulfilled", "rejected", "lost"}]
    /\ seen \in [Requests -> Contents]
    /\ helper \in [Requests -> {"none", "started", "backedUp", "written",
                                "ok", "failed", "kept"}]
    /\ backup \in [Requests -> Contents]
    /\ conf \in Contents
    /\ turn \in Contents
    /\ logged \in [Requests -> {"none", "success", "failure"}]

Init ==
    /\ place = [r \in Requests |-> 0]
    /\ enqueued = 0
    /\ task = [r \in Requests |-> "none"]
    /\ seen = [r \in Requests |-> Original]
    /\ helper = [r \in Requests |-> "none"]
    /\ backup = [r \in Requests |-> Original]
    /\ conf = Original
    /\ turn = NoOne
    /\ logged = [r \in Requests |-> "none"]

Settled(r) == task[r] \in {"fulfilled", "rejected"}
Over(r) == Settled(r) \/ task[r] = "lost"
InTask(r) == task[r] \in {"detected", "running"}
HelperRuns(r) == helper[r] \in {"started", "backedUp", "written"}
Exited == {"ok", "failed", "kept"}

(* A helper that ends in its course, by a command that fails or a signal,  *)
(* leaves the file as it is then: its own, "kept", once it has written it. *)
CutOff(state) == IF state = "written" THEN "kept" ELSE "failed"
NodeFree == turn = NoOne

--------------------------------------------------------------------------------
(* The apply handler up to its first await: enqueue(run).                  *)
Enqueue(r) ==
    /\ NodeFree
    /\ task[r] = "none"
    /\ task' = [task EXCEPT ![r] = "waiting"]
    /\ enqueued' = enqueued + 1
    /\ place' = [place EXCEPT ![r] = enqueued + 1]
    /\ UNCHANGED <<seen, helper, backup, conf, turn, logged>>

(* tail.then(task, task): the task before this one has settled, either way.*)
(* A chain begun after a restart starts from a resolved promise.           *)
MyTurnOnSuccessOnly(r) == \A q \in Requests : place[q] + 1 = place[r] /\ place[q] > 0 => task[q] = "fulfilled"

MyTurnAtOnce(r) == place[r] > 0

MyTurn(r) == \A q \in Requests : place[q] + 1 = place[r] /\ place[q] > 0 => Over(q)

(* run(): await action.detect(params).                                     *)
Detect(r) ==
    /\ NodeFree
    /\ task[r] = "waiting"
    /\ MyTurn(r)
    /\ task' = [task EXCEPT ![r] = "detected"]
    /\ seen' = [seen EXCEPT ![r] = conf]
    /\ UNCHANGED <<place, enqueued, helper, backup, conf, turn, logged>>

(* action.plan, then action.apply as far as runHelperScript.               *)
SpawnHelper(r) ==
    /\ NodeFree
    /\ task[r] = "detected"
    /\ task' = [task EXCEPT ![r] = "running"]
    /\ helper' = [helper EXCEPT ![r] = "started"]
    /\ UNCHANGED <<place, enqueued, seen, backup, conf, turn, logged>>

(* The promise of r settles; the chain and the apply handler react to it.  *)
Settle(r, outcome) ==
    /\ NodeFree
    /\ task' = [task EXCEPT ![r] = outcome]
    /\ turn' = r
    /\ UNCHANGED <<place, enqueued, seen, backup, conf, logged>>

(* detect, plan or apply throws before a helper is started.                *)
Throw(r) ==
    /\ task[r] = "detected"
    /\ Settle(r, "rejected")
    /\ UNCHANGED helper

(* The helper has exited; apply throws when its exit code is not 0.        *)
ReturnIgnoringExitCode(r) ==
    /\ task[r] = "running"
    /\ helper[r] \in Exited
    /\ Settle(r, "fulfilled")
    /\ UNCHANGED helper

Return(r) ==
    /\ task[r] = "running"
    /\ helper[r] \in Exited
    /\ Settle(r, IF helper[r] = "ok" THEN "fulfilled" ELSE "rejected")
    /\ UNCHANGED helper

(* The helper succeeded, but the script that reads the new state back for  *)
(* the answer reaches its time limit.                                      *)
ReadBackTimesOut(r) ==
    /\ Timeouts # {}
    /\ task[r] = "running"
    /\ helper[r] = "ok"
    /\ Settle(r, "rejected")
    /\ UNCHANGED helper

(* The time limit passes first.                                            *)
TimeOut(r) ==
    /\ task[r] = "running"
    /\ HelperRuns(r)
    /\ Settle(r, "rejected")
    /\ \/ "refused" \in Timeouts /\ UNCHANGED helper
       \/ "killed" \in Timeouts /\ helper' = [helper EXCEPT ![r] = CutOff(@)]

(* The entry, hash chain and all, is inserted in the turn that reads the   *)
(* last one, by the only process that writes the log.                      *)
recordAudit(r, outcome) == logged' = [logged EXCEPT ![r] = outcome]

(* The rest of the apply handler: recordAudit and the response.            *)
Reply(r) ==
    /\ turn = r
    /\ turn' = NoOne
    /\ recordAudit(r, IF task[r] = "fulfilled" THEN "success" ELSE "failure")
    /\ UNCHANGED <<place, enqueued, task, seen, helper, backup, conf>>

--------------------------------------------------------------------------------
(* The helper process: backup_file, atomic_write, validation.              *)
BackUp(r) ==
    /\ helper[r] = "started"
    /\ helper' = [helper EXCEPT ![r] = "backedUp"]
    /\ backup' = [backup EXCEPT ![r] = conf]
    /\ UNCHANGED <<place, enqueued, task, seen, conf, turn, logged>>

Write(r) ==
    /\ helper[r] = "backedUp"
    /\ helper' = [helper EXCEPT ![r] = "written"]
    /\ conf' = r
    /\ UNCHANGED <<place, enqueued, task, seen, backup, turn, logged>>

Keep(r) ==
    /\ helper[r] = "written"
    /\ helper' = [helper EXCEPT ![r] = "ok"]
    /\ UNCHANGED <<place, enqueued, task, seen, backup, conf, turn, logged>>

(* A command fails: before the write the file is untouched; after it the   *)
(* reload or restart has failed, or restore_backup, and the new file stays.*)
BreakOff(r) ==
    /\ HelperRuns(r)
    /\ helper' = [helper EXCEPT ![r] = CutOff(@)]
    /\ UNCHANGED <<place, enqueued, task, seen, backup, conf, turn, logged>>

(* Validation fails: restore_backup, exit 1.                               *)
RollBackNothing(r) ==
    /\ helper[r] = "written"
    /\ helper' = [helper EXCEPT ![r] = "failed"]
    /\ UNCHANGED <<place, enqueued, task, seen, backup, conf, turn, logged>>

RollBack(r) ==
    /\ helper[r] = "written"
    /\ helper' = [helper EXCEPT ![r] = "failed"]
    /\ conf' = backup[r]
    /\ UNCHANGED <<place, enqueued, task, seen, backup, turn, logged>>

(* The backend process dies.  systemd ends what is left of its control     *)
(* group, the helper included, and starts it again with an empty chain.    *)
Restart ==
    /\ Restarts
    /\ task' = [r \in Requests |-> IF task[r] = "none" \/ logged[r] # "none"
                                   THEN task[r] ELSE "lost"]
    /\ helper' = [r \in Requests |-> IF HelperRuns(r) THEN CutOff(helper[r]) ELSE helper[r]]
    /\ turn' = NoOne
    /\ UNCHANGED <<place, enqueued, seen, backup, conf, logged>>

NodeStep(r) ==
    \/ Detect(r)
    \/ SpawnHelper(r)
    \/ Throw(r)
    \/ Return(r)
    \/ ReadBackTimesOut(r)
    \/ TimeOut(r)
    \/ Reply(r)

HelperStep(r) ==
    \/ BackUp(r)
    \/ Write(r)
    \/ Keep(r)
    \/ BreakOff(r)
    \/ RollBack(r)

Next ==
    \/ \E r \in Requests : Enqueue(r)
    \/ \E r \in Requests : NodeStep(r)
    \/ \E r \in Requests : HelperStep(r)
    \/ Restart

Spec == Init /\ [][Next]_vars

(* Node's event loop gets to everything that is ready, time limits         *)
(* included.  A helper need not be fair when it has a time limit: it may   *)
(* hang.                                                                   *)
FairSpec ==
    /\ Spec
    /\ \A r \in Requests : WF_vars(NodeStep(r))
    /\ Timeouts = {} => \A r \in Requests : WF_vars(HelperStep(r))

--------------------------------------------------------------------------------
(* A task is begun only when every task enqueued before it is over, failed *)
(* ones included, and also across a restart: queue.js:6-14.                *)
TasksInOrder ==
    \A q, r \in Requests :
        0 < place[q] /\ place[q] < place[r] /\ task[r] \notin {"none", "waiting"} => Over(q)

(* "two config-mutating actions never run concurrently" (queue.js:2-4).    *)
OneHelperAtATime ==
    \A q, r \in Requests : HelperRuns(q) /\ HelperRuns(r) => q = r

(* What a task decided on the strength of its detect is still so when its  *)
(* helper starts to write (catalogRoutes.js:54-59).                        *)
DetectIsFresh ==
    \A r \in Requests :
        task[r] = "detected" \/ helper[r] \in {"started", "backedUp"} => seen[r] = conf

(* Even when helpers hang, are killed or the process dies: an entry that   *)
(* says success is about a change that was validated and kept.             *)
SuccessIsReal ==
    \A r \in Requests : logged[r] = "success" => helper[r] = "ok"

(* "one failed apply doesn't wedge the queue" (queue.js:10-11): every      *)
(* apply is answered and audited, whatever happens to those before it, as  *)
(* long as the process that took it lives.                                 *)
EveryApplyIsAnswered ==
    \A r \in Requests : task[r] = "waiting" ~> logged[r] # "none" \/ task[r] = "lost"

(* What the invariants above rest on: positions are handed out without     *)
(* gaps or repetition, and a helper belongs to a task that was begun.      *)
Places ==
    /\ \A r \in Requests : (place[r] = 0 <=> task[r] = "none") /\ place[r] <= enqueued
    /\ \A q, r \in Requests : place[q] = place[r] /\ place[r] > 0 => q = r
    /\ \A n \in 1 .. enqueued : \E r \in Requests : place[r] = n

HelpersBelong ==
    \A r \in Requests :
        /\ task[r] \in {"none", "waiting", "detected"} => helper[r] = "none"
        /\ task[r] = "running" => helper[r] # "none"
        /\ task[r] = "fulfilled" => helper[r] = "ok"

(* Node answers only for tasks that have settled.                          *)
AnswersBelong ==
    /\ turn # NoOne => Settled(turn)
    /\ \A r \in Requests : logged[r] # "none" => Settled(r)

(* While no time limit is refused, a running helper's task waits for it.   *)
HelpersAwaited == \A r \in Requests : HelperRuns(r) => task[r] = "running"

(* ... and the configuration and the backups are what the serial view says.*)
WritesAreWhole ==
    \A r \in Requests :
        /\ helper[r] = "backedUp" => backup[r] = conf
        /\ helper[r] = "written" => conf = r /\ backup[r] = seen[r]

(* Under the atomic view, a write counts once its helper has exited.       *)
ContentBar ==
    IF \E r \in Requests : helper[r] = "written"
    THEN backup[CHOOSE r \in Requests : helper[r] = "written"]
    ELSE conf

OutcomeOf(state) ==
    IF state = "ok" THEN "done"
    ELSE IF state = "kept" THEN "left"
    ELSE IF state = "failed" THEN "undone"
    ELSE "none"

OutcomeBar == [r \in Requests |-> OutcomeOf(helper[r])]
BasisBar == [r \in Requests |-> IF helper[r] \in Exited THEN seen[r] ELSE Original]

Serial == INSTANCE SerialApplies
            WITH content <- ContentBar, outcome <- OutcomeBar, basis <- BasisBar, verdict <- logged

(* As long as no helper outlives its time limit, the applies take effect   *)
(* one at a time, each decided on what the one before it left, through     *)
(* failures, kills and restarts; what is reported is what was done, but    *)
(* for the two exceptions that SerialApplies names.                        *)
ImplementsSerialApplies == Serial!Spec
================================================================================
