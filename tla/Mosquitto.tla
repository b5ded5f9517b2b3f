------------------------------- MODULE Mosquitto -------------------------------
(***************************************************************************)
(* The MQTT broker as the console configures it: a listener file, a        *)
(* password file and the running broker that has read them                 *)
(* (mosquitto_configure.sh, catalog/actions/mosquitto.js).                 *)
(*                                                                         *)
(* The apply queue runs one helper at a time; the broker can stop and      *)
(* start between any two of its commands.  The console owns the only       *)
(* listener file there is.                                                 *)
(***************************************************************************)
EXTENDS Naturals

CONSTANTS
    Ports,
    DefaultPort,    \* where a broker without a listener line listens
    Users, Passwords,
    None

ASSUME MosquittoConstants ==
    /\ DefaultPort \in Ports
    /\ None \notin Ports \cup Passwords \cup Users

VARIABLES
    file,       \* the listener file, None if there is none
    passwd,     \* the password file, None if there is none
    broker,     \* what the running broker has read, None while it is down
    op,         \* the helper under way: the command it is at, and what it
                \*   needs: the request, the backup, the user and the password
    asked,      \* history: the last listener whose command answered ok
    told,       \* history: told[u]: the password u was last given with the
                \*   answer ok, None since u's next change began
    behind,     \* history: the broker started during the helper, or a helper
                \*   ended after changing a file, and nothing made it read since
    doubt       \* history: why the listener file may not be what was asked last

vars == <<file, passwd, broker, op, asked, told, behind, doubt>>

Requests == [port : Ports, tls : BOOLEAN, anonymous : {"yes", "no"}]
PasswordFile == [Users -> Passwords \cup {None}]
ListenerFile == [port : Ports \cup {None}, tls : BOOLEAN, anonymous : {"yes", "no", "unset"},
                 passwords : BOOLEAN]
Broker == [port : Ports, tls : BOOLEAN, anonymous : {"yes", "no"}, users : PasswordFile \cup {None}]
Helper == [at : {"trial", "restart"}, listener : Requests, old : ListenerFile \cup {None}]
          \cup [at : {"append", "reload"}, user : Users, password : Passwords \cup {None}]

ASSUME NoneIsNothing ==
    /\ None \notin Requests \cup PasswordFile \cup ListenerFile \cup Broker \cup Helper
    /\ None \notin {"killed", "no backup", "no restart"}

TypeOK ==
    /\ file \in ListenerFile \cup {None}
    /\ passwd \in PasswordFile \cup {None}
    /\ broker \in Broker \cup {None}
    /\ op \in Helper \cup {None}
    /\ asked \in Requests \cup {None}
    /\ told \in PasswordFile
    /\ behind \in BOOLEAN
    /\ doubt \in {"killed", "no backup", "no restart", None}

NoUsers == [u \in Users |-> None]

Init ==
    /\ file = None /\ passwd = None
    /\ broker \in {None, [port |-> DefaultPort, tls |-> FALSE, anonymous |-> "no", users |-> None]}
    /\ op = None
    /\ asked = None /\ told = NoUsers /\ behind = FALSE /\ doubt = None

--------------------------------------------------------------------------------
(* What mosquitto makes of the files when it starts.                       *)
UsersOf(f, p) == IF f # None /\ f.passwords THEN p ELSE None
AnonymousOf(f) == IF f # None /\ f.anonymous = "yes" THEN "yes" ELSE "no"
PortOf(f) == IF f = None \/ f.port = None THEN DefaultPort ELSE f.port

Read(f, p) ==
    [port |-> PortOf(f), tls |-> f # None /\ f.tls,
     anonymous |-> AnonymousOf(f), users |-> UsersOf(f, p)]

(* A HUP makes it read who may log in, not where it listens.               *)
Reread(b, f, p) == [b EXCEPT !.anonymous = AnonymousOf(f), !.users = UsersOf(f, p)]

(* The trial run looks for a line that starts with "port" to move to a     *)
(* port of its own, and the candidate has "listener": it binds the real    *)
(* port.  It may also fail for a certificate or for somebody else's port.  *)
Collides(l) == broker # None /\ broker.port = l.port

CandidateWithoutUsers(l) ==
    [port |-> l.port, tls |-> l.tls, anonymous |-> l.anonymous, passwords |-> FALSE]

Candidate(l) ==
    [port |-> l.port, tls |-> l.tls, anonymous |-> l.anonymous,
     passwords |-> l.anonymous = "no" /\ passwd # None]

(* configureListener, up to atomic_write; if the trial of the candidate    *)
(* fails nothing is changed.  old is what the backup has: nothing also     *)
(* when cp fails, which backup_file does not notice (bash clears set -e in *)
(* a command substitution).                                                *)
WriteListener(l) ==
    /\ op = None
    /\ ~Collides(l)
    /\ op' \in [at : {"trial"}, listener : {l}, old : {file, None}]
    /\ file' = Candidate(l)
    /\ UNCHANGED <<passwd, broker, asked, told, behind, doubt>>

TrialPasses ==
    /\ op # None /\ op.at = "trial"
    /\ ~Collides(op.listener)
    /\ op' = [op EXCEPT !.at = "restart"]
    /\ UNCHANGED <<file, passwd, broker, asked, told, behind, doubt>>

RestoredNever(old) == file

(* restore_backup: without a backup the new file stays.                    *)
Restored(old) == IF old = None THEN file ELSE old

TrialFails ==
    /\ op # None /\ op.at = "trial"
    /\ file' = Restored(op.old)
    /\ op' = None
    /\ behind' = (behind \/ op.old = None)
    /\ doubt' = IF op.old = None THEN "no backup" ELSE doubt
    /\ UNCHANGED <<passwd, broker, asked, told>>

Restart ==
    /\ op # None /\ op.at = "restart"
    /\ broker' = Read(file, passwd)
    /\ op' = None
    /\ asked' = op.listener
    /\ behind' = FALSE /\ doubt' = None
    /\ UNCHANGED <<file, passwd, told>>

(* systemctl fails: the broker is down, or was not touched.  set -e ends   *)
(* the helper; the action says "rolled back".                              *)
RestartFails ==
    /\ op # None /\ op.at = "restart"
    /\ broker' \in {None, broker}
    /\ op' = None
    /\ behind' = (behind \/ broker' # None)
    /\ doubt' = "no restart"
    /\ UNCHANGED <<file, passwd, asked, told>>

--------------------------------------------------------------------------------
(* touch and mosquitto_passwd -b; if the latter fails an empty file may    *)
(* have been made.                                                         *)
Touched == IF passwd = None THEN NoUsers ELSE passwd

setUser(u, p) ==
    /\ op = None
    /\ passwd' = [Touched EXCEPT ![u] = p]
    /\ op' = [at |-> "append", user |-> u, password |-> p]
    /\ told' = [told EXCEPT ![u] = None]
    /\ UNCHANGED <<file, broker, asked, behind, doubt>>

SetUserFails ==
    /\ op = None
    /\ passwd' = Touched
    /\ behind' = (behind \/ passwd' # passwd)
    /\ UNCHANGED <<file, broker, op, asked, told, doubt>>

(* The listener file is made if need be, whatever it says of anonymous     *)
(* clients.                                                                *)
AppendPasswordFile ==
    /\ op # None /\ op.at = "append"
    /\ file' = IF file = None
               THEN [port |-> None, tls |-> FALSE, anonymous |-> "unset", passwords |-> TRUE]
               ELSE [file EXCEPT !.passwords = TRUE]
    /\ op' = [op EXCEPT !.at = "reload"]
    /\ UNCHANGED <<passwd, broker, asked, told, behind, doubt>>

(* A user who is not in the file needs no helper; mosquitto_passwd -D may  *)
(* fail unnoticed.                                                         *)
removeUserNoReload(u) ==
    /\ op = None
    /\ passwd # None /\ passwd[u] # None
    /\ passwd' = [passwd EXCEPT ![u] = None]
    /\ UNCHANGED <<file, broker, op, asked, told, behind, doubt>>

removeUser(u) ==
    /\ op = None
    /\ passwd # None /\ passwd[u] # None
    /\ passwd' \in {passwd, [passwd EXCEPT ![u] = None]}
    /\ op' = [at |-> "reload", user |-> u, password |-> None]
    /\ told' = [told EXCEPT ![u] = None]
    /\ UNCHANGED <<file, broker, asked, behind, doubt>>

(* systemctl kill -s HUP, or a restart if that fails                       *)
Reload ==
    /\ op # None /\ op.at = "reload"
    /\ broker' \in IF broker = None THEN {None, Read(file, passwd)} ELSE {Reread(broker, file, passwd)}
    /\ op' = None
    /\ behind' = FALSE
    /\ told' = [told EXCEPT ![op.user] = op.password]
    /\ UNCHANGED <<file, passwd, asked, doubt>>

--------------------------------------------------------------------------------
(* The time limit, or the end of the backend                               *)
Killed ==
    /\ op # None
    /\ op' = None
    /\ behind' = TRUE
    /\ doubt' = IF op.at = "reload" THEN doubt ELSE "killed"
    /\ UNCHANGED <<file, passwd, broker, asked, told>>

(* From the services page, by hand, or by itself: a broker that starts in  *)
(* the middle of a helper reads a file that may still be put back.         *)
Start ==
    /\ broker = None
    /\ broker' = Read(file, passwd)
    /\ behind' = (op # None)
    /\ UNCHANGED <<file, passwd, op, asked, told, doubt>>

Stop ==
    /\ broker # None
    /\ broker' = None
    /\ UNCHANGED <<file, passwd, op, asked, told, behind, doubt>>

Next ==
    \/ \E l \in Requests : WriteListener(l)
    \/ TrialPasses
    \/ TrialFails
    \/ Restart
    \/ RestartFails
    \/ \E u \in Users : removeUser(u) \/ \E p \in Passwords : setUser(u, p)
    \/ SetUserFails
    \/ AppendPasswordFile
    \/ Reload
    \/ Killed
    \/ Start
    \/ Stop

Spec == Init /\ [][Next]_vars

--------------------------------------------------------------------------------
(* Between helpers the running broker lets in whom the files say, by       *)
(* password or without: every way of a helper to change who may log in     *)
(* ends in a reload, a restart or the old file, unless it was killed, it   *)
(* had no backup to put back, the restart or mosquitto_passwd failed, or   *)
(* the broker was started in between                                       *)
(* (mosquitto_configure.sh:42-48, 116-122, 137-141, 153-154).              *)
BrokerFollowsTheFiles ==
    op = None /\ broker # None /\ ~behind
    => /\ broker.users = UsersOf(file, passwd)
       /\ broker.anonymous = AnonymousOf(file)

(* The listener file is what the last command that answered ok asked for,  *)
(* "rolled back" (mosquitto.js:85) otherwise, unless the restart failed,   *)
(* the helper was killed, or it had no backup to put back.                 *)
ListenerIsAsAsked ==
    op = None /\ doubt = None /\ file # None
    => IF asked = None THEN file.anonymous = "unset" /\ file.port = None
       ELSE /\ file.port = asked.port /\ file.tls = asked.tls
            /\ file.anonymous = asked.anonymous

(* Whoever was added, or given another password, with the answer ok can    *)
(* log in with it as long as the broker runs, until the next change of the *)
(* same user begins: no other command, whether it succeeds, is rejected,   *)
(* put back or killed at any point, and no start of the broker in the      *)
(* middle of one, locks the user out                                       *)
(* (mosquitto_configure.sh:99-102, 127-142, actions/mosquitto.js:143-149). *)
LogsIn(u, p) == IF broker.users = None THEN broker.anonymous = "yes" ELSE broker.users[u] = p

UsersCanLogIn ==
    broker # None => \A u \in Users : told[u] # None => LogsIn(u, told[u])
================================================================================
