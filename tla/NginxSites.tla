------------------------------- MODULE NginxSites -------------------------------
(***************************************************************************)
(* backend/scripts/nginx_configure.sh: the root helper that creates,       *)
(* edits, restores and disables NGINX sites, with the shared backup_file,  *)
(* restore_backup and atomic_write of lib/common.sh.                       *)
(*                                                                         *)
(* A script is a sequence of commands on the disk, and can be killed       *)
(* between any two of them.  The apply queue starts one script at a time   *)
(* (see ActionQueue).  `apply' and `setraw' differ only in where the new   *)
(* content comes from, and are one operation here.                         *)
(*                                                                         *)
(* NGINX itself, from how the script uses it: `nginx -t' accepts a set of  *)
(* enabled sites unless one of them has a bad configuration or none at     *)
(* all; a reload makes it serve what is on the disk.                       *)
(***************************************************************************)
EXTENDS Naturals

CONSTANTS
    Sites,
    Contents,
    Bad,            \* contents `nginx -t' rejects
    Absent,         \* no such file
    Seconds         \* the bound on the clock: backups are named by the second

ASSUME SiteConstants ==
    /\ Bad \subseteq Contents
    /\ Absent \notin Contents
    /\ Seconds \in Nat \ {0}

VARIABLES
    available,  \* available[s]: sites-available/<s>
    enabled,    \* sites with a link in sites-enabled
    backups,    \* backups[s][t]: sites-available/<s>.bak.<t>
    running,    \* running[s]: what NGINX serves for s, Absent for nothing
    clock,      \* the current second
    script,     \* the script running, or the last one that ran
    before      \* history: available and enabled when that script started,
                \*   and, while it runs, whether the one before was cut off

vars == <<available, enabled, backups, running, clock, script, before>>
files == <<available, enabled, backups>>

Clock == 1 .. Seconds
NoBackup == 0
Stages == {"backup", "write", "link", "test", "undoFile", "undoLink",
           "testRemoved", "relink", "reload",
           "ok", "failed", "notReloaded", "killed"}

(* from: the backup a restore reads, NoBackup for other operations;        *)
(* asked: the content the site should get; backup and linkExisted: the     *)
(* script's variables of that name; copied: whether backup has what it     *)
(* should (history).                                                       *)
Script == [site : Sites, from : Clock \cup {NoBackup}, asked : Contents \cup {Absent},
           stage : Stages, backup : Clock \cup {NoBackup}, copied : BOOLEAN, linkExisted : BOOLEAN]

TypeOK ==
    /\ available \in [Sites -> Contents \cup {Absent}]
    /\ enabled \subseteq Sites
    /\ backups \in [Sites -> [Clock -> Contents \cup {Absent}]]
    /\ running \in [Sites -> Contents \cup {Absent}]
    /\ clock \in Clock
    /\ script \in Script
    /\ before \in [available : [Sites -> Contents \cup {Absent}], enabled : SUBSET Sites,
                  cut : BOOLEAN]

(* notReloaded: the script ended because systemctl failed; a rollback that *)
(* has no copy of the file does not put it back.                           *)
Cut ==
    \/ script.stage \in {"notReloaded", "killed"}
    \/ script.stage = "failed" /\ ~script.copied

Over == script.stage \in {"ok", "failed", "notReloaded", "killed"}

(* What `nginx -t' accepts, and what NGINX serves after a reload.          *)
Sound == \A s \in enabled : available[s] \in Contents \ Bad
Loaded == [s \in Sites |-> IF s \in enabled THEN available[s] ELSE Absent]

(* The machine as it is found, sites made by hand included; NGINX is down  *)
(* if it could not start.                                                  *)
Init ==
    /\ available \in [Sites -> Contents \cup {Absent}]
    /\ enabled \in SUBSET Sites
    /\ backups = [s \in Sites |-> [t \in Clock |-> Absent]]
    /\ running = IF Sound THEN Loaded ELSE [s \in Sites |-> Absent]
    /\ clock = 1
    /\ \E s \in Sites : script = [site |-> s, from |-> NoBackup, asked |-> Absent, stage |-> "ok",
                                  backup |-> NoBackup, copied |-> TRUE, linkExisted |-> FALSE]
    /\ before = [available |-> available, enabled |-> enabled, cut |-> FALSE]

(* Only backup_file reads the clock, so it may stand still in the rest of  *)
(* a script.                                                               *)
Tick ==
    /\ clock < Seconds
    /\ Over \/ script.stage = "backup"
    /\ clock' = clock + 1
    /\ UNCHANGED <<files, running, script, before>>

--------------------------------------------------------------------------------
Start(s, from, asked, stage) ==
    /\ Over
    /\ script' = [site |-> s, from |-> from, asked |-> asked, stage |-> stage,
                  backup |-> NoBackup, copied |-> TRUE, linkExisted |-> FALSE]
    /\ before' = [available |-> available, enabled |-> enabled, cut |-> Cut]
    /\ UNCHANGED <<running, clock>>

(* apply <name> ..., setraw <name>                                         *)
StartSet(s, c) ==
    /\ Start(s, NoBackup, c, "backup")
    /\ UNCHANGED files

(* restore <name> <backup>, of a backup that exists                        *)
StartRestore(s, t) ==
    /\ backups[s][t] # Absent
    /\ Start(s, t, backups[s][t], "backup")
    /\ UNCHANGED files

(* remove <name>: rm of the link, if there is one                          *)
StartRemove(s) ==
    /\ Start(s, NoBackup, Absent, IF s \in enabled THEN "testRemoved" ELSE "ok")
    /\ enabled' = enabled \ {s}
    /\ UNCHANGED <<available, backups>>

GoTo(stage) == script' = [script EXCEPT !.stage = stage]

(* The end of a script and of its variables; what a success was asked for  *)
(* and its backup are kept as history.                                     *)
Ends(stage) ==
    /\ script' = IF stage = "ok" THEN [script EXCEPT !.stage = stage, !.linkExisted = FALSE]
                 ELSE [site |-> script.site, from |-> NoBackup, asked |-> Absent, stage |-> stage,
                       backup |-> NoBackup, copied |-> script.copied, linkExisted |-> FALSE]
    /\ before' = [before EXCEPT !.cut = FALSE]

(* backup_file, and the test whether the link exists                       *)
BackUpForgotten ==
    LET s == script.site IN
    /\ script.stage = "backup"
    /\ script' = [script EXCEPT !.stage = "write", !.linkExisted = s \in enabled]
    /\ UNCHANGED <<files, running, clock, before>>

BackUp ==
    LET s == script.site IN
    /\ script.stage = "backup"
    /\ IF available[s] = Absent
       THEN /\ UNCHANGED backups
            /\ script' = [script EXCEPT !.stage = "write", !.linkExisted = s \in enabled]
       ELSE /\ backups' = [backups EXCEPT ![s][clock] = available[s]]
            /\ script' = [script EXCEPT !.stage = "write", !.linkExisted = s \in enabled,
                                        !.backup = clock]
    /\ UNCHANGED <<available, enabled, running, clock, before>>

(* ... cp fails: the script goes on with the name of a backup that is not  *)
(* there, or has what it had, because bash clears set -e in a command      *)
(* substitution.                                                           *)
BackUpFails ==
    LET s == script.site IN
    /\ script.stage = "backup" /\ available[s] # Absent
    /\ script' = [script EXCEPT !.stage = "write", !.linkExisted = s \in enabled,
                                !.backup = clock, !.copied = FALSE]
    /\ UNCHANGED <<files, running, clock, before>>

(* atomic_write; a restore reads its backup only now                       *)
WriteFromOwnBackup ==
    LET s == script.site IN
    /\ script.stage = "write"
    /\ available' = [available EXCEPT
          ![s] = IF script.from = NoBackup \/ script.backup = NoBackup
                 THEN script.asked ELSE backups[s][script.backup]]
    /\ GoTo("link")
    /\ UNCHANGED <<enabled, backups, running, clock, before>>

Write ==
    LET s == script.site IN
    /\ script.stage = "write"
    /\ available' = [available EXCEPT
          ![s] = IF script.from = NoBackup THEN script.asked ELSE backups[s][script.from]]
    /\ GoTo("link")
    /\ UNCHANGED <<enabled, backups, running, clock, before>>

Link ==
    /\ script.stage = "link"
    /\ enabled' = enabled \cup {script.site}
    /\ GoTo("test")
    /\ UNCHANGED <<available, backups, running, clock, before>>

(* validate_and_activate: nginx -t                                         *)
TestUnchecked ==
    /\ script.stage = "test"
    /\ GoTo("reload")
    /\ UNCHANGED <<files, running, clock, before>>

Test ==
    /\ script.stage = "test"
    /\ GoTo(IF Sound THEN "reload" ELSE "undoFile")
    /\ UNCHANGED <<files, running, clock, before>>

(* ... restore_backup, if the backup is there, or rm -f of a file that was *)
(* not                                                                     *)
UndoFile ==
    LET s == script.site IN
    /\ script.stage = "undoFile"
    /\ available' = [available EXCEPT
          ![s] = IF script.backup = NoBackup THEN Absent
                 ELSE IF backups[s][script.backup] = Absent THEN @
                 ELSE backups[s][script.backup]]
    /\ GoTo("undoLink")
    /\ UNCHANGED <<enabled, backups, running, clock, before>>

(* ... and rm -f of a link that was not there                              *)
UndoLink ==
    /\ script.stage = "undoLink"
    /\ enabled' = IF script.linkExisted THEN enabled ELSE enabled \ {script.site}
    /\ Ends("failed")
    /\ UNCHANGED <<available, backups, running, clock>>

(* remove: nginx -t without the site, and the link back if it fails        *)
TestRemoved ==
    /\ script.stage = "testRemoved"
    /\ GoTo(IF Sound THEN "reload" ELSE "relink")
    /\ UNCHANGED <<files, running, clock, before>>

Relink ==
    /\ script.stage = "relink"
    /\ enabled' = enabled \cup {script.site}
    /\ Ends("failed")
    /\ UNCHANGED <<available, backups, running, clock>>

(* reload_or_start_nginx                                                   *)
ReloadOrStart ==
    /\ script.stage = "reload"
    /\ running' = Loaded
    /\ Ends("ok")
    /\ UNCHANGED <<files, clock>>

(* systemctl fails: `set -e' ends the script, and nothing is put back      *)
ReloadDoesNotWork ==
    /\ script.stage = "reload"
    /\ Ends("notReloaded")
    /\ UNCHANGED <<files, running, clock>>

(* A time limit or a restart of the backend kills the script, or a command *)
(* fails and set -e ends it.                                               *)
Kill ==
    /\ ~Over
    /\ Ends("killed")
    /\ UNCHANGED <<files, running, clock>>

Next ==
    \/ Tick
    \/ \E s \in Sites, c \in Contents : StartSet(s, c)
    \/ \E s \in Sites, t \in Clock : StartRestore(s, t)
    \/ \E s \in Sites : StartRemove(s)
    \/ BackUp
    \/ BackUpFails
    \/ Write
    \/ Link
    \/ Test
    \/ UndoFile
    \/ UndoLink
    \/ TestRemoved
    \/ Relink
    \/ ReloadOrStart
    \/ ReloadDoesNotWork
    \/ Kill

Spec == Init /\ [][Next]_vars

--------------------------------------------------------------------------------
(* When a script reports that NGINX rejects the result, the files are as   *)
(* they were before it, also those of a site that was new or was served    *)
(* from a link made by hand, unless no copy of the file could be made      *)
(* (nginx_configure.sh:49-71, 172-179).                                    *)
FailureIsRolledBack ==
    script.stage = "failed" /\ script.copied =>
        /\ available = before.available
        /\ enabled = before.enabled

(* Wherever a script is killed, the configuration it was about to replace  *)
(* is still on the disk, under its own name or as a backup, unless no copy *)
(* could be made (common.sh:16-27, 41-50), and no other site has changed.  *)
NothingIsLost ==
    /\ LET s == script.site
           old == before.available[s]
       IN  \/ old = Absent \/ available[s] = old
           \/ ~script.copied
           \/ \E t \in Clock : backups[s][t] = old
    /\ \A s \in Sites \ {script.site} :
          available[s] = before.available[s] /\ (s \in enabled <=> s \in before.enabled)

(* NGINX never serves a configuration that `nginx -t' has not passed,      *)
(* whatever was left behind by scripts that were killed or could not       *)
(* reload (nginx_configure.sh:20-21).                                      *)
OnlySoundIsServed == \A s \in Sites : running[s] \notin Bad

(* A restore that reports success has put back what the backup held when   *)
(* it was chosen, unless its own backup took the name of that one: none of *)
(* the backups made since, nor an earlier script that was killed, have     *)
(* touched it (common.sh:16-27, nginx_configure.sh:294-312).               *)
RestoreBringsBack ==
    script.stage = "ok" /\ script.from # NoBackup /\ script.backup # script.from
        => available[script.site] = script.asked

(* The files count as changed once NGINX has been reloaded.                *)
Transactions ==
    INSTANCE SiteTransactions
        WITH file <- IF Over THEN available ELSE before.available,
             on <- IF Over THEN enabled ELSE before.enabled,
             cut <- IF Over THEN Cut ELSE before.cut,
             live <- running

(* Every change of a site happens as a whole and is live, or has not       *)
(* happened, or was cut off or could not be undone, which leaves what      *)
(* NGINX serves alone.                                                     *)
ImplementsSiteTransactions == Transactions!Spec
================================================================================
