--------------------------- MODULE NginxSitesProofs ----------------------------
(***************************************************************************)
(* Proofs about the NGINX helper, for any sites, contents and clock.       *)
(***************************************************************************)
EXTENDS NginxSites, TLAPS

Own == script.site
In(stages) == script.stage \in stages

(* The rest of the disk is as the script found it.                         *)
OthersUntouched ==
    \A x \in Sites \ {Own} :
        available[x] = before.available[x] /\ (x \in enabled <=> x \in before.enabled)

(* How far the file and the link of its own site are                       *)
FileSoFar ==
    /\ In({"backup", "write", "testRemoved", "relink"})
       => available[Own] = before.available[Own]
    /\ In({"link", "test", "undoFile"}) => available[Own] \in Contents
    /\ In({"undoLink", "failed"})
       => IF script.copied THEN available[Own] = before.available[Own] ELSE available[Own] \in Contents

LinkSoFar ==
    /\ In({"backup", "write", "link", "failed"}) => (Own \in enabled <=> Own \in before.enabled)
    /\ In({"test", "undoFile", "undoLink"}) => Own \in enabled
    /\ In({"testRemoved", "relink"}) => Own \notin enabled /\ Own \in before.enabled

(* What the script needs to undo its work                                  *)
Saved ==
    IF before.available[Own] = Absent
    THEN script.backup = NoBackup /\ script.copied
    ELSE /\ script.backup \in Clock
         /\ script.copied => backups[Own][script.backup] = before.available[Own]

KnowsNothing ==
    /\ In({"backup"}) => script.backup = NoBackup
    /\ In({"backup", "testRemoved", "relink"}) => script.copied

CanUndo ==
    In({"write", "link", "test", "undoFile", "undoLink"})
    => Saved /\ (script.linkExisted <=> Own \in before.enabled)

(* Only a removal asks for no content, and only what was tested is loaded. *)
Asked ==
    /\ In({"testRemoved", "relink"}) => script.asked = Absent /\ script.from = NoBackup
    /\ In({"backup", "write", "link", "test", "undoFile", "undoLink"}) => script.asked # Absent

ReadyToLoad ==
    In({"reload"}) =>
        /\ Sound
        /\ script.asked = Absent => Own \notin enabled /\ available[Own] = before.available[Own]
        /\ script.asked # Absent => Own \in enabled /\ available[Own] \in Contents

(* The backup that a restore was asked for, and what it has made of it     *)
RestoreSource ==
    script.from # NoBackup =>
        /\ In({"backup", "write"}) => backups[Own][script.from] \in Contents
        /\ In({"backup"}) => backups[Own][script.from] = script.asked
        /\ In({"write"}) /\ script.backup # script.from
           => backups[Own][script.from] = script.asked
        /\ In({"link", "test", "reload", "ok"}) /\ script.backup # script.from
           => available[Own] = script.asked

IInv ==
    /\ TypeOK
    /\ OthersUntouched
    /\ FileSoFar
    /\ LinkSoFar
    /\ KnowsNothing
    /\ CanUndo
    /\ Asked
    /\ ReadyToLoad
    /\ RestoreSource
    /\ NothingIsLost
    /\ OnlySoundIsServed

--------------------------------------------------------------------------------
LEMMA ScriptFields ==
    ASSUME script \in Script
    PROVE  /\ Own \in Sites /\ script.stage \in Stages /\ script.linkExisted \in BOOLEAN
           /\ script.copied \in BOOLEAN
           /\ script.from \in Clock \cup {NoBackup} /\ script.backup \in Clock \cup {NoBackup}
           /\ script.asked \in Contents \cup {Absent}
  BY DEF Script, Own

LEMMA NoBackupIsNone == NoBackup \notin Clock
  BY DEF NoBackup, Clock

LEMMA GoToFields ==
    ASSUME script \in Script, NEW stage \in Stages, GoTo(stage)
    PROVE  /\ script' \in Script /\ script'.stage = stage /\ Own' = Own
           /\ script'.site = script.site /\ script'.from = script.from
           /\ script'.asked = script.asked /\ script'.backup = script.backup
           /\ script'.linkExisted = script.linkExisted /\ script'.copied = script.copied
  BY DEF Script, GoTo, Own

LEMMA EndsFields ==
    ASSUME TypeOK, NEW stage \in {"ok", "failed", "notReloaded", "killed"}, Ends(stage)
    PROVE  /\ script' \in Script /\ script'.stage = stage /\ Own' = Own
           /\ script'.site = script.site /\ script'.copied = script.copied
           /\ stage = "ok" => /\ script'.from = script.from /\ script'.asked = script.asked
                              /\ script'.backup = script.backup
           /\ stage # "ok" => script'.from = NoBackup
           /\ before' \in [available : [Sites -> Contents \cup {Absent}], enabled : SUBSET Sites,
                           cut : BOOLEAN]
           /\ before'.available = before.available /\ before'.enabled = before.enabled
  <1>1. /\ before' \in [available : [Sites -> Contents \cup {Absent}], enabled : SUBSET Sites,
                        cut : BOOLEAN]
        /\ before'.available = before.available /\ before'.enabled = before.enabled
    BY DEF Ends, TypeOK
  <1>2. CASE stage = "ok"
    BY <1>1, <1>2 DEF Ends, TypeOK, Script, Stages, Own
  <1>3. CASE stage # "ok"
    BY <1>1, <1>3 DEF Ends, TypeOK, Script, Stages, Own
  <1> QED  BY <1>2, <1>3

(* A script that begins finds everything as it is and knows nothing.       *)
LEMMA StartFields ==
    ASSUME NEW s \in Sites, NEW from \in Clock \cup {NoBackup}, NEW asked \in Contents \cup {Absent},
           NEW stage \in Stages, Start(s, from, asked, stage), TypeOK
    PROVE  /\ script' \in Script /\ script'.stage = stage /\ Own' = s
           /\ script'.from = from /\ script'.asked = asked
           /\ script'.backup = NoBackup /\ script'.linkExisted = FALSE /\ script'.copied
           /\ before'.available = available /\ before'.enabled = enabled /\ before'.cut = Cut
           /\ running' = running /\ clock' = clock
           /\ before' \in [available : [Sites -> Contents \cup {Absent}], enabled : SUBSET Sites,
                           cut : BOOLEAN]
  <1>1. Cut \in BOOLEAN
    BY DEF Cut
  <1> QED  BY <1>1 DEF Start, Script, Own, TypeOK

LEMMA NothingLostYet ==
    ASSUME available[Own] = before.available[Own], OthersUntouched
    PROVE  NothingIsLost
  BY DEF NothingIsLost, OthersUntouched, Own

LEMMA SavedIsKept ==
    ASSUME Saved, OthersUntouched
    PROVE  NothingIsLost
  BY DEF NothingIsLost, OthersUntouched, Saved, Own

--------------------------------------------------------------------------------
LEMMA TickKeeps ==
    ASSUME IInv, Tick
    PROVE  IInv'
  <1>1. TypeOK'
    BY SiteConstants DEF IInv, Tick, TypeOK, files, Clock
  <1> QED
    BY <1>1 DEF IInv, Tick, files, OthersUntouched, FileSoFar, LinkSoFar, KnowsNothing,
                CanUndo, Saved, Asked, ReadyToLoad, RestoreSource, NothingIsLost, OnlySoundIsServed, In, Own, Sound

LEMMA StartSetKeeps ==
    ASSUME IInv, NEW s \in Sites, NEW c \in Contents, StartSet(s, c)
    PROVE  IInv'
  <1>1. TypeOK
    BY DEF IInv
  <1>2. /\ script' \in Script /\ script'.stage = "backup" /\ Own' = s
        /\ script'.from = NoBackup /\ script'.asked = c /\ script'.backup = NoBackup
        /\ script'.copied
        /\ before'.available = available /\ before'.enabled = enabled
        /\ running' = running /\ clock' = clock
        /\ before' \in [available : [Sites -> Contents \cup {Absent}], enabled : SUBSET Sites,
                        cut : BOOLEAN]
    BY <1>1, StartFields DEF StartSet, Stages
  <1>3. UNCHANGED <<available, enabled, backups>>
    BY DEF StartSet, files
  <1>4. TypeOK'
    BY <1>1, <1>2, <1>3 DEF TypeOK
  <1>5. OthersUntouched' /\ FileSoFar' /\ LinkSoFar' /\ KnowsNothing' /\ CanUndo'
        /\ ReadyToLoad' /\ RestoreSource'
    BY <1>2, <1>3 DEF OthersUntouched, FileSoFar, LinkSoFar, KnowsNothing, CanUndo, ReadyToLoad, RestoreSource, In
  <1>6. Asked'
    BY <1>2, SiteConstants DEF Asked, In
  <1>7. NothingIsLost' /\ OnlySoundIsServed'
    BY <1>2, <1>3 DEF IInv, NothingIsLost, OnlySoundIsServed, Own
  <1> QED  BY <1>4, <1>5, <1>6, <1>7 DEF IInv

LEMMA StartRestoreKeeps ==
    ASSUME IInv, NEW s \in Sites, NEW t \in Clock, StartRestore(s, t)
    PROVE  IInv'
  <1>1. TypeOK /\ backups[s][t] \in Contents
    BY DEF IInv, StartRestore, TypeOK
  <1>2. /\ script' \in Script /\ script'.stage = "backup" /\ Own' = s
        /\ script'.from = t /\ script'.asked = backups[s][t] /\ script'.backup = NoBackup
        /\ script'.copied
        /\ before'.available = available /\ before'.enabled = enabled
        /\ running' = running /\ clock' = clock
        /\ before' \in [available : [Sites -> Contents \cup {Absent}], enabled : SUBSET Sites,
                        cut : BOOLEAN]
    <2>1. /\ Start(s, t, backups[s][t], "backup") /\ "backup" \in Stages
          /\ t \in Clock \cup {NoBackup} /\ backups[s][t] \in Contents \cup {Absent}
      BY <1>1 DEF StartRestore, Stages
    <2> QED  BY <1>1, <2>1, StartFields
  <1>3. UNCHANGED <<available, enabled, backups>>
    BY DEF StartRestore, files
  <1>4. TypeOK'
    BY <1>1, <1>2, <1>3 DEF TypeOK
  <1>5. OthersUntouched' /\ FileSoFar' /\ LinkSoFar' /\ KnowsNothing' /\ CanUndo'
        /\ ReadyToLoad'
    BY <1>2, <1>3 DEF OthersUntouched, FileSoFar, LinkSoFar, KnowsNothing, CanUndo, ReadyToLoad, In
  <1>6. Asked'
    BY <1>1, <1>2, SiteConstants DEF Asked, In
  <1>7. RestoreSource'
    BY <1>1, <1>2, <1>3 DEF RestoreSource, In
  <1>8. NothingIsLost' /\ OnlySoundIsServed'
    BY <1>2, <1>3 DEF IInv, NothingIsLost, OnlySoundIsServed, Own
  <1> QED  BY <1>4, <1>5, <1>6, <1>7, <1>8 DEF IInv

LEMMA StartRemoveKeeps ==
    ASSUME IInv, NEW s \in Sites, StartRemove(s)
    PROVE  IInv'
  <1>1. TypeOK
    BY DEF IInv
  <1>2. /\ script' \in Script /\ Own' = s
        /\ script'.stage = IF s \in enabled THEN "testRemoved" ELSE "ok"
        /\ script'.from = NoBackup /\ script'.asked = Absent /\ script'.copied
        /\ before'.available = available /\ before'.enabled = enabled
        /\ running' = running /\ clock' = clock
        /\ before' \in [available : [Sites -> Contents \cup {Absent}], enabled : SUBSET Sites,
                        cut : BOOLEAN]
    BY <1>1, StartFields DEF StartRemove, Stages
  <1>3. UNCHANGED <<available, backups>> /\ enabled' = enabled \ {s}
    BY DEF StartRemove
  <1>4. TypeOK'
    BY <1>1, <1>2, <1>3 DEF TypeOK
  <1>5. OthersUntouched' /\ FileSoFar' /\ LinkSoFar' /\ KnowsNothing' /\ CanUndo'
        /\ ReadyToLoad' /\ RestoreSource'
        /\ Asked'
    BY <1>2, <1>3
    DEF OthersUntouched, FileSoFar, LinkSoFar, KnowsNothing, CanUndo, ReadyToLoad, RestoreSource, Asked, In
  <1>6. NothingIsLost' /\ OnlySoundIsServed'
    BY <1>2, <1>3 DEF IInv, NothingIsLost, OnlySoundIsServed, Own
  <1> QED  BY <1>4, <1>5, <1>6 DEF IInv

LEMMA BackUpKeeps ==
    ASSUME IInv, BackUp
    PROVE  IInv'
  <1>1. TypeOK /\ Own \in Sites /\ clock \in Clock /\ In({"backup"})
    BY ScriptFields DEF IInv, TypeOK, BackUp, In
  <1>2. UNCHANGED <<available, enabled, running, clock, before>>
    BY DEF BackUp
  <1>3. /\ script' \in Script /\ script'.stage = "write" /\ Own' = Own /\ script'.from = script.from
        /\ script'.asked = script.asked /\ (script'.linkExisted <=> Own \in enabled)
        /\ script'.backup = IF available[Own] = Absent THEN script.backup ELSE clock
        /\ script'.copied = script.copied
    <2> DEFINE existed == Own \in enabled
    <2>1. existed \in BOOLEAN
      OBVIOUS
    <2>2. script' = [script EXCEPT !.stage = "write", !.linkExisted = existed,
                                   !.backup = IF available[Own] = Absent THEN script.backup ELSE clock]
      BY <1>1 DEF BackUp, Own, TypeOK, Script
    <2>3. script \in Script /\ "write" \in Stages
      BY <1>1 DEF TypeOK, Stages
    <2> HIDE DEF existed
    <2>4. /\ script' \in Script /\ script'.stage = "write" /\ Own' = Own
          /\ script'.from = script.from /\ script'.asked = script.asked
          /\ script'.linkExisted = existed /\ script'.copied = script.copied
          /\ script'.backup = IF available[Own] = Absent THEN script.backup ELSE clock
      BY <1>1, <2>1, <2>2, <2>3 DEF Script, Own
    <2> QED  BY <2>4 DEF existed
  <1>4. backups' = IF available[Own] = Absent THEN backups
                   ELSE [backups EXCEPT ![Own][clock] = available[Own]]
    BY DEF BackUp, Own
  <1>5. available[Own] = before.available[Own] /\ available[Own] \in Contents \cup {Absent}
    BY <1>1 DEF IInv, FileSoFar, In, TypeOK
  <1>6. /\ backups' \in [Sites -> [Clock -> Contents \cup {Absent}]]
        /\ \A t \in Clock : backups'[Own][t] = IF available[Own] # Absent /\ t = clock
                                               THEN available[Own] ELSE backups[Own][t]
    BY <1>1, <1>4, <1>5 DEF TypeOK
  <1>7. TypeOK'
    BY <1>1, <1>2, <1>3, <1>6 DEF TypeOK
  <1>8. script.from = NoBackup \/ /\ script.from \in Clock /\ script.backup = NoBackup
                                  /\ backups[Own][script.from] = script.asked
                                  /\ backups[Own][script.from] \in Contents
    BY <1>1, ScriptFields DEF IInv, KnowsNothing, RestoreSource, In, TypeOK
  <1>9. RestoreSource'
    BY <1>1, <1>3, <1>5, <1>6, <1>8, NoBackupIsNone DEF RestoreSource, In
  <1>10. OthersUntouched' /\ FileSoFar' /\ LinkSoFar' /\ Asked' /\ ReadyToLoad' /\ OnlySoundIsServed'
    BY <1>1, <1>2, <1>3, <1>5
    DEF IInv, OthersUntouched, FileSoFar, LinkSoFar, Asked, ReadyToLoad, OnlySoundIsServed, In
  <1>11. script.backup = NoBackup /\ script.copied
    BY <1>1 DEF IInv, KnowsNothing, In
  <1>12. CanUndo'
    BY <1>1, <1>2, <1>3, <1>5, <1>6, <1>11 DEF IInv, LinkSoFar, CanUndo, Saved, In
  <1>13. NothingIsLost'
    BY <1>2, <1>3, <1>5, <1>10, NothingLostYet DEF NothingIsLost, OthersUntouched, Own
  <1> QED  BY <1>7, <1>9, <1>10, <1>12, <1>13, <1>3 DEF IInv, KnowsNothing, In

LEMMA BackUpFailsKeeps ==
    ASSUME IInv, BackUpFails
    PROVE  IInv'
  <1>1. TypeOK /\ Own \in Sites /\ clock \in Clock /\ In({"backup"}) /\ available[Own] # Absent
    BY ScriptFields DEF IInv, TypeOK, BackUpFails, In, Own
  <1>2. UNCHANGED <<available, enabled, backups, running, clock, before>>
    BY DEF BackUpFails, files
  <1>3. /\ script' \in Script /\ script'.stage = "write" /\ Own' = Own /\ script'.from = script.from
        /\ script'.asked = script.asked /\ (script'.linkExisted <=> Own \in enabled)
        /\ script'.backup = clock /\ script'.copied = FALSE
    <2> DEFINE existed == Own \in enabled
    <2>1. existed \in BOOLEAN
      OBVIOUS
    <2>2. script' = [script EXCEPT !.stage = "write", !.linkExisted = existed,
                                   !.backup = clock, !.copied = FALSE]
      BY <1>1 DEF BackUpFails, Own
    <2>3. script \in Script /\ "write" \in Stages
      BY <1>1 DEF TypeOK, Stages
    <2> HIDE DEF existed
    <2>4. /\ script' \in Script /\ script'.stage = "write" /\ Own' = Own
          /\ script'.from = script.from /\ script'.asked = script.asked
          /\ script'.linkExisted = existed /\ script'.backup = clock /\ script'.copied = FALSE
      BY <1>1, <2>1, <2>2, <2>3 DEF Script, Own
    <2> QED  BY <2>4 DEF existed
  <1>4. TypeOK'
    BY <1>1, <1>2, <1>3 DEF TypeOK
  <1>5. available[Own] = before.available[Own]
    BY <1>1 DEF IInv, FileSoFar, In
  <1>6. RestoreSource'
    BY <1>1, <1>2, <1>3 DEF IInv, RestoreSource, In
  <1>7. OthersUntouched' /\ FileSoFar' /\ LinkSoFar' /\ Asked' /\ ReadyToLoad' /\ OnlySoundIsServed'
    BY <1>1, <1>2, <1>3, <1>5
    DEF IInv, OthersUntouched, FileSoFar, LinkSoFar, Asked, ReadyToLoad, OnlySoundIsServed, In
  <1>8. CanUndo'
    BY <1>1, <1>2, <1>3, <1>5 DEF IInv, LinkSoFar, CanUndo, Saved, In
  <1>9. NothingIsLost'
    BY <1>2, <1>3, <1>5, <1>7 DEF NothingIsLost, OthersUntouched, Own
  <1> QED  BY <1>3, <1>4, <1>6, <1>7, <1>8, <1>9 DEF IInv, KnowsNothing, In

LEMMA WriteKeeps ==
    ASSUME IInv, Write
    PROVE  IInv'
  <1>1. TypeOK /\ Own \in Sites /\ In({"write"}) /\ script \in Script
    BY ScriptFields DEF IInv, TypeOK, Write, In
  <1>2. UNCHANGED <<enabled, backups, running, clock, before>>
    BY DEF Write
  <1>3. /\ script' \in Script /\ script'.stage = "link" /\ Own' = Own
        /\ script'.from = script.from /\ script'.asked = script.asked
        /\ script'.backup = script.backup /\ script'.linkExisted = script.linkExisted
        /\ script'.copied = script.copied
    BY <1>1, GoToFields DEF Write, Stages
  <1> DEFINE new == IF script.from = NoBackup THEN script.asked ELSE backups[Own][script.from]
  <1>4. new \in Contents
    BY <1>1, ScriptFields DEF IInv, RestoreSource, Asked, In
  <1>5. available' = [available EXCEPT ![Own] = new]
    BY DEF Write, Own
  <1>6. script.from # NoBackup /\ script.backup # script.from => new = script.asked
    BY <1>1 DEF IInv, RestoreSource, In
  <1> HIDE DEF new
  <1>7. available'[Own] = new /\ \A x \in Sites \ {Own} : available'[x] = available[x]
    BY <1>1, <1>5 DEF TypeOK
  <1>8. TypeOK'
    BY <1>1, <1>2, <1>3, <1>4, <1>5 DEF TypeOK
  <1>9. /\ OthersUntouched' /\ FileSoFar' /\ LinkSoFar' /\ KnowsNothing' /\ Asked' /\ ReadyToLoad'
        /\ OnlySoundIsServed'
    BY <1>1, <1>2, <1>3, <1>4, <1>7
    DEF IInv, OthersUntouched, FileSoFar, LinkSoFar, KnowsNothing, Asked, ReadyToLoad,
        OnlySoundIsServed, In
  <1>10. Saved' /\ CanUndo'
    BY <1>1, <1>2, <1>3 DEF IInv, CanUndo, Saved, In
  <1>11. RestoreSource'
    BY <1>3, <1>6, <1>7 DEF RestoreSource, In
  <1>12. NothingIsLost'
    BY <1>3, <1>9, <1>10 DEF NothingIsLost, OthersUntouched, Saved, Own
  <1> QED  BY <1>8, <1>9, <1>10, <1>11, <1>12 DEF IInv

LEMMA LinkKeeps ==
    ASSUME IInv, Link
    PROVE  IInv'
  <1>1. TypeOK /\ Own \in Sites /\ In({"link"}) /\ script \in Script
    BY ScriptFields DEF IInv, TypeOK, Link, In
  <1>2. UNCHANGED <<available, backups, running, clock, before>> /\ enabled' = enabled \cup {Own}
    BY DEF Link, Own
  <1>3. /\ script' \in Script /\ script'.stage = "test" /\ Own' = Own
        /\ script'.from = script.from /\ script'.asked = script.asked
        /\ script'.backup = script.backup /\ script'.linkExisted = script.linkExisted
        /\ script'.copied = script.copied
    BY <1>1, GoToFields DEF Link, Stages
  <1>4. TypeOK'
    BY <1>1, <1>2, <1>3 DEF TypeOK
  <1>5. /\ OthersUntouched' /\ FileSoFar' /\ LinkSoFar' /\ KnowsNothing' /\ Asked' /\ ReadyToLoad'
        /\ OnlySoundIsServed' /\ RestoreSource'
    BY <1>1, <1>2, <1>3
    DEF IInv, OthersUntouched, FileSoFar, LinkSoFar, KnowsNothing, Asked, ReadyToLoad,
        OnlySoundIsServed, RestoreSource, In
  <1>6. CanUndo'
    BY <1>1, <1>2, <1>3 DEF IInv, CanUndo, Saved, In
  <1>7. NothingIsLost'
    BY <1>2, <1>3, <1>5 DEF IInv, NothingIsLost, OthersUntouched, Own
  <1> QED  BY <1>4, <1>5, <1>6, <1>7 DEF IInv

(* nginx -t decides, and nothing else changes.                             *)
LEMMA TestKeeps ==
    ASSUME IInv, Test \/ TestRemoved
    PROVE  IInv'
  <1>1. TypeOK /\ Own \in Sites /\ In({"test", "testRemoved"}) /\ script \in Script
    BY ScriptFields DEF IInv, TypeOK, Test, TestRemoved, In
  <1>2. UNCHANGED <<available, enabled, backups, running, clock, before>>
    BY DEF Test, TestRemoved, files
  <1> DEFINE next == IF Sound THEN "reload" ELSE IF script.stage = "test" THEN "undoFile" ELSE "relink"
  <1>3. GoTo(next) /\ next \in Stages
    BY DEF Test, TestRemoved, Stages
  <1>4. /\ script' \in Script /\ script'.stage = next /\ Own' = Own
        /\ script'.from = script.from /\ script'.asked = script.asked
        /\ script'.backup = script.backup /\ script'.linkExisted = script.linkExisted
        /\ script'.copied = script.copied
    <2> HIDE DEF next
    <2> QED  BY <1>1, <1>3, GoToFields
  <1>5. TypeOK'
    BY <1>1, <1>2, <1>4 DEF TypeOK
  <1>6. OthersUntouched' /\ FileSoFar' /\ LinkSoFar' /\ KnowsNothing' /\ Asked' /\ OnlySoundIsServed'
    BY <1>1, <1>2, <1>4
    DEF IInv, OthersUntouched, FileSoFar, LinkSoFar, KnowsNothing, Asked, OnlySoundIsServed, In
  <1>7. CanUndo' /\ RestoreSource'
    <2>1. CanUndo'
      BY <1>1, <1>2, <1>4 DEF IInv, CanUndo, Saved, In
    <2>2. RestoreSource'
      BY <1>1, <1>2, <1>4 DEF IInv, RestoreSource, Asked, In
    <2> QED  BY <2>1, <2>2
  <1>8. Sound' = Sound
    BY <1>2 DEF Sound
  <1>9. ReadyToLoad'
    BY <1>1, <1>2, <1>4, <1>8 DEF IInv, ReadyToLoad, FileSoFar, LinkSoFar, Asked, In
  <1>10. NothingIsLost'
    BY <1>2, <1>4 DEF IInv, NothingIsLost, Own
  <1> QED  BY <1>5, <1>6, <1>7, <1>9, <1>10 DEF IInv

LEMMA UndoFileKeeps ==
    ASSUME IInv, UndoFile
    PROVE  IInv'
  <1>1. TypeOK /\ Own \in Sites /\ In({"undoFile"}) /\ script \in Script
    BY ScriptFields DEF IInv, TypeOK, UndoFile, In
  <1>2. UNCHANGED <<enabled, backups, running, clock, before>>
    BY DEF UndoFile
  <1>3. /\ script' \in Script /\ script'.stage = "undoLink" /\ Own' = Own
        /\ script'.from = script.from /\ script'.asked = script.asked
        /\ script'.backup = script.backup /\ script'.linkExisted = script.linkExisted
        /\ script'.copied = script.copied
    BY <1>1, GoToFields DEF UndoFile, Stages
  <1> DEFINE old == IF script.backup = NoBackup THEN Absent
                    ELSE IF backups[Own][script.backup] = Absent THEN available[Own]
                    ELSE backups[Own][script.backup]
  <1>4. available' = [available EXCEPT ![Own] = old]
    BY DEF UndoFile, Own
  <1>5. IF script.copied THEN old = before.available[Own] ELSE old \in Contents
    <2>1. Saved /\ available[Own] \in Contents
      BY <1>1 DEF IInv, CanUndo, FileSoFar, In
    <2>2. CASE script.copied
      BY <2>1, <2>2, NoBackupIsNone DEF Saved
    <2>3. CASE ~script.copied
      <3>1. script.backup \in Clock
        BY <2>1, <2>3 DEF Saved
      <3> QED  BY <1>1, <2>1, <2>3, <3>1, NoBackupIsNone DEF TypeOK
    <2> QED  BY <2>2, <2>3
  <1>6. before.available[Own] \in Contents \cup {Absent} /\ old \in Contents \cup {Absent}
    BY <1>1, <1>5 DEF TypeOK
  <1> HIDE DEF old
  <1>7. TypeOK'
    BY <1>1, <1>2, <1>3, <1>4, <1>6 DEF TypeOK
  <1>11. available'[Own] = old /\ \A x \in Sites \ {Own} : available'[x] = available[x]
    BY <1>1, <1>4 DEF TypeOK
  <1>8. /\ OthersUntouched' /\ FileSoFar' /\ LinkSoFar' /\ KnowsNothing' /\ Asked' /\ ReadyToLoad'
        /\ OnlySoundIsServed' /\ RestoreSource'
    BY <1>1, <1>2, <1>3, <1>5, <1>11
    DEF IInv, OthersUntouched, FileSoFar, LinkSoFar, KnowsNothing, Asked, ReadyToLoad,
        OnlySoundIsServed, RestoreSource, In
  <1>9. CanUndo'
    BY <1>1, <1>2, <1>3 DEF IInv, CanUndo, Saved, In
  <1>10. NothingIsLost'
    BY <1>2, <1>3, <1>5, <1>8, <1>11 DEF NothingIsLost, OthersUntouched, Own
  <1> QED  BY <1>7, <1>8, <1>9, <1>10 DEF IInv

(* The link is put back as it was, after a rejected site or a rejected     *)
(* removal.                                                                *)
LEMMA UndoLinkKeeps ==
    ASSUME IInv, UndoLink \/ Relink
    PROVE  IInv'
  <1>1. TypeOK /\ Own \in Sites /\ In({"undoLink", "relink"}) /\ script \in Script
    BY ScriptFields DEF IInv, TypeOK, UndoLink, Relink, In
  <1>2. UNCHANGED <<available, backups, running, clock>>
    BY DEF UndoLink, Relink
  <1>3. /\ script' \in Script /\ script'.stage = "failed" /\ Own' = Own
        /\ script'.from = NoBackup /\ script'.copied = script.copied
        /\ before' \in [available : [Sites -> Contents \cup {Absent}], enabled : SUBSET Sites, cut : BOOLEAN]
        /\ before'.available = before.available /\ before'.enabled = before.enabled
    BY <1>1, EndsFields DEF UndoLink, Relink
  <1>4. /\ Own \in enabled' <=> Own \in before.enabled
        /\ \A x \in Sites \ {Own} : x \in enabled' <=> x \in enabled
        /\ enabled' \subseteq Sites
    BY <1>1 DEF IInv, UndoLink, Relink, CanUndo, LinkSoFar, In, Own, TypeOK
  <1>5. TypeOK'
    BY <1>1, <1>2, <1>3, <1>4 DEF TypeOK
  <1>6. /\ OthersUntouched' /\ FileSoFar' /\ LinkSoFar' /\ KnowsNothing' /\ Asked' /\ ReadyToLoad'
        /\ OnlySoundIsServed' /\ CanUndo' /\ RestoreSource'
    BY <1>1, <1>2, <1>3, <1>4
    DEF IInv, OthersUntouched, FileSoFar, LinkSoFar, KnowsNothing, Asked, ReadyToLoad,
        OnlySoundIsServed, CanUndo, RestoreSource, In
  <1>7. NothingIsLost'
    BY <1>2, <1>3, <1>6 DEF IInv, NothingIsLost, OthersUntouched, Own
  <1> QED  BY <1>5, <1>6, <1>7 DEF IInv

LEMMA ReloadKeeps ==
    ASSUME IInv, ReloadOrStart
    PROVE  IInv'
  <1>1. TypeOK /\ Own \in Sites /\ In({"reload"}) /\ script \in Script
    BY ScriptFields DEF IInv, TypeOK, ReloadOrStart, In
  <1>2. UNCHANGED <<available, enabled, backups, clock>> /\ running' = Loaded
    BY DEF ReloadOrStart, files
  <1>3. /\ script' \in Script /\ script'.stage = "ok" /\ Own' = Own
        /\ script'.from = script.from /\ script'.asked = script.asked
        /\ script'.backup = script.backup /\ script'.copied = script.copied
        /\ before' \in [available : [Sites -> Contents \cup {Absent}], enabled : SUBSET Sites, cut : BOOLEAN]
        /\ before'.available = before.available /\ before'.enabled = before.enabled
    BY <1>1, EndsFields DEF ReloadOrStart
  <1>4. running' \in [Sites -> Contents \cup {Absent}]
    BY <1>1, <1>2 DEF Loaded, TypeOK
  <1>5. TypeOK'
    BY <1>1, <1>2, <1>3, <1>4 DEF TypeOK
  <1>6. OnlySoundIsServed'
    <2>1. Sound
      BY <1>1 DEF IInv, ReadyToLoad, In
    <2> QED  BY <1>2, <2>1, SiteConstants DEF OnlySoundIsServed, Loaded, Sound
  <1>7. /\ OthersUntouched' /\ FileSoFar' /\ LinkSoFar' /\ KnowsNothing' /\ Asked' /\ ReadyToLoad'
        /\ CanUndo' /\ RestoreSource'
    BY <1>1, <1>2, <1>3
    DEF IInv, OthersUntouched, FileSoFar, LinkSoFar, KnowsNothing, Asked, ReadyToLoad,
        CanUndo, RestoreSource, In
  <1>8. NothingIsLost'
    BY <1>2, <1>3 DEF IInv, NothingIsLost, Own
  <1> QED  BY <1>5, <1>6, <1>7, <1>8 DEF IInv

LEMMA CutKeeps ==
    ASSUME IInv, ReloadDoesNotWork \/ Kill
    PROVE  IInv'
  <1>1. TypeOK /\ Own \in Sites /\ script \in Script
    BY ScriptFields DEF IInv, TypeOK
  <1>2. UNCHANGED <<available, enabled, backups, running, clock>>
    BY DEF ReloadDoesNotWork, Kill, files
  <1>3. /\ script' \in Script /\ script'.stage \in {"notReloaded", "killed"} /\ Own' = Own
        /\ script'.from = NoBackup /\ script'.copied = script.copied
        /\ before' \in [available : [Sites -> Contents \cup {Absent}], enabled : SUBSET Sites, cut : BOOLEAN]
        /\ before'.available = before.available /\ before'.enabled = before.enabled
    BY <1>1, EndsFields DEF ReloadDoesNotWork, Kill
  <1>4. TypeOK'
    BY <1>1, <1>2, <1>3 DEF TypeOK
  <1>5. /\ OthersUntouched' /\ FileSoFar' /\ LinkSoFar' /\ KnowsNothing' /\ Asked' /\ ReadyToLoad'
        /\ CanUndo' /\ RestoreSource' /\ OnlySoundIsServed'
    BY <1>2, <1>3
    DEF IInv, OthersUntouched, FileSoFar, LinkSoFar, KnowsNothing, Asked, ReadyToLoad,
        CanUndo, RestoreSource, OnlySoundIsServed, In
  <1>6. NothingIsLost'
    BY <1>2, <1>3 DEF IInv, NothingIsLost, Own
  <1> QED  BY <1>4, <1>5, <1>6 DEF IInv

--------------------------------------------------------------------------------
LEMMA InitHolds == Init => IInv
  <1> SUFFICES ASSUME Init PROVE IInv
    OBVIOUS
  <1>1. PICK s \in Sites : script = [site |-> s, from |-> NoBackup, asked |-> Absent, stage |-> "ok",
                                     backup |-> NoBackup, copied |-> TRUE, linkExisted |-> FALSE]
    BY DEF Init
  <1>2. script \in Script /\ Own = s /\ script.stage = "ok" /\ script.from = NoBackup
    BY <1>1 DEF Script, Stages, Own
  <1>3. /\ available \in [Sites -> Contents \cup {Absent}] /\ enabled \subseteq Sites
        /\ backups \in [Sites -> [Clock -> Contents \cup {Absent}]] /\ clock \in Clock
        /\ before = [available |-> available, enabled |-> enabled, cut |-> FALSE]
    BY SiteConstants DEF Init, Clock
  <1>4. running \in [Sites -> Contents \cup {Absent}] /\ OnlySoundIsServed
    BY <1>3, SiteConstants DEF Init, Loaded, Sound, OnlySoundIsServed
  <1>5. TypeOK
    BY <1>2, <1>3, <1>4 DEF TypeOK
  <1>6. /\ OthersUntouched /\ FileSoFar /\ LinkSoFar /\ KnowsNothing /\ CanUndo /\ Asked
        /\ ReadyToLoad /\ RestoreSource
    BY <1>2, <1>3
    DEF OthersUntouched, FileSoFar, LinkSoFar, KnowsNothing, CanUndo, Asked, ReadyToLoad,
        RestoreSource, In
  <1>7. NothingIsLost
    BY <1>3 DEF NothingIsLost
  <1> QED  BY <1>4, <1>5, <1>6, <1>7 DEF IInv

LEMMA StepHolds == IInv /\ [Next]_vars => IInv'
  <1> SUFFICES ASSUME IInv, [Next]_vars PROVE IInv'
    OBVIOUS
  <1>1. CASE UNCHANGED vars
    BY <1>1
    DEF vars, IInv, TypeOK, OthersUntouched, FileSoFar, LinkSoFar, KnowsNothing, CanUndo, Saved,
        Asked, ReadyToLoad, RestoreSource, NothingIsLost, OnlySoundIsServed, In, Own, Sound
  <1>2. CASE Next
    BY <1>2, TickKeeps, StartSetKeeps, StartRestoreKeeps, StartRemoveKeeps, BackUpKeeps, BackUpFailsKeeps, WriteKeeps,
       LinkKeeps, TestKeeps, UndoFileKeeps, UndoLinkKeeps, ReloadKeeps, CutKeeps
    DEF Next
  <1> QED  BY <1>1, <1>2

(* The conjunction of the named parts above is inductive.                  *)
THEOREM InvariantHolds == Spec => []IInv
  BY InitHolds, StepHolds, PTL DEF Spec

(* The disk, the server and the script keep their types.                   *)
THEOREM TypeCorrect == Spec => []TypeOK
  <1>1. IInv => TypeOK
    BY DEF IInv
  <1> QED  BY <1>1, InvariantHolds, PTL

(* A script that reports a rejected site has put back every file and link  *)
(* (nginx_configure.sh:49-71, 172-179).                                    *)
THEOREM FailuresAreRolledBack == Spec => []FailureIsRolledBack
  <1>1. IInv => FailureIsRolledBack
    <2> SUFFICES ASSUME IInv, script.stage = "failed", script.copied
                 PROVE  available = before.available /\ enabled = before.enabled
      BY DEF FailureIsRolledBack
    <2>1. /\ available \in [Sites -> Contents \cup {Absent}] /\ enabled \subseteq Sites
          /\ before.available \in [Sites -> Contents \cup {Absent}] /\ before.enabled \subseteq Sites
      BY DEF IInv, TypeOK
    <2>2. \A x \in Sites : available[x] = before.available[x] /\ (x \in enabled <=> x \in before.enabled)
      BY DEF IInv, OthersUntouched, FileSoFar, LinkSoFar, In
    <2> QED  BY <2>1, <2>2
  <1> QED  BY <1>1, InvariantHolds, PTL

(* A script that is killed anywhere leaves the old configuration on the    *)
(* disk and every other site alone (common.sh:16-27, 41-50).               *)
THEOREM KillsLoseNothing == Spec => []NothingIsLost
  <1>1. IInv => NothingIsLost
    BY DEF IInv
  <1> QED  BY <1>1, InvariantHolds, PTL

(* NGINX never serves what `nginx -t' rejects (nginx_configure.sh:20-21).  *)
THEOREM ServedIsSound == Spec => []OnlySoundIsServed
  <1>1. IInv => OnlySoundIsServed
    BY DEF IInv
  <1> QED  BY <1>1, InvariantHolds, PTL

(* A restore that succeeds brings back what its backup held, unless its    *)
(* own backup has the same name (nginx_configure.sh:294-312).              *)
THEOREM RestoresBringBack == Spec => []RestoreBringsBack
  <1>1. IInv => RestoreBringsBack
    BY DEF IInv, RestoreSource, RestoreBringsBack, In, Own
  <1> QED  BY <1>1, InvariantHolds, PTL

--------------------------------------------------------------------------------
(* The refinement.  While a script runs the abstract files are those it    *)
(* found; they change when it is over.                                     *)
AbsFile == IF Over THEN available ELSE before.available
AbsOn == IF Over THEN enabled ELSE before.enabled
AbsCut == IF Over THEN Cut ELSE before.cut

LEMMA InitRefines == Init => Transactions!Init
  <1> SUFFICES ASSUME Init PROVE Transactions!Init
    OBVIOUS
  <1>1. script.stage = "ok" /\ Over /\ Cut = FALSE
    BY DEF Init, Over, Cut
  <1> QED
    BY <1>1 DEF Init, Sound, Loaded, Transactions!Init, Transactions!Sound, Transactions!Loaded

(* What a script can have made of its own site and nothing else            *)
LEMMA OwnSiteOnly ==
    ASSUME IInv
    PROVE  /\ Own \in Sites
           /\ before.available \in [Sites -> Contents \cup {Absent}]
           /\ available = [before.available EXCEPT ![Own] = available[Own]]
           /\ enabled = IF Own \in enabled THEN before.enabled \cup {Own} ELSE before.enabled \ {Own}
  <1>1. /\ Own \in Sites
        /\ available \in [Sites -> Contents \cup {Absent}] /\ enabled \subseteq Sites
        /\ before.available \in [Sites -> Contents \cup {Absent}] /\ before.enabled \subseteq Sites
    BY ScriptFields DEF IInv, TypeOK
  <1>2. \A x \in Sites \ {Own} :
           available[x] = before.available[x] /\ (x \in enabled <=> x \in before.enabled)
    BY DEF IInv, OthersUntouched
  <1> QED  BY <1>1, <1>2

LEMMA StutterRefines ==
    ASSUME AbsFile' = AbsFile, AbsOn' = AbsOn, AbsCut' = AbsCut, running' = running
    PROVE  UNCHANGED Transactions!vars
  BY DEF Transactions!vars, AbsFile, AbsOn, AbsCut

LEMMA RefuseRefines ==
    ASSUME AbsFile' = AbsFile, AbsOn' = AbsOn, AbsCut' = FALSE, running' = running
    PROVE  Transactions!Next
  BY DEF Transactions!Next, Transactions!Refuse, AbsFile, AbsOn, AbsCut

LEMMA StartRefines ==
    ASSUME IInv, NEW s \in Sites, NEW from \in Clock \cup {NoBackup},
           NEW asked \in Contents \cup {Absent}, NEW stage \in {"backup", "testRemoved"},
           Start(s, from, asked, stage)
    PROVE  UNCHANGED Transactions!vars
  <1>1. /\ Over /\ script'.stage = stage /\ running' = running
        /\ before'.available = available /\ before'.enabled = enabled /\ before'.cut = Cut
    BY StartFields DEF IInv, Start, Stages
  <1>2. ~Over'
    BY <1>1 DEF Over, Cut
  <1> QED  BY <1>1, <1>2, StutterRefines DEF AbsFile, AbsOn, AbsCut

LEMMA ReloadRefines ==
    ASSUME IInv, ReloadOrStart
    PROVE  Transactions!Next
  <1>1. TypeOK /\ In({"reload"}) /\ script \in Script /\ ~Over
    BY DEF IInv, TypeOK, ReloadOrStart, In, Over, Cut
  <1>2. UNCHANGED <<available, enabled, backups, clock>> /\ running' = Loaded
    BY DEF ReloadOrStart, files
  <1>3. script'.stage = "ok"
    BY <1>1, EndsFields DEF ReloadOrStart
  <1>4. Over' /\ Cut' = FALSE
    BY <1>3 DEF Over, Cut
  <1>5. AbsFile' = available /\ AbsOn' = enabled /\ AbsCut' = FALSE
    BY <1>2, <1>4 DEF AbsFile, AbsOn, AbsCut
  <1>6. AbsFile = before.available /\ AbsOn = before.enabled
    BY <1>1 DEF AbsFile, AbsOn
  <1>7. /\ Own \in Sites
        /\ available = [before.available EXCEPT ![Own] = available[Own]]
        /\ enabled = IF Own \in enabled THEN before.enabled \cup {Own} ELSE before.enabled \ {Own}
        /\ before.available \in [Sites -> Contents \cup {Absent}]
    BY OwnSiteOnly
  <1>8. Transactions!GoLive
    BY <1>1, <1>2, <1>5
    DEF IInv, ReadyToLoad, In, Sound, Loaded, Transactions!GoLive, Transactions!Sound,
        Transactions!Loaded, AbsFile, AbsOn
  <1>9. CASE script.asked = Absent
    <2>1. Own \notin enabled /\ available[Own] = before.available[Own]
      BY <1>1, <1>9 DEF IInv, ReadyToLoad, In
    <2>2. AbsFile' = AbsFile /\ AbsOn' = AbsOn \ {Own}
      BY <1>5, <1>6, <1>7, <2>1
    <2>3. Transactions!TakeOff(Own)
      BY <1>5, <1>8, <2>2 DEF Transactions!TakeOff, AbsFile, AbsOn, AbsCut
    <2> QED  BY <1>7, <2>3 DEF Transactions!Next
  <1>10. CASE script.asked # Absent
    <2>1. Own \in enabled /\ available[Own] \in Contents
      BY <1>1, <1>10 DEF IInv, ReadyToLoad, In
    <2>2. AbsFile' = [AbsFile EXCEPT ![Own] = available[Own]] /\ AbsOn' = AbsOn \cup {Own}
      BY <1>5, <1>6, <1>7, <2>1
    <2>3. Transactions!Put(Own, available[Own])
      BY <1>5, <1>8, <2>2 DEF Transactions!Put, AbsFile, AbsOn, AbsCut
    <2> QED  BY <1>7, <2>1, <2>3 DEF Transactions!Next
  <1> QED  BY <1>9, <1>10

LEMMA CutRefines ==
    ASSUME IInv, ReloadDoesNotWork \/ Kill
    PROVE  Transactions!Next
  <1>1. TypeOK /\ script \in Script /\ ~Over
    BY DEF IInv, TypeOK, ReloadDoesNotWork, Kill, Over, Cut
  <1>2. UNCHANGED <<available, enabled, backups, running, clock>>
    BY DEF ReloadDoesNotWork, Kill, files
  <1>3. script'.stage \in {"notReloaded", "killed"}
    BY <1>1, EndsFields DEF ReloadDoesNotWork, Kill
  <1>4. Over' /\ Cut' = TRUE
    BY <1>3 DEF Over, Cut
  <1>5. AbsFile' = available /\ AbsOn' = enabled /\ AbsCut' = TRUE
    BY <1>2, <1>4 DEF AbsFile, AbsOn, AbsCut
  <1>6. AbsFile = before.available /\ AbsOn = before.enabled
    BY <1>1 DEF AbsFile, AbsOn
  <1>7. available[Own] \in Contents \cup {before.available[Own]}
    <2>1. script.stage \in Stages /\ ~(script.stage \in {"notReloaded", "killed", "ok", "failed"})
      BY <1>1, ScriptFields DEF Over, Cut
    <2> QED  BY <2>1 DEF IInv, FileSoFar, ReadyToLoad, In, Stages
  <1>8. /\ Own \in Sites
        /\ available = [before.available EXCEPT ![Own] = available[Own]]
        /\ enabled = IF Own \in enabled THEN before.enabled \cup {Own} ELSE before.enabled \ {Own}
    BY OwnSiteOnly
  <1>9. /\ AbsOn' \in {AbsOn, AbsOn \cup {Own}, AbsOn \ {Own}}
        /\ \E c \in Contents \cup {AbsFile[Own]} : AbsFile' = [AbsFile EXCEPT ![Own] = c]
    BY <1>5, <1>6, <1>7, <1>8
  <1>10. Transactions!CutOff(Own)
    BY <1>2, <1>5, <1>9 DEF Transactions!CutOff, AbsFile, AbsOn, AbsCut
  <1> QED  BY <1>8, <1>10 DEF Transactions!Next

(* The files after a rejected site or removal: as they were but for a file *)
(* of which there is no copy.                                              *)
LEMMA AfterUndo ==
    ASSUME IInv, UndoLink \/ Relink
    PROVE  /\ ~Over /\ Over' /\ Cut' = ~script.copied /\ running' = running /\ Own' = Own
           /\ script'.copied = script.copied /\ Own \in Sites
           /\ enabled' = before.enabled
           /\ available' = IF script.copied THEN before.available
                           ELSE [before.available EXCEPT ![Own] = available'[Own]]
           /\ ~script.copied => available'[Own] \in Contents
  <1>1. IInv'
    BY UndoLinkKeeps
  <1>2. /\ TypeOK /\ Own \in Sites /\ script.stage \in {"undoLink", "relink"} /\ script.copied \in BOOLEAN
        /\ running' = running
    BY ScriptFields DEF IInv, TypeOK, UndoLink, Relink
  <1>3. /\ script'.stage = "failed" /\ Own' = Own /\ script'.copied = script.copied
        /\ before'.available = before.available /\ before'.enabled = before.enabled
    BY <1>2, EndsFields DEF UndoLink, Relink
  <1>4. ~Over /\ Over' /\ Cut' = ~script.copied
    BY <1>2, <1>3 DEF Over, Cut
  <1>5. /\ available' \in [Sites -> Contents \cup {Absent}] /\ enabled' \subseteq Sites
        /\ before.available \in [Sites -> Contents \cup {Absent}] /\ before.enabled \subseteq Sites
    BY <1>1, <1>2 DEF IInv, TypeOK
  <1>6. /\ \A x \in Sites \ {Own} : available'[x] = before.available[x]
        /\ \A x \in Sites : x \in enabled' <=> x \in before.enabled
        /\ IF script.copied THEN available'[Own] = before.available[Own]
                            ELSE available'[Own] \in Contents
    BY <1>1, <1>3 DEF IInv, OthersUntouched, FileSoFar, LinkSoFar, In
  <1>7. enabled' = before.enabled
    BY <1>5, <1>6
  <1>8. available' = IF script.copied THEN before.available
                     ELSE [before.available EXCEPT ![Own] = available'[Own]]
    BY <1>2, <1>5, <1>6
  <1> QED  BY <1>2, <1>3, <1>4, <1>6, <1>7, <1>8

LEMMA UndoRefines ==
    ASSUME IInv, UndoLink \/ Relink
    PROVE  Transactions!Next
  <1>1. CASE script.copied
    BY <1>1, AfterUndo, RefuseRefines DEF AbsFile, AbsOn, AbsCut
  <1>2. CASE ~script.copied
    <2>1. /\ AbsFile = before.available /\ AbsOn = before.enabled
          /\ AbsFile' = [before.available EXCEPT ![Own] = available'[Own]]
          /\ AbsOn' = before.enabled /\ AbsCut' = TRUE /\ running' = running
          /\ available'[Own] \in Contents /\ Own \in Sites
      BY <1>2, AfterUndo DEF AbsFile, AbsOn, AbsCut
    <2>2. Transactions!CutOff(Own)
      BY <2>1 DEF Transactions!CutOff, AbsFile, AbsOn, AbsCut
    <2> QED  BY <2>1, <2>2 DEF Transactions!Next
  <1> QED  BY <1>1, <1>2

LEMMA StepRefines == IInv /\ [Next]_vars => [Transactions!Next]_(Transactions!vars)
  <1> SUFFICES ASSUME IInv, [Next]_vars
               PROVE  Transactions!Next \/ UNCHANGED Transactions!vars
    OBVIOUS
  <1>0. script \in Script
    BY DEF IInv, TypeOK
  <1>1. CASE UNCHANGED vars
    BY <1>1, StutterRefines DEF vars, AbsFile, AbsOn, AbsCut, Over, Cut
  <1>2. CASE Tick
    BY <1>2, StutterRefines DEF Tick, files, AbsFile, AbsOn, AbsCut, Over, Cut
  <1>3. ASSUME NEW s \in Sites, NEW c \in Contents, StartSet(s, c)
        PROVE  UNCHANGED Transactions!vars
    BY <1>3, StartRefines DEF StartSet
  <1>4. ASSUME NEW s \in Sites, NEW t \in Clock, StartRestore(s, t)
        PROVE  UNCHANGED Transactions!vars
    <2>1. backups[s][t] \in Contents \cup {Absent} /\ Start(s, t, backups[s][t], "backup")
      BY <1>4 DEF IInv, TypeOK, StartRestore
    <2> QED  BY <2>1, StartRefines
  <1>5. ASSUME NEW s \in Sites, StartRemove(s)
        PROVE  Transactions!Next \/ UNCHANGED Transactions!vars
    <2>1. CASE s \in enabled
      BY <1>5, <2>1, StartRefines DEF StartRemove
    <2>2. CASE s \notin enabled
      <3>1. /\ Over /\ Start(s, NoBackup, Absent, "ok") /\ "ok" \in Stages /\ TypeOK
            /\ available' = available /\ enabled' = enabled
        BY <1>5, <2>2 DEF StartRemove, Start, Stages, IInv
      <3>2. script'.stage = "ok" /\ running' = running
        BY <3>1, StartFields
      <3>3. Over' /\ Cut' = FALSE
        BY <3>2 DEF Over, Cut
      <3> QED  BY <3>1, <3>2, <3>3, RefuseRefines DEF AbsFile, AbsOn, AbsCut
    <2> QED  BY <2>1, <2>2
  <1>6. ASSUME ~Over, ~Over', UNCHANGED <<before, running>>
        PROVE  UNCHANGED Transactions!vars
    BY <1>6, StutterRefines DEF AbsFile, AbsOn, AbsCut
  <1>7. CASE BackUp \/ BackUpFails
    <2>1. script'.stage = "write" /\ script.stage = "backup"
      BY <1>0, <1>7 DEF BackUp, BackUpFails, Script
    <2> QED  BY <1>6, <1>7, <2>1 DEF BackUp, BackUpFails, files, Over, Cut
  <1>8. CASE Write \/ Link \/ Test \/ UndoFile \/ TestRemoved
    <2>1. /\ script'.stage \in {"link", "test", "reload", "undoFile", "undoLink", "relink"}
          /\ script.stage \in {"write", "link", "test", "undoFile", "testRemoved"}
      BY <1>0, <1>8, GoToFields DEF Write, Link, Test, UndoFile, TestRemoved, Stages
    <2> QED
      BY <1>6, <1>8, <2>1 DEF Write, Link, Test, UndoFile, TestRemoved, Over, Cut
  <1> QED
    BY <1>1, <1>2, <1>3, <1>4, <1>5, <1>7, <1>8, ReloadRefines, CutRefines, UndoRefines
    DEF Next

(* The script, killed or not, carries out transactions on sites.           *)
THEOREM Refinement == Spec => ImplementsSiteTransactions
  BY InitRefines, StepRefines, InvariantHolds, PTL
  DEF Spec, ImplementsSiteTransactions, Transactions!Spec
================================================================================
