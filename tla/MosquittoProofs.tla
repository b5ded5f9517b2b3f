---------------------------- MODULE MosquittoProofs ----------------------------
(***************************************************************************)
(* Proofs about Mosquitto for any ports, users and passwords.  Each safety *)
(* property speaks of the files between helpers; its strengthening says    *)
(* what holds at each command of a helper, of the file it has written and  *)
(* of the one it would put back.                                           *)
(***************************************************************************)
EXTENDS Mosquitto, TLAPS

At(command) == op # None /\ op.at = command

(* What the broker would have to know to follow a listener file.           *)
Follows(f) == broker.users = UsersOf(f, passwd) /\ broker.anonymous = AnonymousOf(f)

(* Until the trial has passed, the broker follows the file put aside.      *)
FollowsThroughout ==
    broker # None /\ ~behind
    => /\ op = None => Follows(file)
       /\ At("trial") /\ op.old # None => Follows(op.old)

(* A listener file that is what was asked for last.                        *)
IsAsAsked(f) ==
    IF asked = None THEN f.anonymous = "unset" /\ f.port = None
    ELSE f.port = asked.port /\ f.tls = asked.tls /\ f.anonymous = asked.anonymous

Matches(l) == file # None /\ file.port = l.port /\ file.tls = l.tls /\ file.anonymous = l.anonymous

(* The file on trial is the one just asked for, whatever was before.       *)
AsAskedThroughout ==
    /\ asked # None => file # None
    /\ At("trial") \/ At("restart") => Matches(op.listener)
    /\ doubt = None
       => /\ file # None /\ ~At("trial") /\ ~At("restart") => IsAsAsked(file)
          /\ At("trial") /\ op.old # None => IsAsAsked(op.old)

(* A listener file under which those who are in the password file can log  *)
(* in.                                                                     *)
Opens(f) == f # None /\ (f.passwords \/ f.anonymous = "yes")

(* Whoever was told so is in the password file, and can log in under the   *)
(* listener file, under the one that would be put back, and now; whoever   *)
(* is about to be told so is in it too.                                    *)
CanLogIn(u) ==
    /\ passwd # None /\ passwd[u] = told[u]
    /\ Opens(file)
    /\ At("trial") /\ op.old # None => Opens(op.old)
    /\ broker # None => LogsIn(u, told[u])

Added ==
    /\ (At("append") \/ At("reload")) /\ op.password # None =>
          passwd # None /\ passwd[op.user] = op.password
    /\ At("append") => op.password # None
    /\ At("reload") /\ op.password # None => Opens(file)

LetsInThroughout == Added /\ \A u \in Users : told[u] # None => CanLogIn(u)

IInv == TypeOK /\ FollowsThroughout /\ AsAskedThroughout /\ LetsInThroughout

--------------------------------------------------------------------------------
(* The helpers there are, and what each of them carries.                   *)
LEMMA TrialHelper ==
    ASSUME file \in ListenerFile \cup {None}, NEW l \in Requests, WriteListener(l)
    PROVE  /\ op' \in Helper /\ op' # None
           /\ op'.at = "trial" /\ op'.listener = l /\ op'.old \in {file, None}
BY NoneIsNothing DEF Helper, WriteListener

LEMMA UserHelper ==
    ASSUME NEW u \in Users, NEW p \in Passwords \cup {None}, NEW at \in {"append", "reload"}
    PROVE  [at |-> at, user |-> u, password |-> p] \in Helper
BY DEF Helper

LEMMA HelperFields ==
    ASSUME NEW h \in Helper
    PROVE  /\ h # None
           /\ h.at \in {"trial", "restart", "append", "reload"}
           /\ h.at \in {"trial", "restart"} =>
                 /\ h.listener \in Requests /\ h.old \in ListenerFile \cup {None}
                 /\ [h EXCEPT !.at = "restart"] \in Helper
                 /\ [h EXCEPT !.at = "restart"].at = "restart"
                 /\ [h EXCEPT !.at = "restart"].listener = h.listener
           /\ h.at \in {"append", "reload"} =>
                 /\ h.user \in Users /\ h.password \in Passwords \cup {None}
                 /\ [h EXCEPT !.at = "reload"] \in Helper
                 /\ [h EXCEPT !.at = "reload"].at = "reload"
                 /\ [h EXCEPT !.at = "reload"].user = h.user
                 /\ [h EXCEPT !.at = "reload"].password = h.password
<1>1. h # None
  BY NoneIsNothing
<1>2. CASE h \in [at : {"append", "reload"}, user : Users, password : Passwords \cup {None}]
  <2>1. [h EXCEPT !.at = "reload"]
           \in [at : {"append", "reload"}, user : Users, password : Passwords \cup {None}]
    BY <1>2
  <2>2. QED
    BY <1>1, <1>2, <2>1 DEF Helper
<1>3. CASE h \in [at : {"trial", "restart"}, listener : Requests, old : ListenerFile \cup {None}]
  <2>1. [h EXCEPT !.at = "restart"]
           \in [at : {"trial", "restart"}, listener : Requests, old : ListenerFile \cup {None}]
    BY <1>3
  <2>2. QED
    BY <1>1, <1>3, <2>1 DEF Helper
<1>4. QED
  BY <1>2, <1>3 DEF Helper

(* A candidate is a listener file and has what was asked for.              *)
LEMMA Files ==
    ASSUME NEW l \in Requests
    PROVE  Candidate(l) \in ListenerFile /\ Candidate(l) # None
           /\ Candidate(l).port = l.port /\ Candidate(l).tls = l.tls
           /\ Candidate(l).anonymous = l.anonymous
           /\ Candidate(l).passwords = (l.anonymous = "no" /\ passwd # None)
<1>1. ASSUME NEW b \in BOOLEAN
      PROVE  [port |-> l.port, tls |-> l.tls, anonymous |-> l.anonymous, passwords |-> b]
                \in ListenerFile
  BY DEF Requests, ListenerFile
<1>2. (l.anonymous = "no" /\ passwd # None) \in BOOLEAN
  OBVIOUS
<1>3. Candidate(l) \in ListenerFile
  BY <1>1, <1>2, Zenon DEF Candidate
<1>4. Candidate(l).passwords = (l.anonymous = "no" /\ passwd # None)
  BY DEF Candidate
<1>5. QED
  BY <1>3, <1>4, NoneIsNothing DEF Candidate

(* Appending password_file makes a listener file or keeps the rest of it.  *)
LEMMA Appended ==
    ASSUME file \in ListenerFile \cup {None}, AppendPasswordFile
    PROVE  /\ file' \in ListenerFile /\ file' # None /\ file'.passwords
           /\ file = None => file'.anonymous = "unset" /\ file'.port = None
           /\ file # None => /\ file'.port = file.port /\ file'.tls = file.tls
                            /\ file'.anonymous = file.anonymous
<1>1. CASE file = None
  <2>1. file' = [port |-> None, tls |-> FALSE, anonymous |-> "unset", passwords |-> TRUE]
    BY <1>1 DEF AppendPasswordFile
  <2>2. file' \in ListenerFile
    BY <2>1 DEF ListenerFile
  <2>3. QED
    BY <1>1, <2>1, <2>2, NoneIsNothing
<1>2. CASE file # None
  BY <1>2, NoneIsNothing DEF AppendPasswordFile, ListenerFile
<1>3. QED
  BY <1>1, <1>2

(* A broker that reads the files, or reads them again, follows them.       *)
LEMMA Brokers ==
    ASSUME NEW f \in ListenerFile \cup {None}, NEW p \in PasswordFile \cup {None}
    PROVE  /\ UsersOf(f, p) \in PasswordFile \cup {None}
           /\ AnonymousOf(f) \in {"yes", "no"}
           /\ PortOf(f) \in Ports
           /\ Read(f, p) \in Broker /\ Read(f, p) # None
           /\ Read(f, p).users = UsersOf(f, p) /\ Read(f, p).anonymous = AnonymousOf(f)
           /\ \A b \in Broker : /\ Reread(b, f, p) \in Broker /\ Reread(b, f, p) # None
                               /\ Reread(b, f, p).users = UsersOf(f, p)
                               /\ Reread(b, f, p).anonymous = AnonymousOf(f)
<1>1. UsersOf(f, p) \in PasswordFile \cup {None} /\ AnonymousOf(f) \in {"yes", "no"}
  BY DEF UsersOf, AnonymousOf
<1>2. PortOf(f) \in Ports
  BY MosquittoConstants DEF PortOf, ListenerFile
<1>3. (f # None /\ f.tls) \in BOOLEAN
  OBVIOUS
<1>4. /\ Read(f, p) \in Broker
      /\ Read(f, p).users = UsersOf(f, p) /\ Read(f, p).anonymous = AnonymousOf(f)
  BY <1>1, <1>2, <1>3 DEF Read, Broker
<1>5. QED
  BY <1>1, <1>2, <1>4, NoneIsNothing DEF Reread, Broker

(* touch leaves a password file.                                           *)
LEMMA TouchedFile == passwd \in PasswordFile \cup {None} => Touched \in PasswordFile
BY DEF Touched, NoUsers, PasswordFile

LEMMA Initial == Init => IInv
<1> SUFFICES ASSUME Init PROVE IInv
  OBVIOUS
<1> USE DEF Init
<1>1. broker \in Broker \cup {None}
  <2>1. [port |-> DefaultPort, tls |-> FALSE, anonymous |-> "no", users |-> None] \in Broker
    BY MosquittoConstants DEF Broker
  <2>2. QED
    BY <2>1
<1>2. TypeOK
  BY <1>1 DEF TypeOK, NoUsers, PasswordFile
<1>3. FollowsThroughout
  <2>1. UsersOf(file, passwd) = None /\ AnonymousOf(file) = "no"
    BY DEF UsersOf, AnonymousOf
  <2>2. broker # None => broker.users = None /\ broker.anonymous = "no"
    OBVIOUS
  <2>3. QED
    BY <2>1, <2>2 DEF FollowsThroughout, At, Follows
<1>4. AsAskedThroughout
  BY DEF AsAskedThroughout, At, IsAsAsked
<1>5. LetsInThroughout
  BY DEF LetsInThroughout, Added, At, NoUsers
<1>6. QED
  BY <1>2, <1>3, <1>4, <1>5 DEF IInv

(* Every step keeps the types.                                             *)
LEMMA TypeStep == TypeOK /\ [Next]_vars => TypeOK'
<1> SUFFICES ASSUME TypeOK, [Next]_vars PROVE TypeOK'
  OBVIOUS
<1> USE DEF TypeOK
<1>1. ASSUME NEW l \in Requests, WriteListener(l) PROVE TypeOK'
  BY <1>1, Files, TrialHelper DEF WriteListener
<1>2. CASE TrialPasses
  BY <1>2, HelperFields DEF TrialPasses
<1>3. CASE TrialFails
  <2>1. behind' \in BOOLEAN
    BY <1>3, Zenon DEF TrialFails
  <2>2. file' \in ListenerFile \cup {None}
    <3>1. op \in Helper /\ op.old \in ListenerFile \cup {None}
      BY <1>3, HelperFields DEF TrialFails
    <3>2. QED
      BY <1>3, <3>1 DEF TrialFails, Restored
  <2>3. QED
    BY <1>3, <2>1, <2>2 DEF TrialFails
<1>4. CASE Restart
  BY <1>4, HelperFields, Brokers DEF Restart
<1>5. CASE RestartFails
  <2>1. behind' \in BOOLEAN
    BY <1>5, Zenon DEF RestartFails
  <2>2. QED
    BY <1>5, <2>1 DEF RestartFails
<1>6. ASSUME NEW u \in Users, NEW p \in Passwords, setUser(u, p) PROVE TypeOK'
  BY <1>6, TouchedFile, UserHelper DEF setUser, PasswordFile
<1>7. ASSUME NEW u \in Users, removeUser(u) PROVE TypeOK'
  BY <1>7, UserHelper DEF removeUser, PasswordFile
<1>8. CASE SetUserFails
  BY <1>8, TouchedFile DEF SetUserFails
<1>9. CASE AppendPasswordFile
  BY <1>9, HelperFields, Appended DEF AppendPasswordFile
<1>10. CASE Reload
  <2>1. broker' \in Broker \cup {None}
    <3>1. CASE broker = None
      BY <1>10, <3>1, Brokers DEF Reload
    <3>2. CASE broker # None
      BY <1>10, <3>2, Brokers DEF Reload
    <3>3. QED
      BY <3>1, <3>2
  <2>2. told' \in PasswordFile
    BY <1>10, HelperFields DEF Reload, PasswordFile
  <2>3. QED
    BY <1>10, <2>1, <2>2 DEF Reload
<1>11. CASE Killed
  BY <1>11 DEF Killed
<1>12. CASE Start
  BY <1>12, Brokers DEF Start
<1>13. CASE Stop
  BY <1>13 DEF Stop
<1>14. CASE UNCHANGED vars
  BY <1>14 DEF vars
<1>15. QED
  BY <1>1, <1>2, <1>3, <1>4, <1>5, <1>6, <1>7, <1>8, <1>9, <1>10,
     <1>11, <1>12, <1>13, <1>14 DEF Next

(* A rejected candidate is replaced by the file the broker follows.        *)
LEMMA FollowsStep == TypeOK /\ FollowsThroughout /\ [Next]_vars => FollowsThroughout'
<1> SUFFICES ASSUME TypeOK /\ FollowsThroughout, [Next]_vars PROVE FollowsThroughout'
  OBVIOUS
<1> USE DEF TypeOK, FollowsThroughout, At, Follows
<1>1. ASSUME NEW l \in Requests, WriteListener(l) PROVE FollowsThroughout'
  BY <1>1, TrialHelper, HelperFields DEF WriteListener
<1>2. CASE TrialPasses
  BY <1>2, HelperFields DEF TrialPasses
<1>3. CASE TrialFails
  BY <1>3, HelperFields DEF TrialFails, Restored
<1>4. CASE Restart
  BY <1>4, Brokers DEF Restart
<1>5. CASE RestartFails
  BY <1>5 DEF RestartFails
<1>6. ASSUME NEW u \in Users, NEW p \in Passwords, setUser(u, p) PROVE FollowsThroughout'
  BY <1>6, UserHelper, HelperFields DEF setUser
<1>7. ASSUME NEW u \in Users, removeUser(u) PROVE FollowsThroughout'
  BY <1>7, UserHelper, HelperFields DEF removeUser
<1>8. CASE SetUserFails
  BY <1>8 DEF SetUserFails
<1>9. CASE AppendPasswordFile
  BY <1>9, UserHelper, HelperFields DEF AppendPasswordFile
<1>10. CASE Reload
  BY <1>10, Brokers DEF Reload
<1>11. CASE Killed
  BY <1>11 DEF Killed
<1>12. CASE Start
  BY <1>12, Brokers DEF Start
<1>13. CASE Stop
  BY <1>13 DEF Stop
<1>14. CASE UNCHANGED vars
  BY <1>14 DEF vars
<1>15. QED
  BY <1>1, <1>2, <1>3, <1>4, <1>5, <1>6, <1>7, <1>8, <1>9, <1>10,
     <1>11, <1>12, <1>13, <1>14 DEF Next

(* The file on trial matches what is asked, the one put aside what was.    *)
LEMMA AsAskedStep == TypeOK /\ AsAskedThroughout /\ [Next]_vars => AsAskedThroughout'
<1> SUFFICES ASSUME TypeOK /\ AsAskedThroughout, [Next]_vars PROVE AsAskedThroughout'
  OBVIOUS
<1> USE DEF TypeOK, AsAskedThroughout, At, IsAsAsked, Matches
<1>1. ASSUME NEW l \in Requests, WriteListener(l) PROVE AsAskedThroughout'
  <2>1. op' # None /\ op'.at = "trial" /\ op'.listener = l /\ op'.old \in {file, None}
    BY <1>1, TrialHelper
  <2>2. Matches(op.listener)'
    BY <1>1, <2>1, Files DEF WriteListener
  <2>3. doubt' = doubt /\ asked' = asked /\ op = None
    BY <1>1 DEF WriteListener
  <2>4. doubt = None /\ file # None => IsAsAsked(file)
    BY <2>3
  <2>5. QED
    BY <2>1, <2>2, <2>3, <2>4
<1>2. CASE TrialPasses
  BY <1>2, HelperFields DEF TrialPasses
<1>3. CASE TrialFails
  <2>1. CASE op.old = None
    BY <1>3, <2>1, HelperFields, NoneIsNothing DEF TrialFails, Restored
  <2>2. CASE op.old # None
    BY <1>3, <2>2, HelperFields, NoneIsNothing DEF TrialFails, Restored
  <2>3. QED
    BY <2>1, <2>2
<1>4. CASE Restart
  <2>1. op \in Helper /\ op.listener \in Requests /\ Matches(op.listener)
    BY <1>4, HelperFields DEF Restart
  <2>2. op' = None /\ asked' = op.listener /\ asked' # None /\ file' = file /\ file # None
    BY <1>4, <2>1, NoneIsNothing DEF Restart
  <2>3. IsAsAsked(file)'
    BY <2>1, <2>2
  <2>4. QED
    BY <2>2, <2>3
<1>5. CASE RestartFails
  BY <1>5, HelperFields, NoneIsNothing DEF RestartFails
<1>6. ASSUME NEW u \in Users, NEW p \in Passwords, setUser(u, p) PROVE AsAskedThroughout'
  BY <1>6, UserHelper, HelperFields DEF setUser
<1>7. ASSUME NEW u \in Users, removeUser(u) PROVE AsAskedThroughout'
  BY <1>7, UserHelper, HelperFields DEF removeUser
<1>8. CASE SetUserFails
  BY <1>8 DEF SetUserFails
<1>9. CASE AppendPasswordFile
  <2>1. file' # None /\ op' # None /\ op'.at = "reload" /\ asked' = asked /\ doubt' = doubt
    BY <1>9, UserHelper, Appended, HelperFields DEF AppendPasswordFile
  <2>2. doubt = None => IsAsAsked(file)'
    <3>1. CASE file = None
      BY <1>9, <2>1, <3>1, Appended
    <3>2. CASE file # None
      BY <1>9, <2>1, <3>2, Appended DEF AppendPasswordFile
    <3>3. QED
      BY <3>1, <3>2
  <2>3. QED
    BY <2>1, <2>2
<1>10. CASE Reload
  BY <1>10, HelperFields DEF Reload
<1>11. CASE Killed
  BY <1>11, HelperFields, NoneIsNothing DEF Killed
<1>12. CASE Start
  BY <1>12 DEF Start
<1>13. CASE Stop
  BY <1>13 DEF Stop
<1>14. CASE UNCHANGED vars
  BY <1>14 DEF vars
<1>15. QED
  BY <1>1, <1>2, <1>3, <1>4, <1>5, <1>6, <1>7, <1>8, <1>9, <1>10,
     <1>11, <1>12, <1>13, <1>14 DEF Next

(* A broker that has read a listener file that opens, and the password     *)
(* file, lets in who is in there with that password.                       *)
LEMMA Opened ==
    ASSUME NEW f \in ListenerFile \cup {None}, Opens(f), NEW p \in PasswordFile, NEW u \in Users
    PROVE  IF UsersOf(f, p) = None THEN AnonymousOf(f) = "yes" ELSE UsersOf(f, p)[u] = p[u]
BY NoneIsNothing DEF Opens, UsersOf, AnonymousOf

(* A candidate lets users in whenever there is a password file.            *)
LEMMA CandidateOpens ==
    ASSUME NEW l \in Requests, passwd # None
    PROVE  Opens(Candidate(l))
BY Files DEF Opens, Requests

(* What no listener command and no start of the broker changes of a user   *)
LEMMA StillIn ==
    ASSUME NEW u \in Users, CanLogIn(u), passwd' = passwd, told' = told,
           Opens(file)', (At("trial") /\ op.old # None => Opens(op.old))', (broker # None => LogsIn(u, told[u]))'
    PROVE  CanLogIn(u)'
BY DEF CanLogIn

LEMMA SameBroker ==
    ASSUME NEW u \in Users, CanLogIn(u), broker' \in {None, broker}, told'[u] = told[u]
    PROVE  (broker # None => LogsIn(u, told[u]))'
BY DEF CanLogIn, LogsIn

LEMMA ReadBroker ==
    ASSUME TypeOK, NEW u \in Users, passwd \in PasswordFile, Opens(file), passwd[u] = told'[u],
           broker' # None, broker'.users = UsersOf(file, passwd), broker'.anonymous = AnonymousOf(file)
    PROVE  LogsIn(u, told[u])'
<1>1. IF UsersOf(file, passwd) = None THEN AnonymousOf(file) = "yes"
      ELSE UsersOf(file, passwd)[u] = passwd[u]
  BY Opened DEF TypeOK
<1>2. QED
  BY <1>1 DEF LogsIn

LEMMA LetsInStep == TypeOK /\ LetsInThroughout /\ [Next]_vars => LetsInThroughout'
<1> SUFFICES ASSUME TypeOK, LetsInThroughout, [Next]_vars PROVE LetsInThroughout'
  OBVIOUS
<1>0. /\ Added
      /\ \A u \in Users : told[u] # None => CanLogIn(u) /\ passwd \in PasswordFile
  BY DEF TypeOK, LetsInThroughout, CanLogIn
<1>1. ASSUME NEW l \in Requests, WriteListener(l) PROVE LetsInThroughout'
  <2>1. op'.at = "trial" /\ op' # None /\ op'.old \in {file, None}
    BY <1>1, TrialHelper DEF TypeOK
  <2>2. ASSUME NEW u \in Users, told'[u] # None PROVE CanLogIn(u)'
    <3>1. CanLogIn(u) /\ told' = told /\ passwd' = passwd /\ broker' = broker
      BY <1>0, <1>1, <2>2 DEF WriteListener
    <3>2. Opens(file)' /\ (op'.old # None => Opens(op.old)')
      BY <1>1, <2>1, <3>1, CandidateOpens DEF WriteListener, CanLogIn, Opens
    <3>3. QED
      BY <2>1, <3>1, <3>2, StillIn, SameBroker DEF At
  <2>3. QED
    BY <2>1, <2>2 DEF LetsInThroughout, Added, At
<1>2. CASE TrialPasses
  <2>1. op' # None /\ op'.at = "restart"
    BY <1>2, HelperFields DEF TrialPasses, TypeOK
  <2>2. ASSUME NEW u \in Users, told'[u] # None PROVE CanLogIn(u)'
    BY <1>0, <1>2, <2>1, <2>2, StillIn, SameBroker DEF TrialPasses, CanLogIn, At, Opens
  <2>3. QED
    BY <2>1, <2>2 DEF LetsInThroughout, Added, At
<1>3. CASE TrialFails
  <2>1. ASSUME NEW u \in Users, told'[u] # None PROVE CanLogIn(u)'
    <3>1. CanLogIn(u) /\ told' = told /\ passwd' = passwd /\ broker' = broker /\ op' = None
      BY <1>0, <1>3, <2>1 DEF TrialFails
    <3>2. Opens(file)'
      BY <1>3, <3>1 DEF TrialFails, Restored, CanLogIn, At, Opens
    <3>3. QED
      BY <3>1, <3>2, StillIn, SameBroker DEF At
  <2>2. QED
    BY <1>3, <2>1 DEF TrialFails, LetsInThroughout, Added, At
<1>4. CASE Restart
  <2>1. /\ broker' # None /\ broker'.users = UsersOf(file, passwd)
        /\ broker'.anonymous = AnonymousOf(file)
    BY <1>4, Brokers DEF Restart, TypeOK
  <2>2. ASSUME NEW u \in Users, told'[u] # None PROVE CanLogIn(u)'
    BY <1>0, <1>4, <2>1, <2>2, StillIn, ReadBroker DEF Restart, CanLogIn, At, Opens
  <2>3. QED
    BY <1>4, <2>2 DEF Restart, LetsInThroughout, Added, At
<1>5. CASE RestartFails
  <2>1. ASSUME NEW u \in Users, told'[u] # None PROVE CanLogIn(u)'
    BY <1>0, <1>5, <2>1, StillIn, SameBroker DEF RestartFails, CanLogIn, At, Opens
  <2>2. QED
    BY <1>5, <2>1 DEF RestartFails, LetsInThroughout, Added, At
<1>6. ASSUME NEW u \in Users, NEW p \in Passwords, setUser(u, p) PROVE LetsInThroughout'
  <2>1. /\ op' # None /\ op'.at = "append" /\ op'.user = u /\ op'.password = p
        /\ p # None
    BY <1>6, UserHelper, HelperFields, MosquittoConstants DEF setUser
  <2>2. passwd' # None /\ passwd'[u] = p /\ \A x \in Users \ {u} : passwd'[x] = Touched[x]
    BY <1>6, TouchedFile, NoneIsNothing DEF setUser, PasswordFile, TypeOK
  <2>3. ASSUME NEW x \in Users, told'[x] # None PROVE CanLogIn(x)'
    <3>1. x # u /\ told'[x] = told[x]
      BY <1>6, <2>3 DEF setUser, PasswordFile, TypeOK
    <3>2. CanLogIn(x) /\ passwd'[x] = told'[x]
      BY <1>0, <2>2, <2>3, <3>1 DEF CanLogIn, Touched
    <3>3. QED
      BY <1>6, <2>1, <2>2, <3>1, <3>2, SameBroker DEF setUser, CanLogIn, At, Opens
  <2>4. QED
    BY <2>1, <2>2, <2>3 DEF LetsInThroughout, Added, At
<1>7. ASSUME NEW u \in Users, removeUser(u) PROVE LetsInThroughout'
  <2>1. op' # None /\ op'.at = "reload" /\ op'.password = None
    BY <1>7, UserHelper, HelperFields DEF removeUser
  <2>2. ASSUME NEW x \in Users, told'[x] # None PROVE CanLogIn(x)'
    <3>1. x # u /\ told'[x] = told[x]
      BY <1>7, <2>2 DEF removeUser, PasswordFile, TypeOK
    <3>2. CanLogIn(x) /\ passwd' # None /\ passwd'[x] = told'[x]
      BY <1>0, <1>7, <2>2, <3>1, NoneIsNothing DEF removeUser, CanLogIn, PasswordFile, TypeOK
    <3>3. QED
      BY <1>7, <2>1, <3>1, <3>2, SameBroker DEF removeUser, CanLogIn, At, Opens
  <2>3. QED
    BY <2>1, <2>2 DEF LetsInThroughout, Added, At
<1>8. CASE SetUserFails
  <2>1. ASSUME NEW u \in Users, told'[u] # None PROVE CanLogIn(u)'
    BY <1>0, <1>8, <2>1, StillIn, SameBroker DEF SetUserFails, CanLogIn, At, Opens, Touched
  <2>2. QED
    BY <1>8, <2>1 DEF SetUserFails, LetsInThroughout, Added, At
<1>9. CASE AppendPasswordFile
  <2>1. /\ op \in Helper /\ op # None /\ op.at = "append"
        /\ op' # None /\ op'.at = "reload" /\ op'.user = op.user /\ op'.password = op.password
    BY <1>9, HelperFields DEF AppendPasswordFile, TypeOK
  <2>2. Opens(file)'
    BY <1>9, Appended DEF Opens, TypeOK
  <2>3. ASSUME NEW u \in Users, told'[u] # None PROVE CanLogIn(u)'
    BY <1>0, <1>9, <2>1, <2>2, <2>3, StillIn, SameBroker DEF AppendPasswordFile, At
  <2>4. QED
    BY <1>0, <1>9, <2>1, <2>2, <2>3 DEF AppendPasswordFile, LetsInThroughout, Added, At
<1>10. CASE Reload
  <2>1. op \in Helper /\ op.user \in Users /\ op' = None
    BY <1>10, HelperFields DEF Reload, TypeOK
  <2>2. broker' # None => /\ broker'.users = UsersOf(file, passwd)
                          /\ broker'.anonymous = AnonymousOf(file)
    <3>1. CASE broker = None
      BY <1>10, <3>1, Brokers DEF Reload, TypeOK
    <3>2. CASE broker # None
      <4>1. broker' = Reread(broker, file, passwd) /\ broker \in Broker
        BY <1>10, <3>2 DEF Reload, TypeOK
      <4>2. QED
        BY <4>1, Brokers DEF TypeOK
    <3>3. QED
      BY <3>1, <3>2
  <2>3. ASSUME NEW u \in Users, told'[u] # None PROVE CanLogIn(u)'
    <3>1. passwd # None /\ passwd[u] = told'[u] /\ Opens(file)
      BY <1>0, <1>10, <2>1, <2>3 DEF Reload, CanLogIn, Added, At, PasswordFile, TypeOK
    <3>2. passwd \in PasswordFile /\ (broker # None => LogsIn(u, told[u]))'
      BY <2>2, <3>1, ReadBroker DEF TypeOK
    <3>3. QED
      BY <1>10, <2>1, <3>1, <3>2 DEF Reload, CanLogIn, At, Opens
  <2>4. QED
    BY <2>1, <2>3 DEF LetsInThroughout, Added, At
<1>11. CASE Killed
  <2>1. ASSUME NEW u \in Users, told'[u] # None PROVE CanLogIn(u)'
    BY <1>0, <1>11, <2>1, StillIn, SameBroker DEF Killed, CanLogIn, At, Opens
  <2>2. QED
    BY <1>11, <2>1 DEF Killed, LetsInThroughout, Added, At
<1>12. CASE Start
  <2>1. /\ broker' # None /\ broker'.users = UsersOf(file, passwd)
        /\ broker'.anonymous = AnonymousOf(file)
    BY <1>12, Brokers DEF Start, TypeOK
  <2>2. ASSUME NEW u \in Users, told'[u] # None PROVE CanLogIn(u)'
    BY <1>0, <1>12, <2>1, <2>2, StillIn, ReadBroker DEF Start, CanLogIn, At, Opens
  <2>3. QED
    BY <1>0, <1>12, <2>2 DEF Start, LetsInThroughout, Added, At, Opens
<1>13. CASE Stop
  <2>1. ASSUME NEW u \in Users, told'[u] # None PROVE CanLogIn(u)'
    BY <1>0, <1>13, <2>1, StillIn, SameBroker DEF Stop, CanLogIn, At, Opens
  <2>2. QED
    BY <1>0, <1>13, <2>1 DEF Stop, LetsInThroughout, Added, At, Opens
<1>14. CASE UNCHANGED vars
  BY <1>14 DEF vars, LetsInThroughout, Added, CanLogIn, LogsIn, At, Opens
<1>15. QED
  BY <1>1, <1>2, <1>3, <1>4, <1>5, <1>6, <1>7, <1>8, <1>9, <1>10,
     <1>11, <1>12, <1>13, <1>14 DEF Next

LEMMA Step == IInv /\ [Next]_vars => IInv'
BY TypeStep, FollowsStep, AsAskedStep, LetsInStep DEF IInv

(* What holds at every command of a helper, whatever fails, starts or     *)
(* stops (mosquitto_configure.sh:77-157).                                  *)
THEOREM InvariantHolds == Spec => []IInv
<1>1. QED
  BY Initial, Step, PTL DEF Spec

(* The files, the broker and the helper keep their types.                  *)
THEOREM TypeCorrect == Spec => []TypeOK
<1>1. IInv => TypeOK
  BY DEF IInv
<1>2. QED
  BY <1>1, InvariantHolds, PTL

(* A broker that was not started in the middle of a helper lets in whom    *)
(* the files say once no helper runs (mosquitto_configure.sh:42-48,        *)
(* 116-122), for any number of users and any sequence of commands.         *)
THEOREM BrokerFollows == Spec => []BrokerFollowsTheFiles
<1>1. IInv => BrokerFollowsTheFiles
  BY DEF IInv, FollowsThroughout, Follows, BrokerFollowsTheFiles
<1>2. QED
  BY <1>1, InvariantHolds, PTL

(* The listener file is the one that was asked for last and answered ok,   *)
(* or there is a reason for its not being (mosquitto.js:75-88).            *)
THEOREM ListenerAsAsked == Spec => []ListenerIsAsAsked
<1>1. IInv => ListenerIsAsAsked
  BY NoneIsNothing DEF IInv, TypeOK, AsAskedThroughout, At, IsAsAsked, ListenerIsAsAsked
<1>2. QED
  BY <1>1, InvariantHolds, PTL

(* Whoever was told that a password is set can log in with it while the   *)
(* broker runs, whatever commands for listeners and other users come after *)
(* it, succeed, fail or are killed, until the user is changed again        *)
(* (mosquitto_configure.sh:99-102, 127-142).                               *)
THEOREM UsersLogIn == Spec => []UsersCanLogIn
<1>1. IInv => UsersCanLogIn
  BY DEF IInv, LetsInThroughout, CanLogIn, UsersCanLogIn
<1>2. QED
  BY <1>1, InvariantHolds, PTL
================================================================================
