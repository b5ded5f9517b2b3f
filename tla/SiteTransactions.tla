---------------------------- MODULE SiteTransactions ----------------------------
(***************************************************************************)
(* What the NGINX helper promises about the sites it manages: a change of  *)
(* a site is made as a whole, and made only if NGINX accepts the result    *)
(* and is serving it afterwards; otherwise nothing has happened.  A change *)
(* that was cut off, by a kill, because NGINX could not be reloaded, or    *)
(* because there was no copy to put back, may have touched the files of    *)
(* its own site but not what NGINX serves; the next change then is whole   *)
(* again.                                                                  *)
(***************************************************************************)
CONSTANTS Sites, Contents, Bad, Absent

VARIABLES
    file,   \* file[s]: the configuration of site s, or Absent
    on,     \* the enabled sites
    cut,    \* whether the last change was cut off
    live    \* live[s]: the configuration of s that NGINX serves, or Absent

vars == <<file, on, cut, live>>

Sound(f, l) == \A s \in l : f[s] \in Contents \ Bad
Loaded(f, l) == [s \in Sites |-> IF s \in l THEN f[s] ELSE Absent]

(* The machine as it is found: NGINX serves the enabled sites, or is down  *)
(* because it cannot.                                                      *)
Init ==
    /\ file \in [Sites -> Contents \cup {Absent}]
    /\ on \in SUBSET Sites
    /\ cut = FALSE
    /\ live = IF Sound(file, on) THEN Loaded(file, on) ELSE [s \in Sites |-> Absent]

(* A change that was made is what NGINX serves now.                        *)
GoLive ==
    /\ Sound(file', on')
    /\ live' = Loaded(file', on')

Put(s, c) ==
    /\ cut' = FALSE
    /\ file' = [file EXCEPT ![s] = c]
    /\ on' = on \cup {s}
    /\ GoLive

TakeOff(s) ==
    /\ cut' = FALSE
    /\ file' = file
    /\ on' = on \ {s}
    /\ GoLive

Refuse ==
    /\ cut' = FALSE
    /\ UNCHANGED <<file, on, live>>

CutOff(s) ==
    /\ cut' = TRUE
    /\ UNCHANGED live
    /\ on' \in {on, on \cup {s}, on \ {s}}
    /\ \E c \in Contents \cup {file[s]} : file' = [file EXCEPT ![s] = c]

Next ==
    \/ Refuse
    \/ \E s \in Sites : CutOff(s)
    \/ \E s \in Sites : TakeOff(s)
    \/ \E s \in Sites, c \in Contents : Put(s, c)

Spec == Init /\ [][Next]_vars
================================================================================
