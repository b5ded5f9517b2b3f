------------------------------ MODULE WireGuardPage ----------------------------
(***************************************************************************)
(* The peers of the WireGuard page (WireGuard.jsx): the status of the      *)
(* selected tunnel is polled (usePolling.js), a peer of it is selected by  *)
(* name, edited in a form or removed, each through an action button, while *)
(* other clients add, rename and remove peers too.                         *)
(*                                                                         *)
(* Nothing cancels a poll of the tunnel selected before, and an answer     *)
(* shows the tunnel as it was when the poll was served.  A peer is a name  *)
(* for a public key of one tunnel; of what an edit writes beside the name, *)
(* and of a form, the key it was filled from is kept.                      *)
(***************************************************************************)
EXTENDS ActionButton

CONSTANTS
    Tunnels, Names, Keys,
    Home,           \* Home[k]: the tunnel of each key
    First,          \* First[t][n]: the key of each name at the start, or None
    MaxReused,      \* bound: names given to a key anew
    MaxPolls        \* bound: answers to polls under way

Peerings == [Names -> Keys \cup {None}]
Asked == [to : {"remove", "update"}, tunnel : Tunnels, name : Names, new : Names, meant : Keys]
Views == [tunnel : Tunnels, peers : Peerings]

ASSUME PageConstants ==
    /\ None \notin Tunnels \cup Names \cup Keys
    /\ MaxReused \in Nat /\ MaxPolls \in Nat
    /\ Requests = Asked /\ Callbacks = Names \cup {None}
    /\ Home \in [Keys -> Tunnels]
    /\ First \in [Tunnels -> Peerings]
    /\ \A t \in Tunnels : \A n \in Names : First[t][n] # None => Home[First[t][n]] = t

VARIABLES
    peers,              \* peers[t][n] on the server
    data,               \* data[k]: the key whose form gave the peer of k its
                        \*   group and addresses; k itself if none did
    selectedInterface,
    status,             \* [tunnel, peers] of the last answer
    polls,              \* tunnels whose polls the server may have yet to see
    answers,            \* the answers under way
    selectedPeerName,
    form,               \* the edit form: [key, name]; None while not editing
    reused              \* history: names of a tunnel given to a key anew

serverVars == <<peers, data, reused>>
pageVars == <<selectedInterface, status, polls, answers, selectedPeerName, form>>
vars == <<buttonVars, pageVars, serverVars>>

TypeOK ==
    /\ ButtonTypeOK
    /\ peers \in [Tunnels -> Peerings]
    /\ data \in [Keys -> Keys]
    /\ selectedInterface \in Tunnels
    /\ status \in Views \cup {None}
    /\ polls \subseteq Tunnels /\ answers \subseteq Views
    /\ selectedPeerName \in Names \cup {None}
    /\ form \in [key : Keys, name : Names] \cup {None}
    /\ reused \subseteq Tunnels \X Names

Init ==
    /\ ButtonInit
    /\ peers = First /\ data = [k \in Keys |-> k]
    /\ selectedInterface \in Tunnels
    /\ status = None
    /\ polls = {selectedInterface} /\ answers = {}
    /\ selectedPeerName = None /\ form = None
    /\ reused = {}

--------------------------------------------------------------------------------
ShowsPeer(st, n) == st # None /\ n # None /\ st.peers[n] # None
selectedPeer == ShowsPeer(status, selectedPeerName)

(* Which button is on the page: removal, save, or none                     *)
Rendered(st, n, f) == IF ShowsPeer(st, n) THEN f # None ELSE None

Rerender ==
    IF Rendered(status', selectedPeerName', form') = Rendered(status, selectedPeerName, form)
    THEN UNCHANGED buttonVars ELSE Unmount

(* usePolling restarts with the tunnel; the status shown stays.            *)
(* The list of tunnels is on a tab of its own, where no peer is rendered.  *)
selectTunnel(t) ==
    /\ ~open
    /\ selectedInterface' = t
    /\ polls' = polls \cup {t}
    /\ UNCHANGED <<status, answers, selectedPeerName, form, serverVars>>
    /\ Unmount

(* The selected tunnel is polled over and over, so a poll of it can be on  *)
(* its way at any time; of another one, since it was left.                 *)
PollServed(t) ==
    /\ t \in polls
    /\ Cardinality(answers) < MaxPolls
    /\ polls' = polls \ ({t} \ {selectedInterface})
    /\ answers' = answers \cup {[tunnel |-> t, peers |-> peers[t]]}
    /\ UNCHANGED <<buttonVars, selectedInterface, status, selectedPeerName, form, serverVars>>

Polled(a) ==
    /\ a \in answers
    /\ answers' = answers \ {a}
    /\ status' = a
    /\ UNCHANGED <<selectedInterface, polls, selectedPeerName, form, serverVars>>
    /\ Rerender

PollFails ==
    /\ \/ \E t \in polls \ {selectedInterface} : polls' = polls \ {t} /\ UNCHANGED answers
       \/ \E a \in answers : answers' = answers \ {a} /\ UNCHANGED polls
    /\ UNCHANGED <<buttonVars, selectedInterface, status, selectedPeerName, form, serverVars>>

selectPeerKeepsForm(n) ==
    /\ ~open /\ ShowsPeer(status, n)
    /\ selectedPeerName' = n
    /\ UNCHANGED <<form, selectedInterface, status, polls, answers, serverVars>>
    /\ Rerender

selectPeer(n) ==
    /\ ~open /\ ShowsPeer(status, n)
    /\ selectedPeerName' = n /\ form' = None
    /\ UNCHANGED <<selectedInterface, status, polls, answers, serverVars>>
    /\ Rerender

startEditPeer ==
    /\ ~open /\ selectedPeer /\ form = None
    /\ form' = [key |-> status.peers[selectedPeerName], name |-> selectedPeerName]
    /\ UNCHANGED <<selectedInterface, status, polls, answers, selectedPeerName, serverVars>>
    /\ Rerender

setEditPeerName(n) ==
    /\ ~open /\ selectedPeer /\ form # None
    /\ form' = [form EXCEPT !.name = n]
    /\ UNCHANGED <<selectedInterface, status, polls, answers, selectedPeerName, serverVars>>
    /\ Rerender

cancelEdit ==
    /\ ~open /\ selectedPeer /\ form # None
    /\ form' = None
    /\ UNCHANGED <<selectedInterface, status, polls, answers, selectedPeerName, serverVars>>
    /\ Rerender

--------------------------------------------------------------------------------
(* The parameters are taken from the page at the click: the tunnel that is *)
(* selected, the name that is shown, the form; the callback has the form   *)
(* of the confirmation.                                                    *)
ClickRemove ==
    /\ selectedPeer /\ form = None
    /\ handleClick([to |-> "remove", tunnel |-> selectedInterface, name |-> selectedPeerName,
                    new |-> selectedPeerName, meant |-> status.peers[selectedPeerName]])
    /\ UNCHANGED <<pageVars, serverVars>>

ClickSave ==
    /\ selectedPeer /\ form # None
    /\ handleClick([to |-> "update", tunnel |-> selectedInterface, name |-> selectedPeerName,
                    new |-> form.name, meant |-> form.key])
    /\ UNCHANGED <<pageVars, serverVars>>

Confirm ==
    /\ handleConfirm(IF form = None THEN None ELSE form.name)
    /\ UNCHANGED <<pageVars, serverVars>>

Holder(r) == peers[r.tunnel][r.name]

Removal(t, n) ==
    /\ peers' = [peers EXCEPT ![t][n] = None]
    /\ data' = [data EXCEPT ![peers[t][n]] = peers[t][n]]
    /\ UNCHANGED reused

(* The lines of the name are rewritten, and the name with them.            *)
Rewrite(t, n, new, from) ==
    /\ new = n \/ (peers[t][new] = None /\ Cardinality(reused) < MaxReused)
    /\ peers' = [peers EXCEPT ![t] = [@ EXCEPT ![n] = None, ![new] = peers[t][n]]]
    /\ data' = [data EXCEPT ![peers[t][n]] = from]
    /\ reused' = IF new = n THEN reused ELSE reused \cup {<<t, new>>}

(* peerRemove and peerUpdate: the helper changes the file, and is reported *)
(* to have failed if it was cut off after that.                            *)
Serve(c) ==
    /\ Served(c)
    /\ LET r == calls[c].request
       IN  /\ Holder(r) # None
           /\ \/ r.to = "remove" /\ Removal(r.tunnel, r.name)
              \/ r.to = "update" /\ Rewrite(r.tunnel, r.name, r.new, r.meant)
    /\ UNCHANGED pageVars

(* Nothing is changed: there is no such peer, which is a success for a     *)
(* removal, or none is seen while the tunnel is down, or the new name is   *)
(* taken, or the helper fails (for a caller who waits, ApplyFails).        *)
ServeNothing(c) ==
    /\ Served(c)
    /\ calls[c].is = "unheard" \/ calls[c].request.to = "remove"
    /\ UNCHANGED <<pageVars, serverVars>>

(* onApplied, which may take the button away; its refresh is a poll of the *)
(* tunnel that is selected by now.                                         *)
Done(c) ==
    /\ calls[c] # None
    /\ IF calls[c].then = None THEN UNCHANGED <<form, selectedPeerName>>
       ELSE form' = None /\ selectedPeerName' = calls[c].then
    /\ Applied(c, Rendered(status, selectedPeerName', form') # Rendered(status, selectedPeerName, form))
    /\ UNCHANGED <<selectedInterface, status, polls, answers, serverVars>>

OtherAdds(t, n, k) ==
    /\ Cardinality(reused) < MaxReused
    /\ Home[k] = t /\ k \notin {peers[t][m] : m \in Names}
    /\ peers[t][n] = None
    /\ peers' = [peers EXCEPT ![t][n] = k]
    /\ reused' = reused \cup {<<t, n>>}
    /\ UNCHANGED <<buttonVars, pageVars, data>>

OtherRemoves(t, n) ==
    /\ peers[t][n] # None
    /\ Removal(t, n)
    /\ UNCHANGED <<buttonVars, pageVars>>

OtherRenames(t, n, m) ==
    /\ peers[t][n] # None /\ m # n
    /\ Rewrite(t, n, m, peers[t][n])
    /\ UNCHANGED <<buttonVars, pageVars>>

Next ==
    \/ ButtonNext /\ UNCHANGED <<pageVars, serverVars>>
    \/ \E t \in Tunnels :
          \/ selectTunnel(t) \/ PollServed(t)
          \/ \E n \in Names :
                \/ OtherRemoves(t, n)
                \/ \E k \in Keys : OtherAdds(t, n, k)
                \/ \E m \in Names : OtherRenames(t, n, m)
    \/ \E a \in answers : Polled(a)
    \/ PollFails
    \/ \E n \in Names : selectPeer(n) \/ setEditPeerName(n)
    \/ startEditPeer
    \/ cancelEdit
    \/ ClickRemove
    \/ ClickSave
    \/ Confirm
    \/ \E c \in Applies : Serve(c) \/ ServeNothing(c) \/ Done(c)

Spec == Init /\ [][Next]_vars

--------------------------------------------------------------------------------
(* A removal or an edit, also one that keeps the name, is of the peer      *)
(* whose data the user saw or edited when clicking, however many times the *)
(* page was polled, answered late or asked twice, unless the page showed   *)
(* one tunnel's peers under another one's name, or the name went to        *)
(* another key: requests name peers, not keys (WireGuard.jsx:580-606).     *)
ActsOnThePeerShown ==
    [][\A c \in Applies : Serve(c) =>
          LET r == calls[c].request IN
          \/ Holder(r) = r.meant
          \/ Home[r.meant] # r.tunnel
          \/ <<r.tunnel, r.name>> \in reused]_vars

(* While a peer is edited on the tunnel its form was filled from, the form *)
(* is of that peer, unless its name went to another key (selectPeer closes *)
(* the form, WireGuard.jsx:343-346).                                       *)
FormIsOfThePeer ==
    selectedPeer /\ form # None /\ status.tunnel = Home[form.key]
    => \/ status.peers[selectedPeerName] = form.key
       \/ <<status.tunnel, selectedPeerName>> \in reused
================================================================================
