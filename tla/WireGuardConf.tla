----------------------------- MODULE WireGuardConf -----------------------------
(***************************************************************************)
(* The peers of one WireGuard tunnel: the lines of its file as the helper  *)
(* scripts edit them, the peers the running interface has, and the actions *)
(* of the backend (scripts/wireguard_*.sh, catalog/actions/wireguard.js).  *)
(*                                                                         *)
(* The helpers edit lines, with comments for what WireGuard has no field   *)
(* for; what the lines mean is defined apart from that, in Peers.  A       *)
(* deviceType line is treated as a group line is and left out.             *)
(* Actions of the apply queue do not overlap, so a helper is two steps:    *)
(* up to the new file, and the check and synchronisation after it.         *)
(***************************************************************************)
EXTENDS Naturals, Sequences, FiniteSets, SequencesExt

CONSTANTS
    PeerNames, PublicKeys, PrivateKeys,
    Ranges,         \* AllowedIPs
    RawTexts,       \* bound: what the raw editor may make of the lines
    Mangled,        \* a PrivateKey that is none: garbage, or the sentinel in
                    \*   a spelling that setraw does not look for
    Mixed,          \* the peers of an interface that is out of step
    FirstPeers,     \* bound: [Peer] sections in the file at the start
    MaxPeers,       \* bound: [Peer] sections in the file
    Nil

Sentinel == "<REDACTED>"
Header == [line |-> "Peer"]                     \* [Peer]
NameLine(n) == [line |-> "name", is |-> n]      \* # name: n
GroupLine == [line |-> "group"]                 \* # group: of the peer
KeyLine(k) == [line |-> "PublicKey", is |-> k]
RangeLine(r) == [line |-> "AllowedIPs", is |-> r]

Lines == {Header, GroupLine} \cup {NameLine(n) : n \in PeerNames}
         \cup {KeyLine(k) : k \in PublicKeys} \cup {RangeLine(r) : r \in Ranges}

VARIABLES
    private,        \* the PrivateKey of the file: Nil if there is none
    typed,          \* history: what was last typed in for it, or found
    conf,           \* the lines after the [Interface] section
    kernel,         \* what the running interface has: Nil if it is down,
                    \*   Mixed if a synchronisation was cut off or failed
    op,             \* the helper between its new file and its end
    answer          \* the last action that did not change anything

confVars == <<private, typed, conf, kernel, op, answer>>

--------------------------------------------------------------------------------
(* The meaning of the lines: a marker belongs to the next PublicKey        *)
(* (wireguard_status.sh show).                                             *)
Is(lines, i, what) == lines[i].line = what

KeysAt(lines) == {i \in DOMAIN lines : Is(lines, i, "PublicKey")}
Before(lines, i) == {j \in 1 .. i - 1 : \A m \in j .. i - 1 : m \notin KeysAt(lines)}
After(lines, i) == {j \in i + 1 .. Len(lines) : \A m \in i + 1 .. j : m \notin KeysAt(lines)}

LastMarked(lines, at) ==
    IF at = {} THEN Nil
    ELSE lines[CHOOSE i \in at : \A j \in at : j <= i].is

PeerAtMarkersAfter(lines, i) ==
    [key   |-> lines[i].is,
     name  |-> LastMarked(lines, {j \in After(lines, i) : Is(lines, j, "name")}),
     group |-> \E j \in Before(lines, i) : Is(lines, j, "group"),
     range |-> LastMarked(lines, {j \in After(lines, i) : Is(lines, j, "AllowedIPs")})]

PeerAt(lines, i) ==
    [key   |-> lines[i].is,
     name  |-> LastMarked(lines, {j \in Before(lines, i) : Is(lines, j, "name")}),
     group |-> \E j \in Before(lines, i) : Is(lines, j, "group"),
     range |-> LastMarked(lines, {j \in After(lines, i) : Is(lines, j, "AllowedIPs")})]

Peers(lines) == {PeerAt(lines, i) : i \in KeysAt(lines)}

(* What the page lists: of a key that is there twice the later markers.    *)
Listed(lines) ==
    {PeerAt(lines, i) : i \in {j \in KeysAt(lines) : \A m \in KeysAt(lines) : lines[m] = lines[j] => m <= j}}

(* What WireGuard itself reads, whatever stands in the comments: sections, *)
(* each up to the next.  The last key of a section counts, and the last    *)
(* section of a key.                                                       *)
HeadersAt(lines) == {i \in DOMAIN lines : Is(lines, i, "Peer")}

Section(lines, h) == {i \in h + 1 .. Len(lines) : \A j \in h + 1 .. i : ~Is(lines, j, "Peer")}

SectionKey(lines, h) == LastMarked(lines, Section(lines, h) \cap KeysAt(lines))

SectionPeer(lines, h) ==
    [key    |-> SectionKey(lines, h),
     ranges |-> {lines[i].is : i \in {j \in Section(lines, h) : Is(lines, j, "AllowedIPs")}}]

Stripped(lines) ==
    {SectionPeer(lines, h) :
        h \in {g \in HeadersAt(lines) :
                 \A f \in HeadersAt(lines) : SectionKey(lines, f) = SectionKey(lines, g) => f <= g}}

(* ... and what it accepts: no field before the first section, a key in    *)
(* each, and no PrivateKey that is none (wg setconf, wg syncconf).         *)
Accepts(key, lines) ==
    /\ key # Mangled
    /\ \A i \in DOMAIN lines :
          lines[i].line \in {"PublicKey", "AllowedIPs"} => \E h \in HeadersAt(lines) : h < i
    /\ \A h \in HeadersAt(lines) : Section(lines, h) \cap KeysAt(lines) # {}

(* The lines from a name marker to the one before the next marker          *)
Marker(lines, n) == {i \in DOMAIN lines : lines[i] = NameLine(n)}
Region(lines, m) ==
    {i \in m .. Len(lines) : \A j \in m + 1 .. i : ~Is(lines, j, "name")}

(* The helpers can tell the peer from the others: its markers stand        *)
(* together, name first, and the next peer has a name of its own.          *)
GroupAfterName(lines, i) == i > 1 /\ Is(lines, i - 1, "name")

Alone(lines, m) ==
    /\ Cardinality(Region(lines, m) \cap KeysAt(lines)) = 1
    /\ \A i \in Region(lines, m) \cup {m - 1} :
          i \in DOMAIN lines /\ Is(lines, i, "group") => i = m + 1

(* The file as helpers write it: the fields of a peer stand together,      *)
(* right after its markers, and no name and no key is there twice          *)
(* (wireguard_peer_add.sh:55-62).                                          *)
Kind(lines, i, what) == i \in DOMAIN lines /\ Is(lines, i, what)

Formed(lines) ==
    \A i \in DOMAIN lines :
        /\ Is(lines, i, "Peer") => Kind(lines, i + 1, "PublicKey")
        /\ Is(lines, i, "PublicKey") => Kind(lines, i - 1, "Peer") /\ Kind(lines, i + 1, "AllowedIPs")
        /\ Is(lines, i, "AllowedIPs") => Kind(lines, i - 1, "PublicKey")
        /\ Is(lines, i, "name") =>
              \/ Kind(lines, i + 1, "Peer")
              \/ Kind(lines, i + 1, "group") /\ Kind(lines, i + 2, "Peer")

OnceEach(lines) ==
    \A i, j \in DOMAIN lines :
        lines[i] = lines[j] /\ lines[i].line \in {"PublicKey", "name"} => i = j

Orderly(lines) == Formed(lines) /\ OnceEach(lines)

Tidy(lines) ==
    \A i \in DOMAIN lines :
        /\ Is(lines, i, "name") => Alone(lines, i)
        /\ Is(lines, i, "group") => GroupAfterName(lines, i)
        /\ Is(lines, i, "Peer") => GroupAfterName(lines, i) \/ (i > 1 /\ Is(lines, i - 1, "group"))

--------------------------------------------------------------------------------
(* wireguard_peer_remove.sh, as awk reads it: line by line                 *)
RemovePeerToKey(lines, n) ==
    FoldLeft(LAMBDA acc, l :
                LET skip == (acc.skip /\ l.line # "PublicKey") \/ l = NameLine(n)
                IN  [skip |-> skip, out |-> IF skip THEN acc.out ELSE Append(acc.out, l)],
             [skip |-> FALSE, out |-> <<>>], lines).out

RemovePeer(lines, n) ==
    FoldLeft(LAMBDA acc, l :
                LET skip == (acc.skip /\ l.line # "name") \/ l = NameLine(n)
                IN  [skip |-> skip, out |-> IF skip THEN acc.out ELSE Append(acc.out, l)],
             [skip |-> FALSE, out |-> <<>>], lines).out

Marked(n, group) == IF group THEN <<NameLine(n), GroupLine>> ELSE <<NameLine(n)>>

(* wireguard_peer_update.sh                                                *)
UpdatedLine(inside, l, n, new, group, r) ==
    CASE l = NameLine(n)                  -> Marked(new, group)
      [] inside /\ l.line = "group"       -> <<>>
      [] inside /\ l.line = "AllowedIPs"  -> <<RangeLine(r)>>
      [] OTHER                            -> <<l>>

UpdatePeer(lines, n, new, group, r) ==
    FoldLeft(LAMBDA acc, l :
                LET inside == (acc.inside /\ l.line # "name") \/ l = NameLine(n)
                IN  [inside |-> inside,
                     out |-> acc.out \o UpdatedLine(inside, l, n, new, group, r)],
             [inside |-> FALSE, out |-> <<>>], lines).out

(* wireguard_peer_add.sh                                                   *)
AddPeerGroupLast(lines, n, group, k, r) ==
    lines \o <<NameLine(n), Header, KeyLine(k), RangeLine(r)>>
          \o (IF group THEN <<GroupLine>> ELSE <<>>)

AddPeer(lines, n, group, k, r) ==
    lines \o Marked(n, group) \o <<Header, KeyLine(k), RangeLine(r)>>

--------------------------------------------------------------------------------
(* A file made by hand or by the raw editor: each peer with or without     *)
(* name and group, in either order.                                        *)
Block(n, group, first, k, r) ==
    (IF group /\ first THEN <<GroupLine>> ELSE <<>>)
    \o (IF n # Nil THEN <<NameLine(n)>> ELSE <<>>)
    \o (IF group /\ ~first THEN <<GroupLine>> ELSE <<>>)
    \o <<Header, KeyLine(k), RangeLine(r)>>

Blocks == [name : PeerNames \cup {Nil}, group : BOOLEAN, first : BOOLEAN, key : PublicKeys, range : Ranges]

Written(blocks) ==
    FoldLeft(LAMBDA lines, b : lines \o Block(b.name, b.group, b.first, b.key, b.range), <<>>, blocks)

Distinct(blocks) ==
    /\ \A i, j \in DOMAIN blocks : i # j =>
          /\ blocks[i].key # blocks[j].key
          /\ blocks[i].name = Nil \/ blocks[i].name # blocks[j].name
    /\ \A i \in DOMAIN blocks : blocks[i].first => blocks[i].group /\ blocks[i].name # Nil

Files == {Written(b) : b \in {c \in UNION {[1 .. m -> Blocks] : m \in 0 .. FirstPeers} : Distinct(c)}}

NamesIn(lines) == {lines[i].is : i \in {j \in DOMAIN lines : Is(lines, j, "name")}}
KeysIn(lines) == {lines[i].is : i \in KeysAt(lines)}

Changes ==
    [to : {"add"}, name : PeerNames, group : BOOLEAN, key : PublicKeys, range : Ranges]
    \cup [to : {"update"}, name : PeerNames, new : PeerNames, group : BOOLEAN, range : Ranges]
    \cup [to : {"remove"}, name : PeerNames]
    \cup [to : {"setraw"}]

PeerSets == SUBSET [key : PublicKeys \cup {Nil}, ranges : SUBSET Ranges]
KeyTexts == PrivateKeys \cup {Mangled, Nil}

Pending == [conf : Seq(Lines), private : KeyTexts, typed : KeyTexts, does : Changes]
Answers == [to : {"add", "remove", "update"}, name : PeerNames, up : BOOLEAN, is : {"satisfied", "refused"}]

ASSUME ConfConstants ==
    /\ {Nil, Mixed} \cap (PeerNames \cup PublicKeys \cup PrivateKeys \cup Ranges) = {}
    /\ Nil # Mangled /\ Mangled \notin PrivateKeys
    /\ Nil \notin Pending
    /\ FirstPeers \in Nat /\ MaxPeers \in Nat
    /\ RawTexts \subseteq Seq(Lines)

ConfTypeOK ==
    /\ private \in KeyTexts
    /\ typed \in KeyTexts
    /\ conf \in Seq(Lines)
    /\ kernel \in PeerSets \cup {Nil, Mixed}
    /\ op \in Pending \cup {Nil}
    /\ answer \in Answers \cup {Nil}

ConfInit ==
    /\ private \in PrivateKeys
    /\ typed = private
    /\ conf \in Files
    /\ kernel \in {Nil, Stripped(conf)}
    /\ op = Nil
    /\ answer = Nil

--------------------------------------------------------------------------------
(* What wireguard.status shows: nothing while the interface is down.       *)
Shown ==
    CASE kernel = Nil   -> {{}}
      [] kernel = Mixed -> SUBSET Listed(conf)
      [] OTHER          -> {{p \in Listed(conf) : \E q \in kernel : q.key = p.key}}

Named(peers, n) == \E p \in peers : p.name = n

Respond(does, is) ==
    /\ answer' = [to |-> does.to, name |-> does.name, up |-> kernel # Nil /\ kernel # Mixed, is |-> is]
    /\ UNCHANGED <<private, conf, kernel, op>>

(* The helper up to atomic_write                                           *)
Write(does, lines, key) ==
    /\ op' = [conf |-> conf, private |-> private, typed |-> typed, does |-> does]
    /\ conf' = lines
    /\ private' = key
    /\ answer' = Nil
    /\ UNCHANGED kernel

(* No peer is added without the public key of the tunnel (wg pubkey).      *)
peerAdd(does) ==
    /\ Cardinality(KeysAt(conf)) < MaxPeers
    /\ UNCHANGED typed
    /\ \E shown \in Shown :
          IF Named(shown, does.name) THEN Respond(does, "satisfied")
          ELSE IF \/ does.name \in NamesIn(conf) \/ does.key \in KeysIn(conf)
                  \/ private \notin PrivateKeys
          THEN Respond(does, "refused")
          ELSE Write(does, AddPeer(conf, does.name, does.group, does.key, does.range), private)

peerUpdate(does) ==
    /\ UNCHANGED typed
    /\ \E shown \in Shown :
        IF Named(shown, does.name) /\ (does.new = does.name \/ does.new \notin NamesIn(conf))
        THEN Write(does, UpdatePeer(conf, does.name, does.new, does.group, does.range), private)
        ELSE Respond(does, "refused")

peerRemove(does) ==
    /\ UNCHANGED typed
    /\ \E shown \in Shown :
        IF Named(shown, does.name) THEN Write(does, RemovePeer(conf, does.name), private)
                                   ELSE Respond(does, "satisfied")

(* The raw editor shows the sentinel instead of the private key; setraw    *)
(* puts the current key back in its place, and an empty one if there is    *)
(* none.  Any text can be typed in, and anything or nothing for the key.   *)
SpliceNothing(key) == key

Splice(key) ==
    IF key # Sentinel THEN key
    ELSE IF private = Nil THEN Mangled
    ELSE private

setConfigRaw(does) ==
    \E key \in KeyTexts \cup {Sentinel}, lines \in RawTexts \cup {conf} :
        /\ Write(does, lines, Splice(key))
        /\ typed' = IF key = Sentinel THEN typed ELSE key

(* wg-quick strip, which takes anything, and, if the interface is up, wg   *)
(* syncconf.                                                               *)
Synchronise ==
    /\ op # Nil
    /\ kernel # Nil => Accepts(private, conf)
    /\ op' = Nil
    /\ kernel' = IF kernel = Nil THEN Nil ELSE Stripped(conf)
    /\ UNCHANGED <<private, typed, conf, answer>>

PutBack ==
    /\ conf' = op.conf
    /\ private' = op.private
    /\ typed' = op.typed

StripFailsNotPutBack ==
    /\ op # Nil
    /\ op' = Nil
    /\ UNCHANGED <<private, typed, conf, kernel, answer>>

StripFails ==
    /\ op # Nil
    /\ PutBack
    /\ op' = Nil
    /\ UNCHANGED <<kernel, answer>>

(* The file is put back, what the kernel has taken over by then is not.    *)
SynchroniseFails ==
    /\ op # Nil /\ kernel # Nil
    /\ PutBack
    /\ kernel' \in {kernel, Mixed}
    /\ op' = Nil
    /\ UNCHANGED answer

(* The time limit, the end of the backend, or a check that fails with      *)
(* nothing to put back: backup_file goes on when its cp has failed         *)
(* (lib/common.sh:22).                                                     *)
Killed ==
    /\ op # Nil
    /\ kernel' = IF kernel = Nil THEN Nil ELSE Mixed
    /\ op' = Nil
    /\ UNCHANGED <<private, typed, conf, answer>>

(* wg-quick up and down, from the services page or by hand                 *)
Up ==
    /\ op = Nil /\ kernel = Nil
    /\ Accepts(private, conf)
    /\ kernel' = Stripped(conf)
    /\ UNCHANGED <<private, typed, conf, op, answer>>

Down ==
    /\ op = Nil /\ kernel # Nil
    /\ kernel' = Nil
    /\ UNCHANGED <<private, typed, conf, op, answer>>

ConfNext ==
    \/ /\ op = Nil
       /\ \E does \in Changes :
             \/ does.to = "add" /\ peerAdd(does)
             \/ does.to = "update" /\ peerUpdate(does)
             \/ does.to = "remove" /\ peerRemove(does)
             \/ does.to = "setraw" /\ setConfigRaw(does)
    \/ Synchronise
    \/ StripFails
    \/ SynchroniseFails
    \/ Killed
    \/ Up
    \/ Down

ConfSpec == ConfInit /\ [][ConfNext]_confVars

--------------------------------------------------------------------------------
Begins(to) == op = Nil /\ op' # Nil /\ op'.does.to = to

(* A removal takes the named peer out of the file, an update changes its   *)
(* name, group and addresses and never its key; every other peer stays as  *)
(* it was, in a file with nothing twice and provided the helper can tell   *)
(* where the named peer ends                                               *)
(* (wireguard_peer_remove.sh:30-38: "Removes the named peer's block";      *)
(* wireguard_peer_update.sh:3-9).                                          *)
OnlyTheNamedPeerChanges ==
    [][\A to \in {"remove", "update"} : Begins(to) /\ Orderly(conf) =>
          LET d == op'.does
              Updated(p) == [p EXCEPT !.name = d.new, !.group = d.group, !.range = d.range]
              Others == {p \in Peers(conf) : p.name # d.name}
              Left == IF to = "remove" THEN {}
                      ELSE {Updated(p) : p \in {q \in Peers(conf) : q.name = d.name}}
          IN  (\A m \in Marker(conf, d.name) : Alone(conf, m)) => Peers(conf') = Others \cup Left]_confVars

(* The helpers keep a file in the form in which they can tell peers apart: *)
(* no name and no key comes to be there twice, the provisos above stay     *)
(* true.  Only the raw editor can break it                                 *)
(* (wireguard_peer_add.sh:55-62, 80-93, wireguard_peer_update.sh:71-102).  *)
TidyStays ==
    [][\A to \in {"add", "update", "remove"} : Begins(to) /\ Orderly(conf) =>
          Orderly(conf') /\ (Tidy(conf) => Tidy(conf'))]_confVars

(* The interface has the peers of the file, and the file is one that it    *)
(* would take again, unless a helper was killed or had no backup to put    *)
(* back, or a synchronisation failed half-way, since the last one that     *)
(* worked                                                                  *)
(* (wireguard_peer_add.sh:96-112 and its like).                            *)
KernelFollowsTheFile ==
    op = Nil /\ kernel \notin {Nil, Mixed} => kernel = Stripped(conf) /\ Accepts(private, conf)

(* Who is told that there is no such peer can rely on it, unless the       *)
(* interface is down or out of step, or the file has something twice or    *)
(* out of place: the action asks the interface, not the file               *)
(* (actions/wireguard.js:378-388, "Already satisfied (no such peer)").     *)
NoSuchPeerIsTrue ==
    answer # Nil /\ answer.to = "remove" /\ answer.up /\ Orderly(conf) => answer.name \notin NamesIn(conf)

(* The private key of the file is the one found or last typed in: editing  *)
(* with the sentinel in its place keeps it, through edits that are put     *)
(* back, killed or followed by others (wireguard_config.sh:13-18).  Where  *)
(* none was left there is none, or an empty one.                           *)
PrivateKeyIsKept == private = typed \/ (typed = Nil /\ private = Mangled)
================================================================================
