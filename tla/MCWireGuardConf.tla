--------------------------- MODULE MCWireGuardConf -----------------------------
(* WireGuardConf on small instances: names and keys can be exchanged.      *)
EXTENDS WireGuardConf, TLC

OneRange == CHOOSE r \in Ranges : TRUE

Fields(k) == <<Header, KeyLine(k), RangeLine(OneRange)>>

(* What may be typed in: nothing, a name twice, a key twice, a marker at   *)
(* the end or beside another, and what WireGuard refuses.                  *)
SomeTexts ==
    {<<>>, <<Header, RangeLine(OneRange)>>}
    \cup {<<NameLine(n)>> \o Fields(k) \o <<NameLine(n)>> \o Fields(l) : n \in PeerNames, k, l \in PublicKeys}
    \cup {<<NameLine(n)>> \o Fields(k) \o <<NameLine(m)>> \o Fields(k) : n, m \in PeerNames, k \in PublicKeys}
    \cup {<<NameLine(n), NameLine(m)>> \o Fields(k) \o <<NameLine(n)>> : n, m \in PeerNames, k \in PublicKeys}

Interchangeable == Permutations(PeerNames) \cup Permutations(PublicKeys)
================================================================================
