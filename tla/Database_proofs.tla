--------------------------- MODULE Database_proofs ---------------------------
(* Proofs about the SQLite store, for any addresses, expiries and scores.      *)
EXTENDS Database, SequenceTheorems, TLAPS

\* An INSERT OR IGNORE adds at most one row, for an address that parses.
LEMMA AddToBlocklistTypes ==
    ASSUME TypeOK, NEW ip \in IPs, NEW auto_unblock \in BOOLEAN,
           AddToBlocklist(ip, auto_unblock)
    PROVE  TypeOK'
<1>1. Expires(auto_unblock) \in Nat \cup {Null}
  BY TimeAssumption DEF Expires, TypeOK
<1>2. CASE Inserts(ip)
  <2>1. blocklist_ips' = [k \in DOMAIN blocklist_ips \cup {ip} |->
                            IF k = ip THEN Expires(auto_unblock) ELSE blocklist_ips[k]]
    BY <1>2 DEF AddToBlocklist
  <2>2. /\ DOMAIN blocklist_ips' \subseteq ValidIPs
        /\ blocklist_ips' \in [DOMAIN blocklist_ips' -> Nat \cup {Null}]
    BY <1>1, <1>2, <2>1 DEF Inserts, TypeOK
  <2> QED BY <2>2 DEF AddToBlocklist, TypeOK
<1>3. CASE ~Inserts(ip)
  BY <1>3 DEF AddToBlocklist, TypeOK
<1> QED BY <1>2, <1>3

\* The tables have their types in every reachable state, whichever statements
\* ran and failed.
THEOREM DatabaseTypes == Spec => []TypeOK
<1>1. Init => TypeOK
  BY EmptySeq DEF Init, TypeOK
<1>2. TypeOK /\ [Next]_vars => TypeOK'
  <2> SUFFICES ASSUME TypeOK, [Next]_vars PROVE TypeOK'
    OBVIOUS
  <2>1. ASSUME NEW ip \in IPs, NEW auto_unblock \in BOOLEAN, AddToBlocklist(ip, auto_unblock)
        PROVE  TypeOK'
    BY <2>1, AddToBlocklistTypes
  <2>2. ASSUME NEW ip \in IPs, RemoveFromBlocklist(ip) \/ AddToWhitelist(ip)
        PROVE  TypeOK'
    BY <2>2 DEF RemoveFromBlocklist, AddToWhitelist, TypeOK
  <2>3. ASSUME NEW ip \in ValidIPs, NEW r \in Requests, NEW score \in Scores,
               LogThreat(ip, r, score)
        PROVE  TypeOK'
    <3>1. [ip |-> ip, request |-> r, score |-> score] \in Row
      BY AddressAssumption DEF Row
    <3>2. audit_log' \in Seq(Row)
      BY <2>3, <3>1, AppendProperties DEF LogThreat, TypeOK
    <3> QED BY <2>3, <3>2 DEF LogThreat, TypeOK
  <2>4. CASE WriteFails
    BY <2>4 DEF WriteFails, TypeOK
  <2>5. CASE Tick
    BY <2>5 DEF Tick, TypeOK
  <2>6. CASE UNCHANGED vars
    BY <2>6 DEF vars, TypeOK
  <2> QED BY <2>1, <2>2, <2>3, <2>4, <2>5, <2>6 DEF Next
<1> QED BY <1>1, <1>2, PTL DEF Spec

\* The row of a blocked address stays as it is until the block is lifted.
LEMMA RowStays ==
    ASSUME [Next]_vars, NEW ip \in IPs, IsIpBlocked(ip), ~RemoveFromBlocklist(ip)
    PROVE  ip \in DOMAIN blocklist_ips' /\ blocklist_ips'[ip] = blocklist_ips[ip]
<1>0. ip \in DOMAIN blocklist_ips
  BY DEF IsIpBlocked
<1>1. ASSUME NEW other \in IPs, NEW auto_unblock \in BOOLEAN,
             AddToBlocklist(other, auto_unblock)
      PROVE  ip \in DOMAIN blocklist_ips' /\ blocklist_ips'[ip] = blocklist_ips[ip]
  <2>1. CASE Inserts(other)
    <3>1. ip # other
      BY <1>0, <2>1 DEF Inserts
    <3>2. blocklist_ips' = [k \in DOMAIN blocklist_ips \cup {other} |->
                              IF k = other THEN Expires(auto_unblock) ELSE blocklist_ips[k]]
      BY <1>1, <2>1 DEF AddToBlocklist
    <3> QED BY <1>0, <3>1, <3>2
  <2>2. CASE ~Inserts(other)
    BY <1>0, <1>1, <2>2 DEF AddToBlocklist
  <2> QED BY <2>1, <2>2
<1>2. ASSUME NEW other \in IPs, RemoveFromBlocklist(other)
      PROVE  ip \in DOMAIN blocklist_ips' /\ blocklist_ips'[ip] = blocklist_ips[ip]
  <2>1. ip # other
    BY <1>2
  <2>2. blocklist_ips' = [k \in DOMAIN blocklist_ips \ {other} |-> blocklist_ips[k]]
    BY <1>2 DEF RemoveFromBlocklist
  <2> QED BY <1>0, <2>1, <2>2
<1>3. ASSUME UNCHANGED blocklist_ips
      PROVE  ip \in DOMAIN blocklist_ips' /\ blocklist_ips'[ip] = blocklist_ips[ip]
  BY <1>0, <1>3
<1>4. \/ \E other \in IPs, auto_unblock \in BOOLEAN : AddToBlocklist(other, auto_unblock)
      \/ \E other \in IPs : RemoveFromBlocklist(other)
      \/ UNCHANGED blocklist_ips
  BY DEF Next, AddToWhitelist, LogThreat, WriteFails, Tick, vars
<1> QED BY <1>1, <1>2, <1>3, <1>4

\* No statement but the DELETE ever shortens a block in force, for any addresses
\* and expiries (database.rs:102).
THEOREM BlocksAreKept == Spec => BlockNeverShortened
<1> DEFINE Kept == \A ip \in IPs :
                     (IsIpBlocked(ip) /\ ~RemoveFromBlocklist(ip)) =>
                        \A t \in wall..MaxTime + AutoBlockTime :
                           Unexpired(blocklist_ips[ip], t) =>
                              /\ ip \in DOMAIN blocklist_ips'
                              /\ Unexpired(blocklist_ips'[ip], t)
<1>1. [Next]_vars => [Kept]_vars
  BY RowStays DEF Unexpired
<1>2. BlockNeverShortened <=> [][Kept]_vars
  BY DEF BlockNeverShortened
<1> HIDE DEF Kept
<1> QED BY <1>1, <1>2, PTL DEF Spec
==============================================================================
