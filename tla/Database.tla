------------------------------ MODULE Database ------------------------------
(* The SQLite store of waf-core/src/database.rs: the blocklist with its        *)
(* expiries, the audit log and the whitelist.  Each method runs one statement  *)
(* under the caller's mutex and SQLite commits it at once, so each is one      *)
(* action and a restart of the process loses nothing.                          *)
(*                                                                             *)
(* ExpiresInThePast, InsertsUnparsed and InsertsReplacing are wrong versions   *)
(* of the definitions that follow them, used to see that the properties notice *)
EXTENDS Naturals, Sequences

CONSTANTS IPs,            \* the strings passed as addresses
          ValidIPs,       \* those is_valid_ip accepts
          AutoBlockTime,  \* '+60 minutes', in ticks of the clock
          Null,           \* expires_at IS NULL
          Requests,       \* the requests audit rows are about
          Scores,         \* threat scores
          WritesMayFail,  \* can an INSERT or DELETE fail (disk full, locked)?
          MaxTime,        \* bound: the clock stops here
          MaxRows         \* bound on the audit log

ASSUME AddressAssumption == ValidIPs \subseteq IPs
ASSUME TimeAssumption    == AutoBlockTime \in Nat /\ MaxTime \in Nat /\ MaxRows \in Nat
ASSUME NullAssumption    == Null \notin Nat

VARIABLES wall,            \* datetime('now')
          blocklist_ips,   \* ip -> expires_at, for the ips with a row
          audit_log,       \* the rows of audit_log, in order of their id
          user_whitelist,  \* the ips with a row
          ok               \* did the last call return Ok?

vars == <<wall, blocklist_ips, audit_log, user_whitelist, ok>>

Row == [ip : IPs, request : Requests, score : Scores]

\* expires_at IS NULL OR expires_at > datetime('now')
Unexpired(expires_at, t) == expires_at = Null \/ expires_at > t

\* A lookup answers from the row, and finds nothing if the row has expired.
IsIpBlocked(ip) == /\ ip \in DOMAIN blocklist_ips
                   /\ Unexpired(blocklist_ips[ip], wall)
IsIpWhitelisted(ip) == ip \in user_whitelist

Init == /\ wall = 0
        /\ blocklist_ips = [ip \in {} |-> Null]
        /\ audit_log = <<>>
        /\ user_whitelist = {}
        /\ ok = TRUE

\* Any statement that writes may fail and leave the tables as they were.
WriteFails == /\ WritesMayFail
              /\ ok' = FALSE
              /\ UNCHANGED <<wall, blocklist_ips, audit_log, user_whitelist>>

\* datetime('now', '+60 minutes'), or NULL
ExpiresInThePast(auto_unblock) == IF auto_unblock THEN wall - AutoBlockTime ELSE Null
Expires(auto_unblock) == IF auto_unblock THEN wall + AutoBlockTime ELSE Null

\* INSERT OR IGNORE against the UNIQUE ip: a row that is there wins, and an
\* address that does not parse is skipped with Ok(()).
InsertsUnparsed(ip)  == ip \notin DOMAIN blocklist_ips
InsertsReplacing(ip) == ip \in ValidIPs
Inserts(ip) == ip \in ValidIPs /\ ip \notin DOMAIN blocklist_ips

AddToBlocklist(ip, auto_unblock) ==
    /\ blocklist_ips' =
         IF Inserts(ip)
         THEN [k \in DOMAIN blocklist_ips \cup {ip} |->
                 IF k = ip THEN Expires(auto_unblock) ELSE blocklist_ips[k]]
         ELSE blocklist_ips
    /\ ok' = TRUE
    /\ UNCHANGED <<wall, audit_log, user_whitelist>>

RemoveFromBlocklist(ip) ==
    /\ blocklist_ips' = [k \in DOMAIN blocklist_ips \ {ip} |-> blocklist_ips[k]]
    /\ ok' = TRUE
    /\ UNCHANGED <<wall, audit_log, user_whitelist>>

LogThreat(ip, r, score) ==
    /\ audit_log' = Append(audit_log, [ip |-> ip, request |-> r, score |-> score])
    /\ ok' = TRUE
    /\ UNCHANGED <<wall, blocklist_ips, user_whitelist>>

AddToWhitelist(ip) ==
    /\ user_whitelist' = user_whitelist \cup ({ip} \cap ValidIPs)
    /\ ok' = TRUE
    /\ UNCHANGED <<wall, blocklist_ips, audit_log>>

Tick == /\ wall < MaxTime
        /\ wall' = wall + 1
        /\ UNCHANGED <<blocklist_ips, audit_log, user_whitelist, ok>>

Next == \/ \E ip \in IPs, auto_unblock \in BOOLEAN : AddToBlocklist(ip, auto_unblock)
        \/ \E ip \in IPs : RemoveFromBlocklist(ip) \/ AddToWhitelist(ip)
        \/ \E ip \in ValidIPs, r \in Requests, score \in Scores :
              Len(audit_log) < MaxRows /\ LogThreat(ip, r, score)
        \/ WriteFails
        \/ Tick

Spec == Init /\ [][Next]_vars

(***************************** properties **************************************)

\* The types of the tables.
TypeOK == /\ wall \in Nat
          /\ DOMAIN blocklist_ips \subseteq ValidIPs
          /\ blocklist_ips \in [DOMAIN blocklist_ips -> Nat \cup {Null}]
          /\ audit_log \in Seq(Row)
          /\ user_whitelist \subseteq ValidIPs
          /\ ok \in BOOLEAN

\* A block in force ends early only when it is lifted (database.rs:102): an
\* automatic 60-minute block of an address an operator blocked for good, or
\* blocked later, leaves the longer block as it is, and so does every other
\* statement, whether it fails or not.
BlockNeverShortened ==
    [][\A ip \in IPs :
         (IsIpBlocked(ip) /\ ~RemoveFromBlocklist(ip)) =>
            \A t \in wall..MaxTime + AutoBlockTime :
               Unexpired(blocklist_ips[ip], t) =>
                  /\ ip \in DOMAIN blocklist_ips'
                  /\ Unexpired(blocklist_ips'[ip], t)]_vars

\* "Add an IP to the blocklist" (database.rs:101): when the call returns Ok the
\* IP is blocked, until its block is lifted or runs out.
AddTakesEffect ==
    [][\A ip \in ValidIPs, auto_unblock \in BOOLEAN :
         AddToBlocklist(ip, auto_unblock) => IsIpBlocked(ip)']_vars
==============================================================================
