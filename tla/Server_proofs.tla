----------------------------- MODULE Server_proofs -----------------------------
(* Proofs about the configuration and the server: what load() and sanitize()   *)
(* guarantee for every file, whatever its author wrote or left out, and what   *)
(* the server keeps for any number of connections, any requests and any files. *)
EXTENDS Server, SequenceTheorems, TLAPS

(***************************** clamps ******************************************)

\* WithinBounds clamps, and leaves alone what is within bounds.
LEMMA ClampFacts ==
    ASSUME NEW n \in Nat
    PROVE  /\ ClampWeight(n) \in 1..100
           /\ n \in 1..100 => ClampWeight(n) = n
           /\ ClampPathLength(n) \in 8..32
           /\ n \in 8..32 => ClampPathLength(n) = n
           /\ ClampThreshold(n) \in 0..100
           /\ n \in 0..100 => ClampThreshold(n) = n
           /\ ClampThreshold(n) = 0 => n = 0
           /\ ResetConfidence(n) \in 10..100
           /\ n \in 10..100 => ResetConfidence(n) = n
BY DEF ClampWeight, ClampPathLength, ClampThreshold, ResetConfidence, WithinBounds

(***************************** load ********************************************)

\* The weights, by their names.
LEMMA WeightNames ==
    {"sql_injection_weight", "xss_weight", "command_injection_weight", "lfi_rfi_weight",
     "ssti_weight", "ssrf_weight", "deserialization_weight", "header_injection_weight",
     "path_traversal_weight", "protocol_violation_weight", "bot_detection_weight"}
    \subseteq Weights
BY DEF Weights, Keys, KeyType

\* The fields of the scoring section are numbers, the weights among them.
LEMMA ScoringKeys ==
    /\ "scoring" \in Sections /\ "admin_auth" \in Sections
    /\ \A k \in Keys("scoring") : KeyType["scoring"][k] = "number"
    /\ "path_length" \in Keys("admin_auth")
    /\ KeyType["admin_auth"]["path_length"] = "number"
    /\ Weights \subseteq Keys("scoring")
    /\ {"threat_threshold", "high_confidence_threshold"} \subseteq Keys("scoring")
    /\ "threat_threshold" \notin Weights /\ "high_confidence_threshold" \notin Weights
BY DEF KeyType, Sections, Keys, Weights

\* Every default of a number is a number.
LEMMA DefaultsAreNumbers ==
    /\ \A k \in Keys("scoring") :
          /\ KeyDefault("scoring", k) \in Nat
          /\ SectionDefault("scoring", k) \in Nat
          /\ WholeDefault["scoring"][k] \in Nat
    /\ KeyDefault("admin_auth", "path_length") \in Nat
    /\ SectionDefault("admin_auth", "path_length") \in Nat
    /\ WholeDefault["admin_auth"]["path_length"] \in Nat
<1>0. Zero["number"] = 0
  BY DEF Zero
<1>1. \A k \in Keys("scoring") : ZeroOf("scoring", k) = 0
  BY <1>0, ScoringKeys DEF ZeroOf
<1>2. ZeroOf("admin_auth", "path_length") = 0
  BY <1>0, ScoringKeys DEF ZeroOf
<1>3. \A k \in Keys("scoring") : KeyDefault("scoring", k) \in Nat
  <2>1. \A k \in DOMAIN Named["scoring"] : Named["scoring"][k] \in Nat
    BY DEF Named
  <2> QED BY <2>1, <1>1 DEF KeyDefault, Entry
<1>4. KeyDefault("admin_auth", "path_length") \in Nat
  <2>1. \A k \in {"path_length"} \cap DOMAIN Named["admin_auth"] : Named["admin_auth"][k] \in Nat
    BY DEF Named
  <2> QED BY <2>1, <1>2 DEF KeyDefault, Entry
<1>5. "scoring" \notin DOMAIN Written /\ "admin_auth" \notin DOMAIN Written
  BY DEF Written
<1>6. \A k \in Keys("scoring") : WholeDefault["scoring"][k] = KeyDefault("scoring", k)
  BY <1>5, ScoringKeys DEF WholeDefault, Entry
<1>7. WholeDefault["admin_auth"]["path_length"] = KeyDefault("admin_auth", "path_length")
  BY <1>5, ScoringKeys DEF WholeDefault, Entry
<1> QED BY <1>1, <1>3, <1>4, <1>6, <1>7 DEF SectionDefault

\* So is every default of the limits.
LEMMA LimitDefaultsAreNumbers ==
    ASSUME NEW s, NEW k,
           \/ s = "rate_limiting" /\ k \in {"requests_per_window", "burst_allowance"}
           \/ s = "waf" /\ k = "max_body_size"
    PROVE  /\ s \in Sections /\ k \in Keys(s) /\ KeyType[s][k] = "number"
           /\ KeyDefault(s, k) \in Nat
           /\ SectionDefault(s, k) \in Nat
           /\ WholeDefault[s][k] \in Nat
<1>1. s \in Sections /\ k \in Keys(s) /\ KeyType[s][k] = "number"
  BY DEF KeyType, Sections, Keys
<1>2. s \in DOMAIN Named /\ k \in DOMAIN Named[s] /\ Named[s][k] \in Nat
  BY DEF Named
<1>3. KeyDefault(s, k) \in Nat
  BY <1>2 DEF KeyDefault, Entry
<1>4. Zero["number"] = 0
  BY DEF Zero
<1>5. SectionDefault(s, k) \in Nat
  BY <1>1, <1>3, <1>4 DEF SectionDefault, ZeroOf
<1>6. ~(s \in DOMAIN Written /\ k \in DOMAIN Written[s])
  <2>1. Written["rate_limiting"] = [enabled |-> TRUE]
    BY DEF Written
  <2>2. Written["waf"] = [strict_mode |-> TRUE]
    BY DEF Written
  <2> QED BY <2>1, <2>2
<1>7. WholeDefault[s][k] = KeyDefault(s, k)
  BY <1>1, <1>6 DEF WholeDefault, Entry
<1> QED BY <1>1, <1>3, <1>5, <1>7

\* load() makes numbers of these fields.
LEMMA LoadedNumbers ==
    ASSUME NEW f, WellTyped(f)
    PROVE  /\ \A k \in Keys("scoring") : Load(f)["scoring"][k] \in Nat
           /\ Load(f)["admin_auth"]["path_length"] \in Nat
           /\ Load(f)["rate_limiting"]["requests_per_window"] \in Nat
           /\ Load(f)["rate_limiting"]["burst_allowance"] \in Nat
           /\ Load(f)["waf"]["max_body_size"] \in Nat
<1>1. ASSUME NEW s \in Sections, NEW k \in Keys(s), KeyType[s][k] = "number",
             KeyDefault(s, k) \in Nat, SectionDefault(s, k) \in Nat,
             WholeDefault[s][k] \in Nat
      PROVE  Load(f)[s][k] \in Nat
  <2>1. CASE ~Parses(f)
    BY <1>1, <2>1 DEF Load
  <2>2. CASE Parses(f)
    <3>1. Load(f)[s][k] = IF Given(f, s)
                          THEN Entry(f.keys, s, k, KeyDefault(s, k))
                          ELSE SectionDefault(s, k)
      BY <2>2 DEF Load
    <3>2. s \in DOMAIN f.keys /\ k \in DOMAIN f.keys[s] => f.keys[s][k] \in Nat
      BY <1>1 DEF WellTyped
    <3> QED BY <1>1, <3>1, <3>2 DEF Entry
  <2> QED BY <2>1, <2>2
<1>2. ASSUME NEW s, NEW k,
             \/ s = "rate_limiting" /\ k \in {"requests_per_window", "burst_allowance"}
             \/ s = "waf" /\ k = "max_body_size"
      PROVE  Load(f)[s][k] \in Nat
  BY <1>1, <1>2, LimitDefaultsAreNumbers
<1> QED BY <1>1, <1>2, ScoringKeys, DefaultsAreNumbers

(***************************** sanitize ****************************************)

\* Where sanitize() leaves the fields it touches, and all it does not.
LEMMA SanitizedFields ==
    ASSUME NEW f, WellTyped(f)
    PROVE  LET before == Load(f)
               after  == Sanitize(before)
           IN  /\ \A k \in Weights : after.scoring[k] = ClampWeight(before.scoring[k])
               /\ after.scoring.threat_threshold =
                     ClampThreshold(before.scoring.threat_threshold)
               /\ after.scoring.high_confidence_threshold =
                     ResetConfidence(before.scoring.high_confidence_threshold)
               /\ after.admin_auth.path_length =
                     ClampPathLength(before.admin_auth.path_length)
               /\ \A s \in Sections \ {"scoring", "admin_auth"} : after[s] = before[s]
               /\ after.admin_auth.token = before.admin_auth.token
<1> DEFINE before == Load(f)
           after  == Sanitize(before)
<1>1. DOMAIN before = Sections
  BY DEF Load, WholeDefault
<1>2. DOMAIN before["admin_auth"] = Keys("admin_auth")
  BY ScoringKeys DEF Load, WholeDefault
<1>3. after.scoring = [k \in Keys("scoring") |->
          CASE k \in Weights                   -> ClampWeight(before.scoring[k])
            [] k = "threat_threshold"          -> ClampThreshold(before.scoring[k])
            [] k = "high_confidence_threshold" -> ResetConfidence(before.scoring[k])
            [] OTHER                           -> before.scoring[k]]
  BY <1>1, ScoringKeys DEF Sanitize
<1>4. after.admin_auth = [before.admin_auth EXCEPT !.path_length = ClampPathLength(@)]
  BY <1>1, ScoringKeys DEF Sanitize
<1>5. \A s \in Sections \ {"scoring", "admin_auth"} : after[s] = before[s]
  BY <1>1 DEF Sanitize
<1>6. \A k \in Weights : after.scoring[k] = ClampWeight(before.scoring[k])
  BY <1>3, ScoringKeys
<1>7. after.scoring.threat_threshold = ClampThreshold(before.scoring.threat_threshold)
  BY <1>3, ScoringKeys
<1>8. after.scoring.high_confidence_threshold =
        ResetConfidence(before.scoring.high_confidence_threshold)
  BY <1>3, ScoringKeys
<1>9. /\ after.admin_auth.path_length = ClampPathLength(before.admin_auth.path_length)
      /\ after.admin_auth.token = before.admin_auth.token
  BY <1>2, <1>4, ScoringKeys
<1> QED BY <1>5, <1>6, <1>7, <1>8, <1>9

\* Whatever a file says, the server starts with weights of 1 to 100, a threshold
\* of at most 100, a confidence threshold of 10 to 100 percent and a prefix of 8
\* to 32 digits (WafConfig::load and WafConfig::sanitize).
THEOREM SanitizedWithinRange ==
    ASSUME NEW f, WellTyped(f)
    PROVE  LET checked == Sanitize(Load(f))
           IN  /\ \A k \in Weights : checked.scoring[k] \in 1..100
               /\ checked.scoring.threat_threshold \in 0..100
               /\ checked.scoring.high_confidence_threshold \in 10..100
               /\ checked.admin_auth.path_length \in 8..32
BY SanitizedFields, LoadedNumbers, ClampFacts, ScoringKeys

\* Eleven weights of 1 to 100 add up to more than 10.
LEMMA TotalOfWeights ==
    ASSUME NEW s, \A k \in Weights : s[k] \in 1..100
    PROVE  ~(TotalWeight(s) < 10)
<1>1. \A k \in Weights : s[k] \in Nat /\ s[k] >= 1
  OBVIOUS
<1>2. /\ s.sql_injection_weight \in Nat /\ s.sql_injection_weight >= 1
      /\ s.xss_weight \in Nat /\ s.xss_weight >= 1
      /\ s.command_injection_weight \in Nat /\ s.command_injection_weight >= 1
      /\ s.lfi_rfi_weight \in Nat /\ s.lfi_rfi_weight >= 1
      /\ s.ssti_weight \in Nat /\ s.ssti_weight >= 1
      /\ s.ssrf_weight \in Nat /\ s.ssrf_weight >= 1
      /\ s.deserialization_weight \in Nat /\ s.deserialization_weight >= 1
      /\ s.header_injection_weight \in Nat /\ s.header_injection_weight >= 1
      /\ s.path_traversal_weight \in Nat /\ s.path_traversal_weight >= 1
      /\ s.protocol_violation_weight \in Nat /\ s.protocol_violation_weight >= 1
      /\ s.bot_detection_weight \in Nat /\ s.bot_detection_weight >= 1
  BY <1>1, WeightNames
<1> QED BY <1>2 DEF TotalWeight

\* check-config never warns of weights that add up to too little or of the length
\* of the admin path: it sanitizes the configuration before it validates it
\* (main.rs:612-615), and sanitize() puts both right.
THEOREM CheckConfigSilent ==
    ASSUME NEW f, WellTyped(f)
    PROVE  {"weights", "path_length"} \cap CheckConfig(f) = {}
<1> DEFINE checked == Sanitize(Load(f))
<1>1. /\ \A k \in Weights : checked.scoring[k] \in 1..100
      /\ checked.admin_auth.path_length \in 8..32
  BY SanitizedWithinRange
<1> HIDE DEF checked
<1>2. ~(TotalWeight(checked.scoring) < 10)
  BY <1>1, TotalOfWeights
<1>3. ~(checked.admin_auth.path_length < 8) /\ ~(checked.admin_auth.path_length > 32)
  BY <1>1
<1>4. "weights" \notin Validate(checked)
  BY <1>2 DEF Validate, Warns
<1>5. "path_length" \notin Validate(checked)
  BY <1>3 DEF Validate, Warns
<1> QED BY <1>4, <1>5 DEF CheckConfig, checked

(***************************** configurations **********************************)

\* What is known of the configuration of every file.
LEMMA ConfigurationSound ==
    ASSUME NEW f \in Files
    PROVE  LET c == Configuration[f]
           IN  /\ c = Sanitize(Load(f))
               /\ \A k \in Weights : c.scoring[k] \in 1..100
               /\ c.scoring.threat_threshold \in 0..100
               /\ c.scoring.high_confidence_threshold \in 10..100
               /\ c.admin_auth.path_length \in 8..32
               /\ c.rate_limiting.requests_per_window \in Nat
               /\ c.rate_limiting.burst_allowance \in Nat
               /\ c.waf.max_body_size \in Nat
<1>1. WellTyped(f)
  BY FileAssumption
<1>2. Configuration[f] = Sanitize(Load(f))
  BY DEF Configuration
<1>3. {"rate_limiting", "waf"} \subseteq Sections \ {"scoring", "admin_auth"}
  BY DEF Sections, KeyType
<1> QED BY <1>1, <1>2, <1>3, SanitizedWithinRange, SanitizedFields, LoadedNumbers

\* The configuration in use is that of the file, and the limits are numbers.
Started == file \in Files /\ conf = Configuration[file]

LEMMA StartedSound ==
    ASSUME Started
    PROVE  ConfOK /\ Limit \in Nat /\ conf.waf.max_body_size \in Nat
BY ConfigurationSound DEF Started, ConfOK, Limit

(***************************** steps *******************************************)

\* What Respond does to the connections.
LEMMA RespondFacts ==
    ASSUME TypeOK, NEW h \in Connections, NEW r, Respond(h, r)
    PROVE  /\ stage' \in [Connections -> Stages]
           /\ stage'[h] = "answered" /\ answer'[h] = r /\ call' = call
           /\ DOMAIN answer' = Connections
           /\ \A g \in Connections \ {h} : stage'[g] = stage[g] /\ answer'[g] = answer[g]
BY DEF TypeOK, Respond, Stages

\* What Hang does to them.
LEMMA HangFacts ==
    ASSUME TypeOK, NEW h \in Connections, Hang(h)
    PROVE  /\ stage' \in [Connections -> Stages]
           /\ stage'[h] = "hung" /\ call' = call /\ answer' = answer
           /\ \A g \in Connections \ {h} : stage'[g] = stage[g]
BY DEF TypeOK, Hang, Stages

\* How evaluate leaves a connection: answered for a gate, forwarded past all of
\* them, or hung on the mutex.
LEMMA EvaluateFacts ==
    ASSUME TypeOK, NEW h \in Connections, NEW found \in BOOLEAN, Evaluate(h, found)
    PROVE  /\ stage[h] = "proxy" /\ ~Oversized(call[h]) /\ UNCHANGED processVars
           /\ UNCHANGED <<call, whitelist>>
           /\ stage' \in [Connections -> Stages] /\ DOMAIN answer' = Connections
           /\ \A g \in Connections \ {h} : stage'[g] = stage[g] /\ answer'[g] = answer[g]
           /\ \/ /\ stage'[h] = "hung" /\ mutexHeld' = TRUE /\ answer' = answer
                 /\ UNCHANGED blocklist
              \/ /\ stage'[h] = "forwarded" /\ mutexHeld' = mutexHeld /\ answer' = answer
                 /\ Gate(call[h], found) = "Pass"
              \/ /\ stage'[h] = "answered" /\ mutexHeld' = mutexHeld
                 /\ Gate(call[h], found) # "Pass"
                 /\ answer'[h] = Response(Status(Gate(call[h], found)), Gate(call[h], found),
                                          Secured(NoHeaders))
<1> DEFINE c    == call[h]
           gate == Gate(c, found)
<1>1. /\ stage[h] = "proxy" /\ ~Oversized(call[h]) /\ UNCHANGED processVars
      /\ UNCHANGED whitelist
  BY DEF Evaluate
<1>2. mutexHeld \in BOOLEAN /\ DOMAIN answer = Connections
  BY DEF TypeOK
<1>3. CASE mutexHeld /\ (Audits(gate) \/ LooksUp(gate))
  <2>1. Hang(h) /\ UNCHANGED <<blocklist, mutexHeld>>
    BY <1>3 DEF Evaluate
  <2> QED BY <1>1, <1>2, <1>3, <2>1, HangFacts
<1>4. CASE ~(mutexHeld /\ (Audits(gate) \/ LooksUp(gate))) /\ LocksTwice(gate)
  <2>1. Hang(h) /\ mutexHeld' = TRUE /\ UNCHANGED blocklist
    BY <1>4 DEF Evaluate
  <2> QED BY <1>1, <1>2, <2>1, HangFacts
<1>5. CASE ~(mutexHeld /\ (Audits(gate) \/ LooksUp(gate))) /\ ~LocksTwice(gate)
  <2>1. /\ IF gate = "Pass"
           THEN stage' = [stage EXCEPT ![h] = "forwarded"] /\ UNCHANGED <<call, answer>>
           ELSE Respond(h, Response(Status(gate), gate, Secured(NoHeaders)))
        /\ UNCHANGED mutexHeld
    BY <1>5 DEF Evaluate
  <2>2. CASE gate = "Pass"
    BY <1>1, <1>2, <2>1, <2>2 DEF TypeOK, Stages
  <2>3. CASE gate # "Pass"
    BY <1>1, <1>2, <2>1, <2>3, RespondFacts
  <2> QED BY <2>2, <2>3
<1> QED BY <1>3, <1>4, <1>5

\* How an admin handler leaves its connection.
LEMMA AdminCommandFacts ==
    ASSUME TypeOK, NEW h \in Connections, NEW command \in Commands, AdminCommand(h, command)
    PROVE  /\ stage[h] = command /\ UNCHANGED <<processVars, limiterVars, mutexHeld, call>>
           /\ stage' \in [Connections -> Stages] /\ DOMAIN answer' = Connections
           /\ \A g \in Connections \ {h} : stage'[g] = stage[g] /\ answer'[g] = answer[g]
           /\ \/ stage'[h] = "hung" /\ mutexHeld /\ answer' = answer
              \/ stage'[h] = "answered" /\ answer'[h].cause \in {"unauthorized", "invalid_ip"}
              \/ stage'[h] = "answered" /\ answer'[h].cause = "done"
                 /\ answer'[h].headers = Secured(NoHeaders)
           /\ \/ UNCHANGED tableVars
              \/ /\ Granted(call[h], command) /\ call[h].body \in IPs
                 /\ stage'[h] = "answered"
                 /\ blocklist' = Executed(command, call[h].body)[1]
                 /\ whitelist' = Executed(command, call[h].body)[2]
<1> DEFINE ip == call[h].body
<1>0. DOMAIN answer = Connections
  BY DEF TypeOK
<1>1. stage[h] = command /\ UNCHANGED <<processVars, limiterVars, mutexHeld>>
  BY DEF AdminCommand
<1>2. CASE ~Granted(call[h], command)
  <2>1. Respond(h, Response(401, "unauthorized", NoHeaders)) /\ UNCHANGED tableVars
    BY <1>2 DEF AdminCommand
  <2>2. Response(401, "unauthorized", NoHeaders).cause = "unauthorized"
    BY DEF Response
  <2> QED BY <1>1, <2>1, <2>2, RespondFacts
<1>3. CASE Granted(call[h], command) /\ ip \notin IPs
  <2>1. Respond(h, Response(400, "invalid_ip", NoHeaders)) /\ UNCHANGED tableVars
    BY <1>3 DEF AdminCommand
  <2>2. Response(400, "invalid_ip", NoHeaders).cause = "invalid_ip"
    BY DEF Response
  <2> QED BY <1>1, <2>1, <2>2, RespondFacts
<1>4. CASE Granted(call[h], command) /\ ip \in IPs /\ mutexHeld
  <2>1. Hang(h) /\ UNCHANGED tableVars
    BY <1>4 DEF AdminCommand
  <2> QED BY <1>0, <1>1, <1>4, <2>1, HangFacts
<1>5. CASE Granted(call[h], command) /\ ip \in IPs /\ ~mutexHeld
  <2>1. Respond(h, Response(200, "done", Secured(NoHeaders)))
    BY <1>5 DEF AdminCommand
  <2>2. \E tables \in {tableVars} \cup IF db_open THEN {Executed(command, ip)} ELSE {} :
           blocklist' = tables[1] /\ whitelist' = tables[2]
    BY <1>5 DEF AdminCommand
  <2>3. UNCHANGED tableVars \/ (blocklist' = Executed(command, ip)[1]
                                /\ whitelist' = Executed(command, ip)[2])
    BY <2>2 DEF tableVars
  <2>4. /\ Response(200, "done", Secured(NoHeaders)).cause = "done"
        /\ Response(200, "done", Secured(NoHeaders)).headers = Secured(NoHeaders)
    BY DEF Response
  <2> QED BY <1>1, <1>5, <2>1, <2>3, <2>4, RespondFacts
<1> QED BY <1>2, <1>3, <1>4, <1>5

\* What a command makes of the tables keeps their types.
LEMMA ExecutedTypes ==
    ASSUME TypeOK, NEW command \in Commands, NEW ip \in IPs
    PROVE  /\ Executed(command, ip)[1] \in [IPs -> {"none", "active", "expired"}]
           /\ Executed(command, ip)[2] \subseteq IPs
<1>1. Insert(ip) \in [IPs -> {"none", "active", "expired"}]
  BY DEF TypeOK, Insert
<1>2. [blocklist EXCEPT ![ip] = "none"] \in [IPs -> {"none", "active", "expired"}]
  BY DEF TypeOK
<1>3. whitelist \subseteq IPs /\ blocklist \in [IPs -> {"none", "active", "expired"}]
  BY DEF TypeOK
<1>4. CASE command = "block"
  BY <1>1, <1>3, <1>4 DEF Executed
<1>5. CASE command = "unblock"
  BY <1>2, <1>3, <1>5 DEF Executed
<1>6. CASE command = "whitelist"
  BY <1>3, <1>6 DEF Executed
<1> QED BY <1>4, <1>5, <1>6 DEF Commands

\* What evaluate makes of the counts: nothing, or one request more for the peer.
LEMMA RecordFacts ==
    ASSUME TypeOK, NEW c, NEW gate, Record(c, gate)
    PROVE  /\ window' \in [IPs -> Nat] /\ forwarded' \in [IPs -> Nat]
           /\ \A ip \in IPs : forwarded'[ip] <= window'[ip]
           /\ \A ip \in IPs : ip # Peer(c) => window'[ip] = window[ip]
           /\ \A ip \in IPs : forwarded'[ip] # forwarded[ip] =>
                 /\ ip = Peer(c) /\ gate = "Pass" /\ conf.rate_limiting.enabled
                 /\ forwarded'[ip] = forwarded[ip] + 1
<1> DEFINE p == Peer(c)
<1>0. /\ window \in [IPs -> Nat] /\ forwarded \in [IPs -> Nat]
      /\ \A ip \in IPs : forwarded[ip] <= window[ip]
  BY DEF TypeOK
<1>p. p \in IPs
  BY DEF Peer, IPs
<1> HIDE DEF p
<1>1. CASE conf.rate_limiting.enabled /\ gate = "Pass"
  <2>1. /\ window' = [window EXCEPT ![p] = @ + 1]
        /\ forwarded' = [forwarded EXCEPT ![p] = @ + 1]
    BY <1>1 DEF Record, p
  <2>2. \A ip \in IPs : IF ip = p
           THEN window'[ip] = window[ip] + 1 /\ forwarded'[ip] = forwarded[ip] + 1
           ELSE window'[ip] = window[ip] /\ forwarded'[ip] = forwarded[ip]
    BY <1>0, <2>1
  <2>3. window' \in [IPs -> Nat] /\ forwarded' \in [IPs -> Nat]
    BY <1>0, <1>p, <2>1
  <2> QED BY <1>0, <1>1, <2>2, <2>3 DEF p
<1>2. CASE conf.rate_limiting.enabled /\ gate # "Pass"
  <2>1. /\ \/ window' = [window EXCEPT ![p] = @ + 1]
           \/ window' = [window EXCEPT ![p] = @]
        /\ forwarded' = [forwarded EXCEPT ![p] = @]
    BY <1>2 DEF Record, p
  <2>2. \A ip \in IPs : /\ forwarded'[ip] = forwarded[ip]
                        /\ \/ window'[ip] = window[ip]
                           \/ ip = p /\ window'[ip] = window[ip] + 1
    BY <1>0, <2>1
  <2>3. window' \in [IPs -> Nat] /\ forwarded' \in [IPs -> Nat]
    BY <1>0, <1>p, <2>1
  <2> QED BY <1>0, <2>2, <2>3 DEF p
<1>3. CASE ~conf.rate_limiting.enabled
  <2>1. window' = [window EXCEPT ![p] = @] /\ forwarded' = [forwarded EXCEPT ![p] = @]
    BY <1>3 DEF Record, p
  <2> QED BY <1>0, <2>1
<1> QED BY <1>1, <1>2, <1>3

(***************************** paths *******************************************)

\* Without a query or a fragment a path is its own normal form.
LEMMA PlainPath ==
    ASSUME NEW path, ~HasPiece(path, {"?", "#"})
    PROVE  NormalizePathForMatching(path) = path
BY DEF NormalizePathForMatching, UpTo, HasPiece

LEMMA WiderSeq ==
    ASSUME NEW S, NEW T, S \subseteq T, NEW path \in Seq(S)
    PROVE  path \in Seq(T)
OBVIOUS

LEMMA OneOf ==
    ASSUME NEW S, NEW a \in S
    PROVE  <<a>> \in Seq(S) /\ Len(<<a>>) = 1 /\ <<a>>[1] = a
OBVIOUS

LEMMA TwoOf ==
    ASSUME NEW S, NEW a \in S, NEW b \in S
    PROVE  <<a, b>> \in Seq(S) /\ Len(<<a, b>>) = 2 /\ <<a, b>>[1] = a /\ <<a, b>>[2] = b
OBVIOUS

\* The first "?" of a path with a query is the one before the query.
LEMMA QueryPath ==
    ASSUME NEW S, NEW path \in Seq(S), ~HasPiece(path, {"?", "#"})
    PROVE  NormalizePathForMatching(path \o <<"?", "query">>) = path
<1> DEFINE T   == S \cup {"?", "query"}
           uri == path \o <<"?", "query">>
           n   == Len(path) + 1
           I   == {i \in 1..Len(uri) : uri[i] = "?"}
<1>1. /\ uri \in Seq(T) /\ Len(uri) = n + 1 /\ n \in Nat /\ n >= 1
      /\ uri[n] = "?" /\ uri[n + 1] = "query"
      /\ \A i \in 1..Len(path) : uri[i] = path[i]
  <2>1. <<"?", "query">> \in Seq(T) /\ Len(<<"?", "query">>) = 2 /\ path \in Seq(T)
    BY TwoOf, WiderSeq
  <2>2. <<"?", "query">>[1] = "?" /\ <<"?", "query">>[2] = "query"
    OBVIOUS
  <2>3. Len(path) \in Nat
    OBVIOUS
  <2>4. uri \in Seq(T) /\ Len(uri) = Len(path) + 2
    BY <2>1, ConcatProperties
  <2>5. \A i \in 1..Len(uri) : uri[i] = IF i <= Len(path) THEN path[i]
                                        ELSE <<"?", "query">>[i - Len(path)]
    BY <2>1, <2>4, ConcatProperties
  <2>6. n \in 1..Len(uri) /\ n + 1 \in 1..Len(uri) /\ n - Len(path) = 1
        /\ n + 1 - Len(path) = 2 /\ ~(n <= Len(path)) /\ ~(n + 1 <= Len(path))
    BY <2>3, <2>4
  <2>7. uri[n] = "?" /\ uri[n + 1] = "query"
    BY <2>2, <2>5, <2>6
  <2>8. \A i \in 1..Len(path) : i \in 1..Len(uri) /\ i <= Len(path)
    BY <2>3, <2>4
  <2> QED BY <2>3, <2>4, <2>5, <2>7, <2>8
<1>2. \A i \in 1..Len(path) : path[i] # "?"
  BY DEF HasPiece
<1>3. I = {n}
  BY <1>1, <1>2
<1>4. Min(I) = n
  BY <1>1, <1>3 DEF Min
<1>5. SelectInSeq(uri, LAMBDA p : p = "?") = n
  BY <1>1, <1>3, <1>4 DEF SelectInSeq
<1>6. HasPiece(uri, {"?"})
  BY <1>1 DEF HasPiece
<1>7. SubSeq(uri, 1, Len(path)) = path
  BY <1>1
<1> QED BY <1>1, <1>5, <1>6, <1>7 DEF NormalizePathForMatching, UpTo

LEMMA UriPath ==
    ASSUME NEW c \in Calls
    PROVE  NormalizePathForMatching(Uri(c)) = c.path
BY PlainPath, QueryPath, CallAssumption DEF Uri

\* What the service takes for a match is the path of the entry or lies below it.
LEMMA MatchIsBelow ==
    ASSUME NEW S, NEW entry \in Seq(S), NEW path \in Seq(S),
           ValidatePathEntry(entry), EntryMatches(entry, path)
    PROVE  Below(path, entry)
<1>1. CASE path = entry
  <2>1. SubSeq(path, 1, Len(path)) = entry /\ Len(path) \in 0..Len(path)
    BY <1>1
  <2> QED BY <2>1 DEF Below
<1>2. CASE IsPrefix(entry \o <<"/">>, path)
  <2> DEFINE T == S \cup {"/"}
             r == entry \o <<"/">>
             n == Len(entry)
  <2>1. r \in Seq(T) /\ Len(r) = n + 1 /\ r[n + 1] = "/" /\ n \in Nat
        /\ \A i \in 1..n : r[i] = entry[i]
    <3>1. /\ <<"/">> \in Seq(T) /\ Len(<<"/">>) = 1 /\ <<"/">>[1] = "/" /\ n \in Nat
          /\ entry \in Seq(T)
      BY OneOf, WiderSeq
    <3>2. r \in Seq(T) /\ Len(r) = n + 1
      BY <3>1, ConcatProperties
    <3>3. \A i \in 1..Len(r) : r[i] = IF i <= n THEN entry[i] ELSE <<"/">>[i - n]
      BY <3>1, <3>2, ConcatProperties
    <3>4. n + 1 \in 1..Len(r) /\ n + 1 - n = 1 /\ ~(n + 1 <= n)
          /\ \A i \in 1..n : i \in 1..Len(r) /\ i <= n
      BY <3>1, <3>2
    <3> QED BY <3>1, <3>2, <3>3, <3>4
  <2>2. Len(r) <= Len(path) /\ SubSeq(r, 1, Len(r)) = SubSeq(path, 1, Len(r))
    BY <1>2 DEF IsPrefix
  <2>3. \A i \in 1..Len(r) : r[i] = path[i]
    <3>1. \A i \in 1..Len(r) : SubSeq(r, 1, Len(r))[i] = r[i]
      BY <2>1
    <3>2. \A i \in 1..Len(r) : SubSeq(path, 1, Len(r))[i] = path[i]
      BY <2>1, <2>2
    <3> QED BY <2>2, <3>1, <3>2
  <2>4. n + 1 <= Len(path) /\ path[n + 1] = "/" /\ \A i \in 1..n : path[i] = entry[i]
    BY <2>1, <2>2, <2>3
  <2>5. SubSeq(path, 1, n) = entry
    BY <2>1, <2>4
  <2>6. n \in 0..Len(path) /\ path[n + 1] = "/"
    BY <2>1, <2>4
  <2> QED BY <2>5, <2>6 DEF Below
<1> QED BY <1>1, <1>2 DEF EntryMatches

(***************************** the file ****************************************)

\* A section that sanitize() leaves alone holds what the author of the file asked
\* for, when its default is that of its type.
LEMMA AsConfigured ==
    ASSUME Started, NEW s \in Sections \ {"scoring", "admin_auth"}, NEW k \in Keys(s),
           KeyDefault(s, k) = ZeroOf(s, k)
    PROVE  conf[s][k] = Configured(s, k, ZeroOf(s, k))
<1>1. WellTyped(file) /\ conf = Sanitize(Load(file))
  BY FileAssumption, ConfigurationSound DEF Started
<1>2. conf[s][k] = Load(file)[s][k]
  BY <1>1, SanitizedFields
<1>3. CASE Parses(file)
  <2>1. Load(file)[s][k] = IF Given(file, s) THEN Entry(file.keys, s, k, ZeroOf(s, k))
                                               ELSE ZeroOf(s, k)
    BY <1>3 DEF Load, SectionDefault
  <2> QED BY <1>2, <1>3, <2>1 DEF Configured, Entry, Given
<1>4. CASE ~Parses(file)
  BY <1>2, <1>4 DEF Load, Configured
<1> QED BY <1>3, <1>4

\* The keys of which the properties speak have such a default.
LEMMA PlainKeys ==
    /\ {"allowlist", "response_headers"} \subseteq Sections \ {"scoring", "admin_auth"}
    /\ {"allowed", "allowed_paths"} \subseteq Keys("allowlist")
    /\ HeaderNames = Keys("response_headers")
    /\ KeyDefault("allowlist", "allowed") = FALSE
    /\ KeyDefault("allowlist", "allowed_paths") = <<>>
    /\ ZeroOf("allowlist", "allowed") = FALSE
    /\ ZeroOf("allowlist", "allowed_paths") = <<>>
    /\ \A name \in HeaderNames : /\ KeyDefault("response_headers", name) = ""
                                /\ ZeroOf("response_headers", name) = ""
<1>1. /\ KeyType["allowlist"] = [allowed |-> "flag", allowed_paths |-> "list"]
      /\ Zero["flag"] = FALSE /\ Zero["list"] = <<>> /\ Zero["text"] = ""
      /\ \A name \in Keys("response_headers") : KeyType["response_headers"][name] = "text"
  <2>1. KeyType["allowlist"] = [allowed |-> "flag", allowed_paths |-> "list"]
    BY DEF KeyType
  <2>2. Zero["flag"] = FALSE /\ Zero["list"] = <<>> /\ Zero["text"] = ""
    BY DEF Zero
  <2>3. KeyType["response_headers"] = [x_frame_options |-> "text",
            x_content_type_options |-> "text", x_xss_protection |-> "text",
            content_security_policy |-> "text", referrer_policy |-> "text",
            permissions_policy |-> "text", strict_transport_security |-> "text"]
    BY DEF KeyType
  <2>4. \A name \in Keys("response_headers") : KeyType["response_headers"][name] = "text"
    BY <2>3 DEF Keys
  <2> QED BY <2>1, <2>2, <2>4
<1>2. "allowlist" \notin DOMAIN Named /\ "response_headers" \notin DOMAIN Named
  BY DEF Named
<1>3. {"allowlist", "response_headers"} \subseteq Sections \ {"scoring", "admin_auth"}
  BY DEF Sections, KeyType
<1>4. DOMAIN KeyType["allowlist"] = {"allowed", "allowed_paths"}
  BY <1>1
<1>5. /\ ZeroOf("allowlist", "allowed") = FALSE
      /\ ZeroOf("allowlist", "allowed_paths") = <<>>
  <2>1. /\ KeyType["allowlist"]["allowed"] = "flag"
        /\ KeyType["allowlist"]["allowed_paths"] = "list"
    BY DEF KeyType
  <2> QED BY <1>1, <2>1, Zenon DEF ZeroOf
<1>6. \A name \in HeaderNames : ZeroOf("response_headers", name) = ""
  BY <1>1 DEF ZeroOf, HeaderNames
<1>7. \A s \in {"allowlist", "response_headers"} : \A k : KeyDefault(s, k) = ZeroOf(s, k)
  BY <1>2 DEF KeyDefault, Entry
<1>8. HeaderNames = Keys("response_headers")
      /\ {"allowed", "allowed_paths"} \subseteq Keys("allowlist")
  BY <1>4 DEF HeaderNames, Keys
<1> QED BY <1>3, <1>5, <1>6, <1>7, <1>8

\* What evaluate and the proxy let pass is admissible.
LEMMA PassIsAdmissible ==
    ASSUME Started, NEW c \in Calls, NEW found, Gate(c, found) = "Pass", ~Oversized(c)
    PROVE  Admissible(c)
<1>1. Allowed(c) /\ ~Exceeds(c) /\ ~Certain(c)
  BY DEF Gate
<1>2. /\ c.hits \in Nat /\ c.confidence \in Nat /\ c.size \in Nat
      /\ c.path \in Seq(STRING)
  BY CallAssumption
<1>3. /\ conf.scoring.threat_threshold \in Nat
      /\ conf.scoring.high_confidence_threshold \in Nat
      /\ conf.scoring.sql_injection_weight \in Nat
      /\ conf.waf.max_body_size \in Nat
  <2>1. ConfOK /\ conf.waf.max_body_size \in Nat
    BY StartedSound
  <2>2. "sql_injection_weight" \in Weights
    BY WeightNames
  <2> QED BY <2>1, <2>2 DEF ConfOK
<1>4. Score(c) \in Nat
  BY <1>2, <1>3 DEF Score, WithinBounds
<1>5. conf.waf.max_body_size > 0 => c.size <= conf.waf.max_body_size
  BY <1>2, <1>3 DEF Oversized
<1>6. Score(c) < conf.scoring.threat_threshold
  BY <1>1, <1>3, <1>4 DEF Exceeds
<1>7. c.hits > 0 => c.confidence < conf.scoring.high_confidence_threshold
  BY <1>1, <1>2, <1>3 DEF Certain
<1>8. ASSUME Configured("allowlist", "allowed", FALSE)
      PROVE  \/ IsAutoWhitelisted(c.path)
             \/ \E entry \in ToSet(Configured("allowlist", "allowed_paths", <<>>)) :
                   Below(c.path, entry)
  <2> DEFINE paths == Configured("allowlist", "allowed_paths", <<>>)
  <2>1. conf.allowlist.allowed = Configured("allowlist", "allowed", FALSE)
        /\ conf.allowlist.allowed_paths = paths
    BY PlainKeys, AsConfigured
  <2>2. Parses(file)
    <3>1. WholeDefault["allowlist"]["allowed"] = FALSE
      <4>1. "allowlist" \notin DOMAIN Written
        BY DEF Written
      <4> QED BY <4>1, PlainKeys DEF WholeDefault, Entry
    <3> QED BY <1>8, <3>1 DEF Configured
  <2>3. ToSet(paths) \subseteq Seq(STRING)
    BY <2>2, FileAssumption DEF Configured, Started
  <2>4. NormalizePathForMatching(Uri(c)) = c.path
    BY UriPath
  <2>5. CASE IsAutoWhitelisted(c.path)
    BY <2>5
  <2>6. CASE ~IsAutoWhitelisted(c.path)
    <3>1. PICK entry \in ValidateAllowedPaths(paths) : EntryMatches(entry, c.path)
      BY <1>1, <1>8, <2>1, <2>4, <2>6 DEF Allowed, CheckPath
    <3>2. entry \in ToSet(paths) /\ ValidatePathEntry(entry)
      BY DEF ValidateAllowedPaths
    <3>3. Below(c.path, entry)
      BY <1>2, <2>3, <3>1, <3>2, MatchIsBelow
    <3> QED BY <3>2, <3>3
  <2> QED BY <2>5, <2>6
<1> QED BY <1>5, <1>6, <1>7, <1>8 DEF Admissible, PathAdmitted

\* A clean request exceeds only a threshold of 0, and of these the file had one
\* or no [scoring].
LEMMA CleanExceeds ==
    ASSUME Started, NEW c, c.hits = 0, Exceeds(c)
    PROVE  /\ Parses(file)
           /\ \/ "scoring" \notin DOMAIN file.keys
              \/ Entry(file.keys, "scoring", "threat_threshold", 50) = 0
<1> DEFINE before == Load(file)["scoring"]["threat_threshold"]
<1>1. WellTyped(file) /\ conf = Sanitize(Load(file))
  BY FileAssumption, ConfigurationSound DEF Started
<1>2. /\ ConfOK /\ conf.scoring.threat_threshold = ClampThreshold(before)
      /\ before \in Nat
  BY <1>1, StartedSound, SanitizedFields, LoadedNumbers, ScoringKeys
<1>3. /\ conf.scoring.sql_injection_weight \in Nat
      /\ conf.scoring.threat_threshold \in Nat
  BY <1>2, WeightNames DEF ConfOK
<1>4. Score(c) = 0
  BY <1>3 DEF Score, WithinBounds
<1>5. conf.scoring.threat_threshold = 0
  BY <1>3, <1>4 DEF Exceeds
<1>6. before = 0
  <2> HIDE DEF before
  <2>1. ClampThreshold(before) = 0
    BY <1>2, <1>5
  <2> QED BY <1>2, <2>1, ClampFacts
<1>7. KeyDefault("scoring", "threat_threshold") = 50
  <2>1. /\ "scoring" \in DOMAIN Named /\ "threat_threshold" \in DOMAIN Named["scoring"]
        /\ Named["scoring"]["threat_threshold"] = 50
    BY DEF Named
  <2> QED BY <2>1 DEF KeyDefault, Entry
<1>8. WholeDefault["scoring"]["threat_threshold"] = 50
  <2>1. "scoring" \notin DOMAIN Written
    BY DEF Written
  <2> QED BY <1>7, <2>1, ScoringKeys DEF WholeDefault, Entry
<1>9. Parses(file)
  BY <1>6, <1>8 DEF Load
<1>10. CASE "scoring" \in DOMAIN file.keys
  <2>1. before = Entry(file.keys, "scoring", "threat_threshold",
                       KeyDefault("scoring", "threat_threshold"))
    BY <1>9, <1>10, ScoringKeys DEF Load, Given
  <2> QED BY <1>6, <1>7, <1>9, <2>1
<1> QED BY <1>9, <1>10

\* Secured leaves every configured header in place.
LEMMA SecuredHeaders ==
    ASSUME Started, NEW headers, NEW name \in HeaderNames
    PROVE  LET value == Configured("response_headers", name, "")
           IN  \/ value = "control"
               \/ value = "" /\ name = "strict_transport_security"
               \/ Secured(headers)[name] = value
<1>1. conf["response_headers"][name] = Configured("response_headers", name, "")
  BY PlainKeys, AsConfigured
<1> QED BY <1>1 DEF Secured, Sets, Settable

(***************************** types *******************************************)

Base == TypeOK /\ Started

\* The parts of TypeOK.
ConnectionTypes ==
    /\ stage \in [Connections -> Stages]
    /\ DOMAIN call = Connections /\ DOMAIN answer = Connections
    /\ \A h \in Connections :
          /\ IF stage[h] = "idle" THEN call[h] = NoCall ELSE call[h] \in Calls
          /\ stage[h] # "answered" => answer[h] = NoAnswer
          /\ stage[h] = "hung" => mutexHeld

LimiterTypes ==
    /\ window \in [IPs -> Nat] /\ forwarded \in [IPs -> Nat]
    /\ \A ip \in IPs : forwarded[ip] <= window[ip]

TableTypes ==
    /\ blocklist \in [IPs -> {"none", "active", "expired"}]
    /\ whitelist \subseteq IPs

LEMMA BaseParts ==
    Base <=> /\ Started /\ db_open \in Opens(conf) /\ mutexHeld \in BOOLEAN
             /\ ConnectionTypes /\ LimiterTypes /\ TableTypes
BY StartedSound DEF Base, Started, TypeOK, ConnectionTypes, LimiterTypes, TableTypes

LEMMA BaseNext ==
    ASSUME Started', (db_open \in Opens(conf))', (mutexHeld \in BOOLEAN)',
           ConnectionTypes', LimiterTypes', TableTypes'
    PROVE  Base'
BY BaseParts, PTL

\* A step that works on one connection keeps the types of all of them.
LEMMA OneConnection ==
    ASSUME Base, NEW h \in Connections,
           mutexHeld => mutexHeld',
           stage' \in [Connections -> Stages],
           DOMAIN call' = Connections, DOMAIN answer' = Connections,
           \A g \in Connections \ {h} :
              stage'[g] = stage[g] /\ call'[g] = call[g] /\ answer'[g] = answer[g],
           IF stage'[h] = "idle" THEN call'[h] = NoCall ELSE call'[h] \in Calls,
           stage'[h] # "answered" => answer'[h] = NoAnswer,
           stage'[h] = "hung" => mutexHeld'
    PROVE  ConnectionTypes'
<1>1. ConnectionTypes
  BY BaseParts
<1>2. \A g \in Connections :
         /\ IF stage'[g] = "idle" THEN call'[g] = NoCall ELSE call'[g] \in Calls
         /\ stage'[g] # "answered" => answer'[g] = NoAnswer
         /\ stage'[g] = "hung" => mutexHeld'
  BY <1>1 DEF ConnectionTypes
<1> QED BY <1>2 DEF ConnectionTypes

\* A handler keeps the types and settles the connection's request.  What it can
\* leave behind is what the invariants rest on.
Kept(h)      == /\ stage'[h] = stage[h] /\ call'[h] = call[h] /\ answer'[h] = answer[h]
                /\ UNCHANGED <<file, conf>>
GoneUp(h)    == /\ stage'[h] = "forwarded" /\ call'[h] = call[h] /\ call[h] \in Calls
                /\ UNCHANGED <<file, conf>>
                /\ ~Oversized(call[h])
                /\ \E found \in BOOLEAN : Gate(call[h], found) = "Pass"
Answered(h)  == /\ stage'[h] = "answered" /\ call'[h] = call[h]
                /\ UNCHANGED <<file, conf>>
                /\ answer'[h].cause = "ThreatScoreExceeded" => Exceeds(call[h])
                /\ \/ answer'[h].cause \in {"rejected", "unauthorized", "invalid_ip"}
                   \/ \E headers : answer'[h].headers = Secured(headers)
Outcome(h)   == \/ Kept(h)
                \/ stage'[h] \notin {"forwarded", "answered"}
                \/ GoneUp(h)
                \/ Answered(h)

Sound == Base' /\ \A h \in Connections : Outcome(h)

\* The steps that only answer.
LEMMA AnswerSound ==
    ASSUME Base, NEW h \in Connections, NEW r, Respond(h, r), stage[h] # "idle",
           UNCHANGED <<processVars, limiterVars, tableVars, mutexHeld>>,
           r.cause # "ThreatScoreExceeded",
           \/ r.cause \in {"rejected", "unauthorized", "invalid_ip"}
           \/ \E headers : r.headers = Secured(headers)
    PROVE  Sound
<1>1. TypeOK
  BY DEF Base
<1>2. /\ stage' \in [Connections -> Stages]
      /\ stage'[h] = "answered" /\ answer'[h] = r /\ call' = call
      /\ DOMAIN answer' = Connections
      /\ \A g \in Connections \ {h} : stage'[g] = stage[g] /\ answer'[g] = answer[g]
  BY <1>1, RespondFacts
<1>3. call[h] \in Calls /\ DOMAIN call' = Connections
  BY <1>1, <1>2 DEF TypeOK
<1>4. ConnectionTypes'
  BY <1>2, <1>3, OneConnection
<1>5. Base'
  <2>1. /\ Started /\ db_open \in Opens(conf) /\ mutexHeld \in BOOLEAN
        /\ LimiterTypes /\ TableTypes
    BY BaseParts
  <2>2. Started' /\ (db_open \in Opens(conf))' /\ (mutexHeld \in BOOLEAN)'
    BY <2>1 DEF processVars, Started
  <2>3. LimiterTypes' /\ TableTypes'
    BY <2>1 DEF limiterVars, tableVars, LimiterTypes, TableTypes
  <2> QED BY <1>4, <2>2, <2>3, BaseNext
<1>6. Answered(h)
  BY <1>2 DEF Answered, processVars
<1>7. \A g \in Connections \ {h} : Kept(g)
  BY <1>2 DEF Kept, processVars
<1> QED BY <1>5, <1>6, <1>7 DEF Sound, Outcome

\* A request goes to one of the handlers.
LEMMA DispatchFacts ==
    ASSUME NEW c
    PROVE  Dispatch(c) \in Handlers
<1> DEFINE rest == SubSeq(c.path, Len(PathPrefix(conf)) + 1, Len(c.path))
<1>1. CASE IsPrefix(PathPrefix(conf), c.path) /\ \E q \in Queries : rest = <<q>>
  <2>1. rest[1] \in Queries
    <3>1. PICK q \in Queries : rest = <<q>>
      BY <1>1
    <3>2. <<q>>[1] = q
      BY OneOf
    <3> HIDE DEF rest
    <3> QED BY <3>1, <3>2
  <2> QED BY <1>1, <2>1 DEF Dispatch, Route, Handlers, Commands
<1>2. CASE ~(IsPrefix(PathPrefix(conf), c.path) /\ \E q \in Queries : rest = <<q>>)
  BY <1>2 DEF Dispatch, Route, Handlers
<1> QED BY <1>1, <1>2

LEMMA ReceiveSound ==
    ASSUME Base, NEW h \in Connections, NEW c \in Calls, Receive(h, c)
    PROVE  Sound
<1>1. ConnectionTypes /\ Started /\ db_open \in Opens(conf) /\ mutexHeld \in BOOLEAN
      /\ LimiterTypes /\ TableTypes
  BY BaseParts
<1>2. Dispatch(c) \in Handlers /\ Handlers \subseteq Stages
      /\ {"idle", "forwarded", "answered", "hung"} \cap Handlers = {}
  BY DispatchFacts DEF Handlers, Stages, Commands, Queries
<1>3. /\ stage[h] = "idle" /\ UNCHANGED <<answer, processVars, limiterVars, tableVars, mutexHeld>>
      /\ stage' = [stage EXCEPT ![h] = Dispatch(c)] /\ call' = [call EXCEPT ![h] = c]
  BY DEF Receive
<1>4. ConnectionTypes'
  <2>1. /\ stage' \in [Connections -> Stages] /\ stage'[h] = Dispatch(c)
        /\ DOMAIN call' = Connections /\ DOMAIN answer' = Connections /\ call'[h] = c
        /\ \A g \in Connections \ {h} :
              stage'[g] = stage[g] /\ call'[g] = call[g] /\ answer'[g] = answer[g]
    BY <1>1, <1>2, <1>3 DEF ConnectionTypes
  <2>2. answer'[h] = NoAnswer
    BY <1>1, <1>3 DEF ConnectionTypes
  <2> QED BY <1>2, <1>3, <2>1, <2>2, OneConnection
<1>5. Base'
  <2>1. Started' /\ (db_open \in Opens(conf))' /\ (mutexHeld \in BOOLEAN)'
    BY <1>1, <1>3 DEF processVars, Started
  <2>2. LimiterTypes' /\ TableTypes'
    BY <1>1, <1>3 DEF limiterVars, tableVars, LimiterTypes, TableTypes
  <2> QED BY <1>4, <2>1, <2>2, BaseNext
<1>6. stage'[h] \notin {"forwarded", "answered"}
  BY <1>1, <1>2, <1>3 DEF ConnectionTypes
<1>7. \A g \in Connections \ {h} : Kept(g)
  BY <1>1, <1>3 DEF Kept, processVars, ConnectionTypes
<1> QED BY <1>5, <1>6, <1>7 DEF Sound, Outcome

LEMMA CloseSound ==
    ASSUME Base, NEW h \in Connections, Close(h)
    PROVE  Sound
<1>1. ConnectionTypes /\ Started /\ db_open \in Opens(conf) /\ mutexHeld \in BOOLEAN
      /\ LimiterTypes /\ TableTypes
  BY BaseParts
<1>2. /\ UNCHANGED <<processVars, limiterVars, tableVars, mutexHeld>>
      /\ stage' = [stage EXCEPT ![h] = "idle"] /\ call' = [call EXCEPT ![h] = NoCall]
      /\ answer' = [answer EXCEPT ![h] = NoAnswer]
  BY DEF Close
<1>3. /\ stage' \in [Connections -> Stages] /\ stage'[h] = "idle"
      /\ DOMAIN call' = Connections /\ DOMAIN answer' = Connections
      /\ call'[h] = NoCall /\ answer'[h] = NoAnswer
      /\ \A g \in Connections \ {h} :
            stage'[g] = stage[g] /\ call'[g] = call[g] /\ answer'[g] = answer[g]
  BY <1>1, <1>2 DEF ConnectionTypes, Stages
<1>4. ConnectionTypes'
  BY <1>2, <1>3, OneConnection
<1>5. Base'
  <2>1. Started' /\ (db_open \in Opens(conf))' /\ (mutexHeld \in BOOLEAN)'
    BY <1>1, <1>2 DEF processVars, Started
  <2>2. LimiterTypes' /\ TableTypes'
    BY <1>1, <1>2 DEF limiterVars, tableVars, LimiterTypes, TableTypes
  <2> QED BY <1>4, <2>1, <2>2, BaseNext
<1>6. \A g \in Connections \ {h} : Kept(g)
  BY <1>2, <1>3 DEF Kept, processVars
<1> QED BY <1>3, <1>5, <1>6 DEF Sound, Outcome

\* Those that only answer: axum, the queries, the size check and the upstream.
LEMMA AnsweringSound ==
    ASSUME Base, NEW h \in Connections,
           \/ Reject(h)
           \/ \E query \in Queries : AdminQuery(h, query)
           \/ RejectOversized(h)
           \/ UpstreamFails(h)
           \/ \E value \in {Absent, "upstream"} : Relay(h, value)
    PROVE  Sound
<1>0. ASSUME NEW status, NEW cause, NEW headers
      PROVE  /\ Response(status, cause, headers).cause = cause
             /\ Response(status, cause, headers).headers = headers
  BY DEF Response
<1>1. CASE Reject(h)
  <2> DEFINE r == Response(Rejection(call[h]), "rejected", NoHeaders)
  <2>1. Respond(h, r) /\ stage[h] # "idle"
        /\ UNCHANGED <<processVars, limiterVars, tableVars, mutexHeld>>
    BY <1>1 DEF Reject
  <2>2. r.cause = "rejected"
    BY <1>0
  <2> HIDE DEF r
  <2> QED BY <2>1, <2>2, AnswerSound
<1>2. ASSUME NEW query \in Queries, AdminQuery(h, query)
      PROVE  Sound
  <2> DEFINE r == IF Granted(call[h], query)
                  THEN Response(200, "done", Secured(NoHeaders))
                  ELSE Response(401, "unauthorized", NoHeaders)
  <2>1. Respond(h, r) /\ stage[h] # "idle"
        /\ UNCHANGED <<processVars, limiterVars, tableVars, mutexHeld>>
    BY <1>2 DEF AdminQuery, Queries
  <2>2. \/ r.cause = "unauthorized"
        \/ r.cause = "done" /\ r.headers = Secured(NoHeaders)
    BY <1>0
  <2> HIDE DEF r
  <2> QED BY <2>1, <2>2, AnswerSound
<1>3. CASE RejectOversized(h)
  <2> DEFINE r == Response(403, "oversized", Secured(NoHeaders))
  <2>1. Respond(h, r) /\ stage[h] # "idle"
        /\ UNCHANGED <<processVars, limiterVars, tableVars, mutexHeld>>
    BY <1>3 DEF RejectOversized
  <2>2. r.cause = "oversized" /\ r.headers = Secured(NoHeaders)
    BY <1>0
  <2> HIDE DEF r
  <2> QED BY <2>1, <2>2, AnswerSound
<1>4. CASE UpstreamFails(h)
  <2> DEFINE r == Response(502, "bad_gateway", Secured(NoHeaders))
  <2>1. Respond(h, r) /\ stage[h] # "idle"
        /\ UNCHANGED <<processVars, limiterVars, tableVars, mutexHeld>>
    BY <1>4 DEF UpstreamFails
  <2>2. r.cause = "bad_gateway" /\ r.headers = Secured(NoHeaders)
    BY <1>0
  <2> HIDE DEF r
  <2> QED BY <2>1, <2>2, AnswerSound
<1>5. ASSUME NEW value, Relay(h, value)
      PROVE  Sound
  <2> DEFINE sent == Secured([name \in HeaderNames |-> value])
             r    == Response(200, "relayed", sent)
  <2>1. Respond(h, r) /\ stage[h] # "idle"
        /\ UNCHANGED <<processVars, limiterVars, tableVars, mutexHeld>>
    BY <1>5 DEF Relay
  <2>2. r.cause = "relayed" /\ r.headers = sent
    BY <1>0
  <2>3. \E headers : r.headers = Secured(headers)
    BY <2>2
  <2> HIDE DEF r
  <2> QED BY <2>1, <2>2, <2>3, AnswerSound
<1> QED BY <1>1, <1>2, <1>3, <1>4, <1>5

LEMMA AdminCommandSound ==
    ASSUME Base, NEW h \in Connections, NEW command \in Commands, AdminCommand(h, command)
    PROVE  Sound
<1>1. /\ TypeOK /\ ConnectionTypes /\ Started /\ db_open \in Opens(conf)
      /\ mutexHeld \in BOOLEAN /\ LimiterTypes /\ TableTypes
  BY BaseParts DEF Base
<1>2. /\ stage[h] = command /\ UNCHANGED <<processVars, limiterVars, mutexHeld, call>>
      /\ stage' \in [Connections -> Stages] /\ DOMAIN answer' = Connections
      /\ \A g \in Connections \ {h} : stage'[g] = stage[g] /\ answer'[g] = answer[g]
  BY <1>1, AdminCommandFacts
<1>3. \/ stage'[h] = "hung" /\ mutexHeld /\ answer' = answer
      \/ stage'[h] = "answered" /\ answer'[h].cause \in {"unauthorized", "invalid_ip"}
      \/ stage'[h] = "answered" /\ answer'[h].cause = "done"
         /\ answer'[h].headers = Secured(NoHeaders)
  BY <1>1, AdminCommandFacts
<1>4. \/ UNCHANGED tableVars
      \/ /\ call[h].body \in IPs
         /\ blocklist' = Executed(command, call[h].body)[1]
         /\ whitelist' = Executed(command, call[h].body)[2]
  BY <1>1, AdminCommandFacts
<1>5. stage[h] \notin {"idle", "answered"} /\ call[h] \in Calls /\ answer[h] = NoAnswer
  <2>1. stage[h] \notin {"idle", "answered"}
    BY <1>2 DEF Commands
  <2> QED BY <1>1, <2>1 DEF ConnectionTypes
<1>6. ConnectionTypes'
  <2>1. /\ IF stage'[h] = "idle" THEN call'[h] = NoCall ELSE call'[h] \in Calls
        /\ stage'[h] # "answered" => answer'[h] = NoAnswer
        /\ stage'[h] = "hung" => mutexHeld'
    BY <1>2, <1>3, <1>5
  <2>2. DOMAIN call' = Connections /\ (mutexHeld => mutexHeld')
        /\ \A g \in Connections \ {h} :
              stage'[g] = stage[g] /\ call'[g] = call[g] /\ answer'[g] = answer[g]
    BY <1>1, <1>2 DEF ConnectionTypes
  <2> QED BY <1>2, <2>1, <2>2, OneConnection
<1>7. TableTypes'
  <2>1. CASE UNCHANGED tableVars
    BY <1>1, <2>1 DEF tableVars, TableTypes
  <2>2. CASE ~UNCHANGED tableVars
    BY <1>1, <1>4, <2>2, ExecutedTypes DEF TableTypes
  <2> QED BY <2>1, <2>2
<1>8. Base'
  <2>1. Started' /\ (db_open \in Opens(conf))' /\ (mutexHeld \in BOOLEAN)'
    BY <1>1, <1>2 DEF processVars, Started
  <2>2. LimiterTypes'
    BY <1>1, <1>2 DEF limiterVars, LimiterTypes
  <2> QED BY <1>6, <1>7, <2>1, <2>2, BaseNext
<1>9. stage'[h] \notin {"forwarded", "answered"} \/ Answered(h)
  <2>1. CASE stage'[h] = "hung"
    BY <2>1
  <2>2. CASE stage'[h] # "hung"
    BY <1>2, <1>3, <2>2 DEF Answered, processVars
  <2> QED BY <2>1, <2>2
<1>10. \A g \in Connections \ {h} : Kept(g)
  BY <1>2 DEF Kept, processVars
<1> QED BY <1>8, <1>9, <1>10 DEF Sound, Outcome

LEMMA EvaluateSound ==
    ASSUME Base, NEW h \in Connections, NEW found \in BOOLEAN, Evaluate(h, found)
    PROVE  Sound
<1> DEFINE gate == Gate(call[h], found)
<1>1. /\ TypeOK /\ ConnectionTypes /\ Started /\ db_open \in Opens(conf)
      /\ mutexHeld \in BOOLEAN /\ LimiterTypes /\ TableTypes
  BY BaseParts DEF Base
<1>2. /\ stage[h] = "proxy" /\ ~Oversized(call[h])
      /\ UNCHANGED processVars /\ UNCHANGED <<call, whitelist>>
      /\ stage' \in [Connections -> Stages] /\ DOMAIN answer' = Connections
      /\ \A g \in Connections \ {h} : stage'[g] = stage[g] /\ answer'[g] = answer[g]
  BY <1>1, EvaluateFacts
<1>3. \/ /\ stage'[h] = "hung" /\ mutexHeld' = TRUE /\ answer' = answer
      \/ /\ stage'[h] = "forwarded" /\ mutexHeld' = mutexHeld /\ answer' = answer
         /\ gate = "Pass"
      \/ /\ stage'[h] = "answered" /\ mutexHeld' = mutexHeld /\ gate # "Pass"
         /\ answer'[h] = Response(Status(gate), gate, Secured(NoHeaders))
  BY <1>1, EvaluateFacts
<1>4. call[h] \in Calls /\ answer[h] = NoAnswer
  BY <1>1, <1>2 DEF ConnectionTypes
<1>5. ConnectionTypes'
  <2>1. /\ IF stage'[h] = "idle" THEN call'[h] = NoCall ELSE call'[h] \in Calls
        /\ stage'[h] # "answered" => answer'[h] = NoAnswer
        /\ stage'[h] = "hung" => mutexHeld'
        /\ mutexHeld => mutexHeld'
    BY <1>2, <1>3, <1>4
  <2>2. DOMAIN call' = Connections
        /\ \A g \in Connections \ {h} :
              stage'[g] = stage[g] /\ call'[g] = call[g] /\ answer'[g] = answer[g]
    BY <1>1, <1>2 DEF ConnectionTypes
  <2> QED BY <1>2, <2>1, <2>2, OneConnection
<1>6. LimiterTypes'
  <2>1. PICK g : Record(call[h], g)
    BY DEF Evaluate
  <2> QED BY <1>1, <2>1, RecordFacts DEF LimiterTypes
<1>7. TableTypes'
  <2>1. blocklist' = blocklist \/ blocklist' = Insert(Peer(call[h]))
    BY DEF Evaluate
  <2>2. Peer(call[h]) \in IPs
    BY DEF Peer, IPs
  <2>3. Insert(Peer(call[h])) \in [IPs -> {"none", "active", "expired"}]
    BY <1>1, <2>2 DEF TableTypes, Insert
  <2> QED BY <1>1, <1>2, <2>1, <2>3 DEF TableTypes
<1>8. Base'
  <2>1. Started' /\ (db_open \in Opens(conf))' /\ (mutexHeld \in BOOLEAN)'
    BY <1>1, <1>2, <1>3 DEF processVars, Started
  <2> QED BY <1>5, <1>6, <1>7, <2>1, BaseNext
<1>9. \/ stage'[h] \notin {"forwarded", "answered"}
      \/ GoneUp(h)
      \/ Answered(h)
  <2>1. CASE stage'[h] = "hung"
    BY <2>1
  <2>2. CASE stage'[h] = "forwarded"
    BY <1>2, <1>3, <1>4, <2>2 DEF GoneUp, processVars
  <2>3. CASE stage'[h] = "answered"
    <3>1. answer'[h].cause = gate /\ answer'[h].headers = Secured(NoHeaders)
      BY <1>3, <2>3 DEF Response
    <3>2. gate = "ThreatScoreExceeded" => Exceeds(call[h])
      BY DEF Gate
    <3> HIDE DEF gate
    <3> QED BY <1>2, <2>3, <3>1, <3>2 DEF Answered, processVars
  <2> QED BY <1>3, <2>1, <2>2, <2>3
<1>10. \A g \in Connections \ {h} : Kept(g)
  BY <1>2 DEF Kept, processVars
<1> QED BY <1>8, <1>9, <1>10 DEF Sound, Outcome

\* Time, and a restart.
LEMMA ElapseSound ==
    ASSUME Base, NEW ip \in IPs, NEW d \in {0, 1}, Elapse(ip, d)
    PROVE  Sound
<1>1. /\ ConnectionTypes /\ Started /\ db_open \in Opens(conf)
      /\ mutexHeld \in BOOLEAN /\ LimiterTypes /\ TableTypes
  BY BaseParts
<1>2. UNCHANGED <<processVars, connectionVars, tableVars, mutexHeld>>
  BY DEF Elapse
<1>3. LimiterTypes'
  <2>1. /\ window[ip] > 0 /\ forwarded[ip] - d \in 0..(window[ip] - 1)
        /\ window' = [window EXCEPT ![ip] = @ - 1]
        /\ forwarded' = [forwarded EXCEPT ![ip] = @ - d]
    BY DEF Elapse
  <2>2. window[ip] \in Nat /\ forwarded[ip] \in Nat
    BY <1>1 DEF LimiterTypes
  <2>3. /\ window[ip] - 1 \in Nat /\ forwarded[ip] - d \in Nat
        /\ forwarded[ip] - d <= window[ip] - 1
    BY <2>1, <2>2
  <2>4. window' \in [IPs -> Nat] /\ forwarded' \in [IPs -> Nat]
    BY <1>1, <2>1, <2>3 DEF LimiterTypes
  <2>5. \A p \in IPs : IF p = ip
           THEN window'[p] = window[ip] - 1 /\ forwarded'[p] = forwarded[ip] - d
           ELSE window'[p] = window[p] /\ forwarded'[p] = forwarded[p]
    BY <1>1, <2>1 DEF LimiterTypes
  <2>6. \A p \in IPs : forwarded'[p] <= window'[p]
    BY <1>1, <2>3, <2>5 DEF LimiterTypes
  <2> QED BY <2>4, <2>6 DEF LimiterTypes
<1>4. Base'
  <2>1. Started' /\ (db_open \in Opens(conf))' /\ (mutexHeld \in BOOLEAN)'
    BY <1>1, <1>2 DEF processVars, Started
  <2>2. ConnectionTypes' /\ TableTypes'
    BY <1>1, <1>2 DEF connectionVars, tableVars, ConnectionTypes, TableTypes
  <2> QED BY <1>3, <2>1, <2>2, BaseNext
<1>5. \A g \in Connections : Kept(g)
  BY <1>2 DEF Kept, processVars, connectionVars
<1> QED BY <1>4, <1>5 DEF Sound, Outcome

LEMMA BlockExpiresSound ==
    ASSUME Base, NEW ip \in IPs, BlockExpires(ip)
    PROVE  Sound
<1>1. /\ ConnectionTypes /\ Started /\ db_open \in Opens(conf)
      /\ mutexHeld \in BOOLEAN /\ LimiterTypes /\ TableTypes
  BY BaseParts
<1>2. /\ UNCHANGED <<processVars, connectionVars, limiterVars, whitelist, mutexHeld>>
      /\ blocklist' = [blocklist EXCEPT ![ip] = "expired"]
  BY DEF BlockExpires
<1>3. Base'
  <2>1. Started' /\ (db_open \in Opens(conf))' /\ (mutexHeld \in BOOLEAN)'
    BY <1>1, <1>2 DEF processVars, Started
  <2>2. ConnectionTypes' /\ LimiterTypes'
    BY <1>1, <1>2 DEF connectionVars, limiterVars, ConnectionTypes, LimiterTypes
  <2>3. TableTypes'
    BY <1>1, <1>2 DEF TableTypes
  <2> QED BY <2>1, <2>2, <2>3, BaseNext
<1>4. \A g \in Connections : Kept(g)
  BY <1>2 DEF Kept, processVars, connectionVars
<1> QED BY <1>3, <1>4 DEF Sound, Outcome

LEMMA ServeSound ==
    ASSUME Base, NEW f \in Files, Serve(f)
    PROVE  Sound
<1>1. TableTypes
  BY BaseParts
<1>2. /\ stage' = [h \in Connections |-> "idle"] /\ call' = [h \in Connections |-> NoCall]
      /\ answer' = [h \in Connections |-> NoAnswer]
  BY DEF Serve
<1>3. ConnectionTypes'
  BY <1>2 DEF ConnectionTypes, Stages
<1>4. LimiterTypes'
  BY DEF LimiterTypes, Serve
<1>5. TableTypes'
  BY <1>1 DEF TableTypes, tableVars, Serve
<1>6. Started' /\ (db_open \in Opens(conf))' /\ (mutexHeld \in BOOLEAN)'
  BY DEF Started, Serve
<1>7. Base'
  BY <1>3, <1>4, <1>5, <1>6, BaseNext
<1>8. \A h \in Connections : stage'[h] \notin {"forwarded", "answered"}
  BY <1>2
<1> QED BY <1>7, <1>8 DEF Sound, Outcome

LEMMA StepSound ==
    ASSUME Base, [Next]_vars
    PROVE  Sound
<1>1. CASE UNCHANGED vars
  <2>1. UNCHANGED <<stage, call, answer, file, conf, db_open, window, forwarded,
                    blocklist, whitelist, mutexHeld>>
    BY <1>1 DEF vars, connectionVars, processVars, limiterVars, tableVars
  <2>2. Base'
    <3>1. /\ ConnectionTypes /\ Started /\ db_open \in Opens(conf)
          /\ mutexHeld \in BOOLEAN /\ LimiterTypes /\ TableTypes
      BY BaseParts
    <3>2. Started' /\ (db_open \in Opens(conf))' /\ (mutexHeld \in BOOLEAN)'
      BY <2>1, <3>1 DEF Started
    <3>3. ConnectionTypes' /\ LimiterTypes' /\ TableTypes'
      BY <2>1, <3>1 DEF ConnectionTypes, LimiterTypes, TableTypes
    <3> QED BY <3>2, <3>3, BaseNext
  <2>3. \A h \in Connections : Kept(h)
    BY <2>1 DEF Kept
  <2> QED BY <2>2, <2>3 DEF Sound, Outcome
<1>2. CASE \E h \in Connections, c \in Calls : Receive(h, c)
  BY <1>2, ReceiveSound
<1>3. CASE \E h \in Connections : Handle(h)
  BY <1>3, AnsweringSound, AdminCommandSound, EvaluateSound DEF Handle
<1>4. CASE \E h \in Connections : UpstreamFails(h) \/ Close(h)
  BY <1>4, AnsweringSound, CloseSound
<1>5. CASE \E h \in Connections, value \in {Absent, "upstream"} : Relay(h, value)
  BY <1>5, AnsweringSound
<1>6. CASE \E ip \in IPs, d \in {0, 1} : Elapse(ip, d)
  BY <1>6, ElapseSound
<1>7. CASE \E ip \in IPs : BlockExpires(ip)
  BY <1>7, BlockExpiresSound
<1>8. CASE \E f \in Files : Serve(f)
  BY <1>8, ServeSound
<1> QED BY <1>1, <1>2, <1>3, <1>4, <1>5, <1>6, <1>7, <1>8 DEF Next

LEMMA InitSound ==
    ASSUME Init
    PROVE  Base
<1>1. Started /\ db_open \in Opens(conf) /\ mutexHeld \in BOOLEAN
  BY DEF Init, Started
<1>2. ConnectionTypes
  BY DEF Init, ConnectionTypes, Stages
<1>3. LimiterTypes /\ TableTypes
  BY DEF Init, LimiterTypes, TableTypes
<1> QED BY <1>1, <1>2, <1>3, BaseParts

\* Whatever the files and the requests are, the types hold: the configuration in
\* use stays within the bounds of sanitize() over every restart, and a task hangs
\* only on the database mutex.
THEOREM ServerTypes == Spec => []TypeOK
<1>1. Init => Base
  BY InitSound
<1>2. Base /\ [Next]_vars => Base'
  BY StepSound DEF Sound
<1>3. Base => TypeOK
  BY DEF Base
<1> QED BY <1>1, <1>2, <1>3, PTL DEF Spec

LEMMA BaseInvariant == Spec => []Base
<1>1. Init => Base
  BY InitSound
<1>2. Base /\ [Next]_vars => Base'
  BY StepSound DEF Sound
<1> QED BY <1>1, <1>2, PTL DEF Spec

(***************************** what is let through and answered ****************)

\* Only admissible requests are ever on their way upstream: the allowlist, the
\* size limit and the two score thresholds of the file hold together, for any
\* file and any request.  What the upstream is asked for is the path that was
\* admitted, unless the request has a query.
THEOREM UpstreamIsShielded == Spec => []UpstreamShielded
<1>1. Init => UpstreamShielded
  BY DEF Init, UpstreamShielded
<1>2. ASSUME Base, UpstreamShielded, [Next]_vars
      PROVE  UpstreamShielded'
  <2> SUFFICES ASSUME NEW h \in Connections, stage'[h] = "forwarded"
               PROVE  /\ Admissible(call[h])'
                      /\ (~call[h].query => PathAdmitted(UpstreamPath(call[h])))'
    BY DEF UpstreamShielded
  <2>1. Outcome(h)
    BY <1>2, StepSound DEF Sound
  <2>2. CASE Kept(h) \/ GoneUp(h)
    <3>1. Admissible(call[h])
      <4>1. CASE Kept(h)
        BY <1>2, <4>1 DEF Kept, UpstreamShielded
      <4>2. CASE GoneUp(h)
        BY <1>2, <4>2, PassIsAdmissible DEF GoneUp, Base
      <4> QED BY <2>2, <4>1, <4>2
    <3>2. ~call[h].query => PathAdmitted(UpstreamPath(call[h]))
      BY <3>1 DEF Admissible, UpstreamPath
    <3>3. call'[h] = call[h] /\ file' = file /\ conf' = conf
      BY <2>2 DEF Kept, GoneUp
    <3>4. Admissible(call[h])'
      BY <3>1, <3>3 DEF Admissible, PathAdmitted, Configured, Score
    <3>5. (~call[h].query => PathAdmitted(UpstreamPath(call[h])))'
      BY <3>2, <3>3 DEF PathAdmitted, Configured, UpstreamPath
    <3> QED BY <3>4, <3>5
  <2> QED BY <2>1, <2>2 DEF Outcome, Answered
<1> QED BY <1>1, <1>2, BaseInvariant, PTL DEF Spec

\* No clean request is refused for its score, unless the file gave a threshold of
\* 0 or had no [scoring] section.
THEOREM CleanRequestsPass == Spec => []CleanNeverScored
<1>1. Init => CleanNeverScored
  BY DEF Init, CleanNeverScored
<1>2. ASSUME Base, CleanNeverScored, [Next]_vars
      PROVE  CleanNeverScored'
  <2> SUFFICES ASSUME NEW h \in Connections, stage'[h] = "answered",
                      answer'[h].cause = "ThreatScoreExceeded", call'[h].hits = 0
               PROVE  /\ Parses(file')
                      /\ \/ "scoring" \notin DOMAIN file'.keys
                         \/ Entry(file'.keys, "scoring", "threat_threshold", 50) = 0
    BY DEF CleanNeverScored
  <2>1. Outcome(h)
    BY <1>2, StepSound DEF Sound
  <2>2. CASE Kept(h)
    BY <1>2, <2>2 DEF Kept, CleanNeverScored
  <2>3. CASE Answered(h)
    <3>1. Exceeds(call[h]) /\ call[h].hits = 0 /\ file' = file
      BY <2>3 DEF Answered
    <3> QED BY <1>2, <3>1, CleanExceeds DEF Base
  <2> QED BY <2>1, <2>2, <2>3 DEF Outcome, GoneUp
<1> QED BY <1>1, <1>2, BaseInvariant, PTL DEF Spec

\* Every answer of a handler, but the refusals of the admin API, carries every
\* header of a file that has them, whatever the upstream sent.
THEOREM HeadersAreEnforced == Spec => []HeadersEnforced
<1> DEFINE Asked(name) == Configured("response_headers", name, "")
<1>1. Init => HeadersEnforced
  BY DEF Init, HeadersEnforced, FromHandler
<1>2. ASSUME Base, HeadersEnforced, [Next]_vars
      PROVE  HeadersEnforced'
  <2> SUFFICES ASSUME NEW h \in Connections, NEW name \in HeaderNames,
                      FromHandler(h)', HeadersGiven'
               PROVE  Carries(h, name, Asked(name))'
    BY DEF HeadersEnforced
  <2>0. stage'[h] = "answered"
        /\ answer'[h].cause \notin {"rejected", "unauthorized", "invalid_ip"}
    BY DEF FromHandler
  <2>1. Outcome(h)
    BY <1>2, StepSound DEF Sound
  <2>2. CASE Kept(h)
    <3>1. stage'[h] = stage[h] /\ answer'[h] = answer[h] /\ file' = file
      BY <2>2 DEF Kept
    <3>2. FromHandler(h) /\ HeadersGiven
      BY <2>0, <3>1 DEF FromHandler, HeadersGiven
    <3>3. Carries(h, name, Asked(name))
      BY <1>2, <3>2 DEF HeadersEnforced
    <3> QED BY <3>1, <3>3 DEF Carries, Configured
  <2>3. CASE Answered(h)
    <3>1. PICK headers : answer'[h].headers = Secured(headers)
      BY <2>0, <2>3 DEF Answered
    <3>2. \/ Asked(name) = "control"
          \/ Asked(name) = "" /\ name = "strict_transport_security"
          \/ Secured(headers)[name] = Asked(name)
      BY <1>2, SecuredHeaders DEF Base
    <3>3. file' = file
      BY <2>3 DEF Answered
    <3> QED BY <3>1, <3>2, <3>3 DEF Carries, Configured
  <2> QED BY <2>0, <2>1, <2>2, <2>3 DEF Outcome, GoneUp
<1> QED BY <1>1, <1>2, BaseInvariant, PTL DEF Spec

(***************************** the limit ***************************************)

LEMMA EvaluateLimits ==
    ASSUME Base, UpstreamWithinLimit,
           NEW h \in Connections, NEW found \in BOOLEAN, Evaluate(h, found)
    PROVE  UpstreamWithinLimit'
<1> DEFINE c    == call[h]
           gate == Gate(c, found)
<1>1. TypeOK /\ Limit \in Nat
  BY StartedSound DEF Base
<1>2. conf' = conf
  BY DEF Evaluate, processVars
<1>3. PICK g : Record(c, g) /\ (g = "Pass" => gate = "Pass")
  BY DEF Evaluate
<1>4. \A ip \in IPs : forwarded'[ip] # forwarded[ip] =>
         /\ ip = Local /\ g = "Pass" /\ conf.rate_limiting.enabled
         /\ forwarded'[ip] = forwarded[ip] + 1
  BY <1>1, <1>3, RecordFacts DEF Peer
<1>5. ASSUME NEW ip \in IPs, conf.rate_limiting.enabled
      PROVE  forwarded'[ip] <= Limit
  <2>1. CASE forwarded'[ip] = forwarded[ip]
    BY <1>5, <2>1 DEF UpstreamWithinLimit
  <2>2. CASE forwarded'[ip] # forwarded[ip]
    <3>1. ip = Local /\ gate = "Pass" /\ forwarded'[ip] = forwarded[ip] + 1
      BY <1>3, <1>4, <2>2
    <3>2. ~Limited(c)
      BY <3>1 DEF Gate
    <3>3. ~(window[Local] + 1 > Limit)
      BY <1>5, <3>2 DEF Limited, Peer
    <3>4. forwarded[ip] \in Nat /\ window[ip] \in Nat /\ forwarded[ip] <= window[ip]
      BY <1>1 DEF TypeOK
    <3> QED BY <1>1, <3>1, <3>3, <3>4
  <2> QED BY <2>1, <2>2
<1>6. Limit' = Limit
  BY <1>2 DEF Limit
<1> QED BY <1>2, <1>5, <1>6 DEF UpstreamWithinLimit

LEMMA ElapseLimits ==
    ASSUME Base, UpstreamWithinLimit, NEW ip \in IPs, NEW d \in {0, 1}, Elapse(ip, d)
    PROVE  UpstreamWithinLimit'
<1>1. forwarded \in [IPs -> Nat]
  BY DEF Base, TypeOK
<1>2. forwarded' = [forwarded EXCEPT ![ip] = @ - d] /\ conf' = conf
  BY DEF Elapse, processVars
<1>3. \A p \in IPs : IF p = ip THEN forwarded'[p] = forwarded[p] - d
                              ELSE forwarded'[p] = forwarded[p]
  BY <1>1, <1>2
<1>4. Limit' = Limit /\ Limit \in Nat
  BY <1>2, StartedSound DEF Limit, Base
<1>5. ASSUME NEW p \in IPs, conf.rate_limiting.enabled
      PROVE  forwarded'[p] <= Limit
  <2>1. forwarded[p] \in Nat /\ forwarded[p] <= Limit
    BY <1>1, <1>5 DEF UpstreamWithinLimit
  <2> QED BY <1>3, <1>4, <2>1
<1> QED BY <1>2, <1>4, <1>5 DEF UpstreamWithinLimit

\* The other steps leave the counts alone, or are the restart, which clears them.
LEMMA OtherLimits ==
    ASSUME Base, UpstreamWithinLimit,
           \/ UNCHANGED <<limiterVars, processVars>>
           \/ \E f \in Files : Serve(f)
    PROVE  UpstreamWithinLimit'
<1>1. CASE UNCHANGED <<limiterVars, processVars>>
  BY <1>1 DEF UpstreamWithinLimit, Limit, limiterVars, processVars
<1>2. ASSUME NEW f \in Files, Serve(f)
      PROVE  UpstreamWithinLimit'
  <2>1. forwarded' = [ip \in IPs |-> 0] /\ conf' = Configuration[f]
    BY <1>2 DEF Serve
  <2>2. Limit' \in Nat
    BY <2>1, ConfigurationSound DEF Limit
  <2> QED BY <2>1, <2>2 DEF UpstreamWithinLimit
<1> QED BY <1>1, <1>2

LEMMA StepLimits ==
    ASSUME Base, UpstreamWithinLimit, [Next]_vars
    PROVE  UpstreamWithinLimit'
<1>1. CASE UNCHANGED vars
  BY <1>1, OtherLimits DEF vars
<1>2. ASSUME NEW h \in Connections, NEW c \in Calls, Receive(h, c)
      PROVE  UpstreamWithinLimit'
  <2>1. UNCHANGED <<limiterVars, processVars>>
    BY <1>2 DEF Receive
  <2> QED BY <2>1, OtherLimits
<1>3. ASSUME NEW h \in Connections, Handle(h)
      PROVE  UpstreamWithinLimit'
  <2>1. CASE Reject(h) \/ RejectOversized(h)
    <3>1. UNCHANGED <<limiterVars, processVars>>
      BY <2>1 DEF Reject, RejectOversized
    <3> QED BY <3>1, OtherLimits
  <2>2. ASSUME NEW command \in Commands, AdminCommand(h, command)
        PROVE  UpstreamWithinLimit'
    <3>1. UNCHANGED <<limiterVars, processVars>>
      BY <2>2, AdminCommandFacts DEF Base
    <3> QED BY <3>1, OtherLimits
  <2>3. ASSUME NEW query \in Queries, AdminQuery(h, query)
        PROVE  UpstreamWithinLimit'
    <3>1. UNCHANGED <<limiterVars, processVars>>
      BY <2>3 DEF AdminQuery
    <3> QED BY <3>1, OtherLimits
  <2>4. ASSUME NEW found \in BOOLEAN, Evaluate(h, found)
        PROVE  UpstreamWithinLimit'
    BY <2>4, EvaluateLimits
  <2> QED BY <1>3, <2>1, <2>2, <2>3, <2>4 DEF Handle
<1>4. ASSUME NEW h \in Connections, UpstreamFails(h) \/ Close(h)
      PROVE  UpstreamWithinLimit'
  <2>1. UNCHANGED <<limiterVars, processVars>>
    BY <1>4 DEF UpstreamFails, Close
  <2> QED BY <2>1, OtherLimits
<1>5. ASSUME NEW h \in Connections, NEW value, Relay(h, value)
      PROVE  UpstreamWithinLimit'
  <2>1. UNCHANGED <<limiterVars, processVars>>
    BY <1>5 DEF Relay
  <2> QED BY <2>1, OtherLimits
<1>6. CASE \E ip \in IPs, d \in {0, 1} : Elapse(ip, d)
  BY <1>6, ElapseLimits
<1>7. ASSUME NEW ip \in IPs, BlockExpires(ip)
      PROVE  UpstreamWithinLimit'
  <2>1. UNCHANGED <<limiterVars, processVars>>
    BY <1>7 DEF BlockExpires
  <2> QED BY <2>1, OtherLimits
<1>8. CASE \E f \in Files : Serve(f)
  BY <1>8, OtherLimits
<1> QED BY <1>1, <1>2, <1>3, <1>4, <1>5, <1>6, <1>7, <1>8 DEF Next

\* Within any window no more requests are forwarded than the limit of the file and
\* its burst, for any number of connections and clients.
THEOREM UpstreamIsLimited == Spec => []UpstreamWithinLimit
<1>1. Init => UpstreamWithinLimit
  <2> SUFFICES ASSUME Init PROVE UpstreamWithinLimit
    OBVIOUS
  <2>1. Limit \in Nat
    BY InitSound, StartedSound DEF Base
  <2> QED BY <2>1 DEF Init, UpstreamWithinLimit
<1>2. Base /\ UpstreamWithinLimit /\ [Next]_vars => UpstreamWithinLimit'
  BY StepLimits
<1> QED BY <1>1, <1>2, BaseInvariant, PTL DEF Spec

(***************************** the tables **************************************)

\* The admin handlers grant nothing without the expected token.
LEMMA GrantedToken ==
    ASSUME NEW c, NEW command, Granted(c, command)
    PROVE  c.token = ExpectedToken(conf)
<1>1. ~Refusal.authorized
  BY DEF Refusal
<1> QED BY <1>1 DEF Granted, Authenticate, TokenAccepted

LEMMA CommandGuarded ==
    ASSUME Base, NEW h \in Connections, NEW command \in Commands, AdminCommand(h, command)
    PROVE  Guarded
<1>1. \/ UNCHANGED tableVars
      \/ /\ Granted(call[h], command) /\ stage[h] = command /\ stage'[h] = "answered"
  BY AdminCommandFacts DEF Base
<1>2. CASE UNCHANGED tableVars
  BY <1>2 DEF Guarded, tableVars
<1>3. CASE Granted(call[h], command) /\ stage[h] = command /\ stage'[h] = "answered"
  <2>1. Handled(h) /\ stage[h] \in Commands
    BY <1>3 DEF Handled, Handlers
  <2>2. call[h].token = ExpectedToken(conf)
    BY <1>3, GrantedToken
  <2> QED BY <2>1, <2>2 DEF Guarded
<1> QED BY <1>1, <1>2, <1>3

\* evaluate adds the address it was told, and only when the score is reached.
LEMMA EvaluateGuarded ==
    ASSUME Base, NEW h \in Connections, NEW found \in BOOLEAN, Evaluate(h, found)
    PROVE  Guarded
<1> DEFINE c == call[h]
<1>1. stage[h] = "proxy" /\ stage'[h] \in {"hung", "forwarded", "answered"}
      /\ whitelist' = whitelist
  BY EvaluateFacts DEF Base
<1>2. Handled(h)
  BY <1>1 DEF Handled, Handlers
<1>3. blocklist' = blocklist \/ (blocklist' = Insert(Peer(c)) /\ AutoBlocks(Gate(c, found)))
  BY DEF Evaluate
<1>4. CASE blocklist' = blocklist
  BY <1>1, <1>4 DEF Guarded
<1>5. CASE blocklist' = Insert(Peer(c)) /\ AutoBlocks(Gate(c, found))
  <2>1. Score(c) >= conf.scoring.threat_threshold
    BY <1>5 DEF AutoBlocks, Gate, Exceeds
  <2>2. blocklist \in [IPs -> {"none", "active", "expired"}]
    BY DEF Base, TypeOK
  <2>3. \A ip \in IPs : /\ blocklist'[ip] # blocklist[ip] => ip = Peer(c)
                        /\ blocklist'[ip] = "none" => blocklist[ip] = "none"
    <3>1. blocklist' = [blocklist EXCEPT ![Peer(c)] = IF @ = "none" THEN "active" ELSE @]
      BY <1>5 DEF Insert
    <3> QED BY <2>2, <3>1
  <2> QED BY <1>1, <1>2, <2>1, <2>3 DEF Guarded
<1> QED BY <1>3, <1>4, <1>5

\* Blocks expire into "expired" rows.
LEMMA ExpiryGuarded ==
    ASSUME Base, NEW ip \in IPs, BlockExpires(ip)
    PROVE  Guarded
<1>1. /\ blocklist \in [IPs -> {"none", "active", "expired"}] /\ whitelist' = whitelist
      /\ blocklist' = [blocklist EXCEPT ![ip] = "expired"]
  BY DEF Base, TypeOK, BlockExpires
<1>2. \A p \in IPs : blocklist'[p] = blocklist[p] \/ blocklist'[p] = "expired"
  BY <1>1
<1> QED BY <1>1, <1>2 DEF Guarded

LEMMA StepGuarded ==
    ASSUME Base, [Next]_vars
    PROVE  [Guarded]_vars
<1>0. ASSUME UNCHANGED tableVars
      PROVE  Guarded
  BY <1>0 DEF Guarded, tableVars
<1>1. ASSUME NEW h \in Connections, NEW c \in Calls, Receive(h, c)
      PROVE  Guarded
  BY <1>0, <1>1 DEF Receive
<1>2. ASSUME NEW h \in Connections, Handle(h)
      PROVE  Guarded
  <2>1. CASE Reject(h) \/ RejectOversized(h)
    BY <1>0, <2>1 DEF Reject, RejectOversized
  <2>2. CASE \E command \in Commands : AdminCommand(h, command)
    BY <2>2, CommandGuarded
  <2>3. ASSUME NEW query \in Queries, AdminQuery(h, query)
        PROVE  Guarded
    BY <1>0, <2>3 DEF AdminQuery
  <2>4. CASE \E found \in BOOLEAN : Evaluate(h, found)
    BY <2>4, EvaluateGuarded
  <2> QED BY <1>2, <2>1, <2>2, <2>3, <2>4 DEF Handle
<1>3. ASSUME NEW h \in Connections, UpstreamFails(h) \/ Close(h)
      PROVE  Guarded
  BY <1>0, <1>3 DEF UpstreamFails, Close
<1>4. ASSUME NEW h \in Connections, NEW value, Relay(h, value)
      PROVE  Guarded
  BY <1>0, <1>4 DEF Relay
<1>5. ASSUME NEW ip \in IPs, NEW d \in {0, 1}, Elapse(ip, d)
      PROVE  Guarded
  BY <1>0, <1>5 DEF Elapse
<1>6. CASE \E ip \in IPs : BlockExpires(ip)
  BY <1>6, ExpiryGuarded
<1>7. ASSUME NEW f \in Files, Serve(f)
      PROVE  Guarded
  BY <1>0, <1>7 DEF Serve
<1> QED BY <1>1, <1>2, <1>3, <1>4, <1>5, <1>6, <1>7 DEF Next

\* Without the expected token nothing leaves the blocklist or touches the
\* whitelist, and nothing enters the blocklist but a request that scores.
THEOREM TablesAreGuarded == Spec => TablesGuarded
<1>1. Base /\ [Next]_vars => [Guarded]_vars
  BY StepGuarded
<1> QED BY <1>1, BaseInvariant, PTL DEF Spec, TablesGuarded
==============================================================================
