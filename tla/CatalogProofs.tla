----------------------------- MODULE CatalogProofs -----------------------------
(***************************************************************************)
(* The secrets that sign tasks, the caches before remote answers, the      *)
(* deployment of a schedule, the commands that create backfills, the rate  *)
(* limiters, the run of a plan with its checks, the traversals of the      *)
(* dependencies and the checks on an asset's rows, for every number of     *)
(* clients, requests, assets and rows.                                     *)
(***************************************************************************)
EXTENDS MCCatalog, TLAPS, FiniteSetTheorems, WellFoundedInduction

(* A behaviour moves one component at a time.                               *)
LEMMA CatalogSteps ==
  [Next]_vars => /\ [Secrets!Next]_secretVars
                 /\ [Caches!Next]_cacheVars
                 /\ [Deploy!Next]_deployVars
                 /\ [Backfills!Next]_commandVars
                 /\ [Run!Next]_runVars
                 /\ [Lineage!Next]_lineageVars
                 /\ [Quality!Next]_qualityVars
  BY DEF Next, vars, catalogVars, workVars, doorVars, lineageVars, deployVars,
         commandVars, qualityVars, runVars, limitVars, secretVars, cacheVars

-----------------------------------------------------------------------------
(* The secrets.                                                             *)

\* What is disabled stays so, and a refresh fetches only what is not: whatever
\* was disabled when it began is not among what it caches.
SecretInv ==
    /\ secretPc[Secrets!Startup] \in {"latest", "previous", "accepted", "refused"}
    /\ DOMAIN secretPc = Secrets!Processes /\ DOMAIN latest = Secrets!Processes
    /\ DOMAIN knownDisabled = Secrets!Processes
    /\ secretPc[Secrets!Startup] = "accepted" => valid_secrets # <<>>
    /\ \A p \in Secrets!Processes : knownDisabled[p] \subseteq disabled
    /\ \A p \in Secrets!Processes : secretPc[p] = "previous" =>
          latest[p] \notin Weak /\ latest[p] \notin knownDisabled[p]
    /\ Secrets!ToSet(valid_secrets) \cap Weak = {}
    /\ Secrets!ToSet(valid_secrets) \cap basis = {}

(* What a refresh caches is good and was enabled since the refresh began.   *)
LEMMA FetchedSecrets ==
  ASSUME SecretInv, NEW p \in Secrets!Processes, Secrets!FetchPrevious(p)
  PROVE  /\ valid_secrets' # <<>>
         /\ Secrets!ToSet(valid_secrets') \cap Weak = {}
         /\ Secrets!ToSet(valid_secrets') \cap knownDisabled[p] = {}
<1>1. /\ secretPc[p] = "previous"
      /\ latest[p] \notin Weak /\ latest[p] \notin knownDisabled[p]
      /\ knownDisabled[p] \subseteq disabled
  BY DEF Secrets!FetchPrevious, SecretInv
<1>2. \/ valid_secrets' = <<latest[p]>>
      \/ valid_secrets' = <<latest[p], 1>> /\ 1 \notin Weak /\ 1 \notin disabled
  BY DEF Secrets!FetchPrevious, Secrets!Replacement, Secrets!Fetchable, Secrets!Good
<1>3. CASE valid_secrets' = <<latest[p]>>
  <2>1. Secrets!ToSet(valid_secrets') = {latest[p]}
    BY <1>3 DEF Secrets!ToSet
  <2> QED
    BY <1>1, <1>3, <2>1
<1>4. CASE valid_secrets' = <<latest[p], 1>> /\ 1 \notin Weak /\ 1 \notin disabled
  <2>1. Secrets!ToSet(valid_secrets') = {latest[p], 1}
    BY <1>4 DEF Secrets!ToSet
  <2> QED
    BY <1>1, <1>4, <2>1
<1> QED
  BY <1>2, <1>3, <1>4

(* The refreshes of all requests overlap; each fills the cache alone.       *)
LEMMA SecretStep == SecretInv /\ [Secrets!Next]_secretVars => SecretInv'
<1> SUFFICES ASSUME SecretInv, [Secrets!Next]_secretVars PROVE SecretInv'
  OBVIOUS
<1> USE DEF Secrets!Goto, Secrets!manager
<1>0. Secrets!Startup \in Secrets!Processes
  BY DEF Secrets!Processes
<1>1. ASSUME NEW p \in Secrets!Processes, Secrets!Receive(p) PROVE SecretInv'
  <2>1. p # Secrets!Startup
    BY <1>1 DEF Secrets!Receive, Secrets!Up
  <2> QED
    BY <1>0, <1>1, <2>1 DEF Secrets!Receive, SecretInv
<1>2. ASSUME NEW p \in Secrets!Processes, Secrets!FetchLatest(p) PROVE SecretInv'
  BY <1>0, <1>2 DEF Secrets!FetchLatest, Secrets!RefreshFails, Secrets!Fetchable,
     Secrets!Good, SecretInv
<1>3. ASSUME NEW p \in Secrets!Processes, Secrets!FetchPrevious(p) PROVE SecretInv'
  <2>1. /\ secretPc' = [secretPc EXCEPT ![p] = IF p = Secrets!Startup THEN "accepted"
                                                                     ELSE "verify"]
        /\ basis' = knownDisabled[p]
        /\ UNCHANGED <<disabled, latest, knownDisabled>>
    BY <1>3 DEF Secrets!FetchPrevious
  <2>2. /\ valid_secrets' # <<>>
        /\ Secrets!ToSet(valid_secrets') \cap Weak = {}
        /\ Secrets!ToSet(valid_secrets') \cap basis' = {}
    BY <1>3, <2>1, FetchedSecrets
  <2> QED
    BY <1>0, <2>1, <2>2 DEF SecretInv
<1>4. ASSUME NEW p \in Secrets!Processes, Secrets!Verify(p) PROVE SecretInv'
  <2>1. p # Secrets!Startup
    BY <1>4 DEF Secrets!Verify, SecretInv
  <2> QED
    BY <1>0, <1>4, <2>1 DEF Secrets!Verify, SecretInv
<1>5. ASSUME NEW p \in Secrets!Processes, Secrets!Answer(p) PROVE SecretInv'
  BY <1>0, <1>5 DEF Secrets!Answer, SecretInv
<1>6. CASE Secrets!GrowsStale \/ Secrets!AddVersion \/ Secrets!DisableVersion
           \/ UNCHANGED secretVars
  BY <1>6 DEF Secrets!GrowsStale, Secrets!AddVersion, Secrets!DisableVersion,
     secretVars, SecretInv
<1> QED
  BY <1>1, <1>2, <1>3, <1>4, <1>5, <1>6 DEF Secrets!Next

(* A worker that serves has a secret, never a weak one, and none that was   *)
(* disabled before the refresh that cached it began, for any number of      *)
(* requests that refresh at once and whatever calls fail.                   *)
THEOREM SecretsAreSound == Spec => []SecretsSound
<1>1. Init => SecretInv
  BY DEF Init, Secrets!Init, SecretInv, Secrets!Processes, Secrets!ToSet
<1>2. SecretInv /\ [Next]_vars => SecretInv'
  BY CatalogSteps, SecretStep
<1>3. SecretInv => SecretsSound
  BY DEF SecretInv, SecretsSound, Secrets!SecretsSound, Secrets!Up
<1> QED
  BY <1>1, <1>2, <1>3, PTL DEF Spec

-----------------------------------------------------------------------------
(* The caches before remote answers.                                        *)

\* What can be cached: what was true, when it was and when it was written.
CacheEntries ==
    [value : SUBSET (Keys \cup {"up"}), asOf : Nat, stored : Nat]

\* An entry is not from the future and was not long under way.
Recent(e) == e.asOf <= e.stored /\ e.stored <= clock /\ e.stored <= e.asOf + MaxDelay

AskerType ==
    [at : {"idle", "asking", "answered", "given", "failed"},
     want : Keys \cup {"none"}, entry : CacheEntries]

CacheType ==
    /\ clock \in Nat /\ kind \in Caches!Kinds
    /\ remote \in SUBSET (Keys \cup {"up"})
    /\ cache \in SUBSET CacheEntries
    /\ asker \in [Askers -> AskerType]
    /\ DOMAIN gone = Askers

\* What CacheSound says of a caller that is given e.
GoodFor(a, e) ==
    /\ kind = "token"  => clock < e.asOf + Ttl
    /\ kind = "health" => clock < e.asOf + Ttl + MaxDelay
    /\ kind = "keys"   => /\ clock <= e.asOf + Ttl + MaxDelay
                          /\ asker[a].want \in e.value \cup gone[a]

\* A caller that waits has on record all that was not true since it asked.
CallerInv(a) ==
    /\ asker[a].at = "asking" =>
          /\ Caches!Facts(kind) \ remote \subseteq gone[a]
          /\ kind = "keys" => asker[a].want \in Keys
    /\ asker[a].at = "answered" =>
          /\ asker[a].entry.asOf <= clock
          /\ clock <= asker[a].entry.asOf + MaxDelay
          /\ kind = "keys" => asker[a].want \in asker[a].entry.value \cup gone[a]
    /\ asker[a].at = "given" => GoodFor(a, asker[a].entry)

CacheInv ==
    /\ CacheType
    /\ \A e \in cache : Recent(e)
    /\ \A a \in Askers : CallerInv(a)

(* A caller asks the cache first: what is fresh there is good for it.       *)
LEMMA LookupStep ==
  ASSUME CacheAssumption, CacheInv, NEW a \in Askers, NEW want \in Keys \cup {"none"},
         NEW fresh \in SUBSET cache, Caches!Lookup(a, want, fresh),
         kind = "keys" => want \in Keys,
         \A e \in fresh : CASE kind = "token"  -> clock < e.asOf + Ttl
                            [] kind = "health" -> clock < e.asOf + Ttl + MaxDelay
                            [] kind = "keys"   -> /\ clock <= e.asOf + Ttl + MaxDelay
                                                  /\ want \in e.value
  PROVE  CacheInv'
<1> DEFINE idle == [at |-> "idle", want |-> "none",
                    entry |-> [value |-> {}, asOf |-> 0, stored |-> 0]]
           e == CHOOSE x \in fresh : TRUE
           now == IF fresh = {} THEN [idle EXCEPT !.at = "asking", !.want = want]
                  ELSE [at |-> "given", want |-> want, entry |-> e]
<1>1. /\ asker' = [asker EXCEPT ![a] = now]
      /\ gone' = [gone EXCEPT ![a] = Caches!Facts(kind) \ remote]
      /\ UNCHANGED <<kind, clock, remote, cache>>
  BY DEF Caches!Lookup, Caches!Idle, Caches!NoEntry
<1>2. fresh # {} => e \in fresh
  OBVIOUS
<1>3. now \in AskerType
  BY <1>2 DEF AskerType, CacheInv, CacheType, CacheEntries
<1>4. CacheType'
  BY <1>1, <1>3 DEF CacheInv, CacheType
<1>5. ASSUME NEW b \in Askers, b # a PROVE CallerInv(b)'
  <2>1. asker'[b] = asker[b] /\ gone'[b] = gone[b]
    BY <1>1, <1>5 DEF CacheInv, CacheType
  <2> QED
    BY <1>1, <1>5, <2>1 DEF CacheInv, CallerInv, GoodFor, Caches!Facts
<1>6. asker'[a] = now /\ gone'[a] = Caches!Facts(kind) \ remote
  BY <1>1 DEF CacheInv, CacheType
<1>7. CASE fresh = {}
  <2>1. now.at = "asking" /\ now.want = want
    BY <1>7
  <2> QED
    BY <1>1, <1>4, <1>5, <1>6, <2>1 DEF CacheInv, CallerInv, Recent, Caches!Facts
<1>8. CASE fresh # {}
  <2>1. now.at = "given" /\ now.want = want /\ now.entry = e
    BY <1>8
  <2>2. e \in fresh
    BY <1>2, <1>8
  <2>3. /\ kind = "token"  => clock < e.asOf + Ttl
        /\ kind = "health" => clock < e.asOf + Ttl + MaxDelay
        /\ kind = "keys"   => clock <= e.asOf + Ttl + MaxDelay /\ want \in e.value
    BY <2>2
  <2> HIDE DEF e, now
  <2>4. CallerInv(a)'
    BY <1>1, <1>6, <2>1, <2>3 DEF CallerInv, GoodFor
  <2> QED
    BY <1>1, <1>4, <1>5, <2>4 DEF CacheInv, Recent
<1> QED
  BY <1>7, <1>8

(* An answer is cached and given to the caller that asked for it.           *)
LEMMA KeepStep ==
  ASSUME CacheInv, NEW a \in Askers, NEW e \in CacheEntries, Caches!Keep(a, e),
         Recent(e), GoodFor(a, e)
  PROVE  CacheInv'
<1>1. /\ cache' = {e}
      /\ asker' = [asker EXCEPT ![a].at = "given", ![a].entry = e]
      /\ UNCHANGED <<kind, clock, remote, gone>>
  BY DEF Caches!Keep
<1>2. /\ asker'[a].at = "given" /\ asker'[a].want = asker[a].want
      /\ asker'[a].entry = e
      /\ \A b \in Askers : b # a => asker'[b] = asker[b]
      /\ asker' \in [Askers -> AskerType]
  BY <1>1 DEF CacheInv, CacheType, AskerType
<1>3. ASSUME NEW b \in Askers PROVE CallerInv(b)'
  BY <1>1, <1>2 DEF CacheInv, CallerInv, GoodFor, Caches!Facts
<1> QED
  BY <1>1, <1>2, <1>3 DEF CacheInv, CacheType, Recent

(* The lookups and answers of all callers and the remote overlap.           *)
LEMMA CacheStep ==
  ASSUME CacheAssumption, CacheInv, [Caches!Next]_cacheVars
  PROVE  CacheInv'
<1> USE DEF CacheType
<1>1. ASSUME NEW a \in Askers, Caches!GetAccessToken(a) PROVE CacheInv'
  <2> DEFINE fresh == {e \in cache : Caches!TokenFresh(e)}
  <2>1. ASSUME NEW e \in fresh PROVE clock < e.asOf + Ttl
    <3>1. e \in CacheEntries /\ Recent(e) /\ clock < e.stored + Caches!TokenLife
      BY DEF CacheInv, Caches!TokenFresh
    <3> QED
      BY <3>1 DEF CacheInv, CacheAssumption, Recent, CacheEntries, Caches!TokenLife
  <2>2. kind = "token" /\ Caches!Lookup(a, "none", fresh)
    BY <1>1 DEF Caches!GetAccessToken
  <2> QED
    BY <2>1, <2>2, LookupStep
<1>2. ASSUME NEW a \in Askers, Caches!GetJwks(a) PROVE CacheInv'
  <2>1. PICK kid \in Keys :
           Caches!Lookup(a, kid, {e \in cache : Caches!KeysFresh(e, kid)})
    BY <1>2 DEF Caches!GetJwks
  <2> DEFINE fresh == {e \in cache : Caches!KeysFresh(e, kid)}
  <2>2. ASSUME NEW e \in fresh
        PROVE  clock <= e.asOf + Ttl + MaxDelay /\ kid \in e.value
    <3>1. e \in CacheEntries /\ Recent(e) /\ clock - e.stored <= Ttl /\ kid \in e.value
      BY DEF CacheInv, Caches!KeysFresh
    <3> QED
      BY <3>1 DEF CacheInv, CacheAssumption, Recent, CacheEntries
  <2>3. kind = "keys"
    BY <1>2 DEF Caches!GetJwks
  <2> QED
    BY <2>1, <2>2, <2>3, LookupStep
<1>3. ASSUME NEW a \in Askers, Caches!CheckHealth(a) PROVE CacheInv'
  <2> DEFINE fresh == {e \in cache : Caches!HealthFresh(e)}
  <2>1. ASSUME NEW e \in fresh PROVE clock < e.asOf + Ttl + MaxDelay
    <3>1. e \in CacheEntries /\ Recent(e) /\ clock - e.stored < Ttl
      BY DEF CacheInv, Caches!HealthFresh
    <3> QED
      BY <3>1 DEF CacheInv, CacheAssumption, Recent, CacheEntries
  <2>2. kind = "health" /\ Caches!Lookup(a, "none", fresh)
    BY <1>3 DEF Caches!CheckHealth
  <2> QED
    BY <2>1, <2>2, LookupStep
<1>4. ASSUME NEW a \in Askers, Caches!RemoteAnswers(a) PROVE CacheInv'
  <2> DEFINE e == [Caches!NoEntry EXCEPT !.value = remote, !.asOf = clock]
  <2>1. /\ asker[a].at = "asking"
        /\ asker' = [asker EXCEPT ![a].at = "answered", ![a].entry = e]
        /\ UNCHANGED <<kind, clock, remote, cache, gone>>
    BY <1>4 DEF Caches!RemoteAnswers
  <2>2. e \in CacheEntries /\ e.asOf = clock /\ e.value = remote
    BY DEF CacheInv, CacheEntries, Caches!NoEntry
  <2> HIDE DEF e
  <2>3. /\ asker'[a].at = "answered" /\ asker'[a].want = asker[a].want
        /\ asker'[a].entry = e
        /\ \A b \in Askers : b # a => asker'[b] = asker[b]
        /\ asker' \in [Askers -> AskerType]
    BY <2>1, <2>2 DEF CacheInv, AskerType
  <2>4. clock <= clock + MaxDelay
    BY DEF CacheInv, CacheAssumption
  <2>5. ASSUME NEW b \in Askers PROVE CallerInv(b)'
    BY <2>1, <2>2, <2>3, <2>4 DEF CacheInv, CallerInv, GoodFor, Caches!Facts
  <2> QED
    BY <2>1, <2>3, <2>5 DEF CacheInv, Recent
<1>5. ASSUME NEW a \in Askers,
             Caches!FetchToken(a) \/ Caches!FetchAndCacheJwks(a) \/ Caches!HealthChecked(a)
      PROVE CacheInv'
  <2> DEFINE e == [asker[a].entry EXCEPT !.stored = clock]
  <2>1. asker[a].at = "answered" /\ Caches!Keep(a, e)
    BY <1>5 DEF Caches!FetchToken, Caches!FetchAndCacheJwks, Caches!HealthChecked,
       Caches!Answered, Caches!AnswerTo
  <2>2. /\ e \in CacheEntries /\ e.stored = clock
        /\ e.asOf = asker[a].entry.asOf /\ e.value = asker[a].entry.value
    BY DEF CacheInv, AskerType, CacheEntries
  <2> HIDE DEF e
  <2>3. e.asOf \in Nat /\ e.asOf <= clock /\ clock <= e.asOf + MaxDelay
    BY <2>1, <2>2 DEF CacheInv, CallerInv, CacheEntries
  <2>4. Recent(e)
    BY <2>2, <2>3 DEF Recent, CacheInv
  <2>5. GoodFor(a, e)
    BY <2>1, <2>2, <2>3 DEF GoodFor, CacheInv, CallerInv, CacheAssumption
  <2> QED
    BY <2>1, <2>2, <2>4, <2>5, KeepStep
<1>6. ASSUME NEW a \in Askers, Caches!HealthCheckFails(a) PROVE CacheInv'
  <2> DEFINE e == [value |-> {}, asOf |-> clock, stored |-> clock]
  <2>1. kind = "health" /\ Caches!Keep(a, e)
    BY <1>6 DEF Caches!HealthCheckFails
  <2>2. e \in CacheEntries /\ e.asOf = clock /\ e.stored = clock
    BY DEF CacheInv, CacheEntries
  <2>3. Recent(e) /\ GoodFor(a, e)
    BY <2>1, <2>2 DEF Recent, GoodFor, CacheInv, CacheAssumption
  <2> QED
    BY <2>1, <2>2, <2>3, KeepStep
<1>7. ASSUME NEW a \in Askers, Caches!FetchFails(a) \/ Caches!Leave(a) PROVE CacheInv'
  <2>1. /\ asker' \in [Askers -> AskerType] /\ DOMAIN gone' = Askers
        /\ asker'[a].at \in {"failed", "idle"}
        /\ \A b \in Askers : b # a => asker'[b] = asker[b] /\ gone'[b] = gone[b]
        /\ UNCHANGED <<kind, clock, remote, cache>>
    BY <1>7 DEF Caches!FetchFails, Caches!Leave, Caches!Idle, Caches!NoEntry, CacheInv,
       AskerType, CacheEntries
  <2>2. ASSUME NEW b \in Askers PROVE CallerInv(b)'
    BY <2>1 DEF CacheInv, CallerInv, GoodFor, Caches!Facts
  <2> QED
    BY <2>1, <2>2 DEF CacheInv, Recent
<1>8. CASE Caches!RemoteChanges
  <2>1. /\ remote' \in SUBSET (Keys \cup {"up"})
        /\ UNCHANGED <<kind, clock, cache, asker>>
    BY <1>8 DEF Caches!RemoteChanges, Caches!Facts, CacheInv, Caches!Kinds
  <2>2. /\ DOMAIN gone' = Askers
        /\ \A a \in Askers : asker[a].at # "idle" =>
              gone'[a] = gone[a] \cup (Caches!Facts(kind) \ remote')
    BY <1>8 DEF Caches!RemoteChanges
  <2>3. ASSUME NEW a \in Askers PROVE CallerInv(a)'
    BY <2>1, <2>2 DEF CacheInv, CallerInv, GoodFor, Caches!Facts
  <2> QED
    BY <2>1, <2>2, <2>3 DEF CacheInv, Recent
<1>9. CASE Caches!Tick
  <2>1. /\ clock' = clock + 1
        /\ UNCHANGED <<kind, remote, cache, asker, gone>>
        /\ \A a \in Askers :
              /\ asker[a].at # "given"
              /\ asker[a].at = "answered" => clock - asker[a].entry.asOf < MaxDelay
    BY <1>9 DEF Caches!Tick
  <2>2. ASSUME NEW a \in Askers PROVE CallerInv(a)'
    <3>1. asker[a].entry.asOf \in Nat
      BY DEF CacheInv, AskerType, CacheEntries
    <3> QED
      BY <2>1, <3>1 DEF CacheInv, CallerInv, GoodFor, Caches!Facts, CacheAssumption
  <2>3. \A e \in cache : e.asOf \in Nat /\ e.stored \in Nat
    BY DEF CacheInv, CacheEntries
  <2> QED
    BY <2>1, <2>2, <2>3 DEF CacheInv, Recent
<1>10. CASE UNCHANGED cacheVars
  BY <1>10 DEF cacheVars, CacheInv, CallerInv, GoodFor, Recent, Caches!Facts
<1> QED
  BY <1>1, <1>2, <1>3, <1>4, <1>5, <1>6, <1>7, <1>8, <1>9, <1>10 DEF Caches!Next

(* A token that is given out lives, keys and health are no older than the   *)
(* cache keeps them and an answer travels, and a key that is missing was    *)
(* not published all the time: for any number of callers and any life, as   *)
(* long as the client waits no longer than the margin and the life.         *)
THEOREM CachesAreSound == Spec => []CacheSound
<1>1. Init => CacheInv
  BY DEF Init, Caches!Init, CacheInv, CacheType, CallerInv, Caches!Idle, Caches!NoEntry,
     Caches!Facts, Caches!Kinds, AskerType, CacheEntries
<1>2. CacheInv /\ [Next]_vars => CacheInv'
  BY CatalogSteps, CacheStep, CacheAssumption
<1>3. CacheInv => CacheSound
  BY DEF CacheInv, CacheType, CallerInv, GoodFor, CacheSound, Caches!CacheSound, Caches!Kinds
<1> QED
  BY <1>1, <1>2, <1>3, PTL DEF Spec

-----------------------------------------------------------------------------
(* The deployment of a workflow and its schedule.                           *)

\* Between the insert of the row and the last write to it.
Winner(p) ==
    step[p] \in {"assets", "configure", "get_job", "create_job", "read_job",
                 "write_job", "disable", "write_disable", "synced"}

\* A deployer that wrote the row knows what became of it and of the job.
DeployerInv(p) ==
    /\ Winner(p) => deployed # Deploy!NoRow /\ foundJob[p] = FALSE
    /\ step[p] \in {"assets", "configure", "get_job", "create_job", "read_job", "write_job"}
          => deployed = Deploy!Written(p)
    /\ step[p] = "create_job" => cloudJob = "none"
    /\ step[p] \in {"read_job", "write_job", "synced"} => cloudJob = Deploy!JobState(p)
    /\ step[p] \in {"write_job", "write_disable"} => copy[p] = deployed
    /\ step[p] = "synced" => deployed = [Deploy!Written(p) EXCEPT !.job = TRUE]

\* What the row can be.
DeployType == [enabled : {"null", "true", "false"}, job : BOOLEAN, version : {0, 1}]

\* One deployer inserts the row; the job is made after it and never again.
DeployInv ==
    /\ DOMAIN step = Deployers /\ DOMAIN definition = Deployers
    /\ DOMAIN foundJob = Deployers /\ DOMAIN copy = Deployers
    /\ executions \in Nat
    /\ deployed \in DeployType
    /\ deployed # Deploy!NoRow => deployed.version = 1
    /\ \A p \in Deployers : definition[p].schedule \in {"none", "on", "off"}
    /\ \A p, q \in Deployers : Winner(p) /\ Winner(q) => p = q
    /\ \A p \in Deployers : DeployerInv(p)
    /\ cloudJob # "none" => deployed # Deploy!NoRow
    /\ deployed.job => cloudJob # "none"
    /\ request # "none" \/ executions > 0 => cloudJob = "ENABLED"

(* What a deployer writes is a row, and a new one if it found none.         *)
LEMMA WrittenRow ==
  ASSUME NEW p \in Deployers, definition[p].schedule \in {"none", "on", "off"}
  PROVE  /\ Deploy!Written(p) \in DeployType
         /\ foundJob[p] = FALSE => Deploy!Written(p).version = 1
         /\ Deploy!Written(p).job = FALSE
  BY DEF Deploy!Written, DeployType

(* While one deployer has the row, what the others know stays true.         *)
LEMMA OtherDeployers ==
  ASSUME DeployInv, NEW p \in Deployers,
         \A q \in Deployers \ {p} :
            /\ step'[q] = step[q] /\ definition'[q] = definition[q]
            /\ foundJob'[q] = foundJob[q] /\ copy'[q] = copy[q],
         Winner(p) \/ deployed = Deploy!NoRow \/ UNCHANGED <<deployed, cloudJob>>
  PROVE  \A q \in Deployers \ {p} : DeployerInv(q)'
<1> SUFFICES ASSUME NEW q \in Deployers \ {p} PROVE DeployerInv(q)'
  OBVIOUS
<1>1. Winner(q)' <=> Winner(q)
  BY DEF Winner
<1>2. CASE Winner(p) \/ deployed = Deploy!NoRow
  <2>1. ~Winner(q)
    BY <1>2 DEF DeployInv, DeployerInv
  <2> QED
    BY <2>1, <1>1 DEF DeployerInv, Winner
<1>3. CASE UNCHANGED <<deployed, cloudJob>>
  BY <1>3 DEF DeployInv, DeployerInv, Winner, Deploy!Written, Deploy!JobState
<1> QED
  BY <1>2, <1>3

(* A deployer that only goes on, or goes back to idle.                      *)
LEMMA DeployerMoves ==
  ASSUME DeployInv, NEW p \in Deployers, NEW next,
         step' = [step EXCEPT ![p] = next],
         DOMAIN definition' = Deployers /\ DOMAIN foundJob' = Deployers
            /\ DOMAIN copy' = Deployers,
         definition'[p].schedule \in {"none", "on", "off"},
         \A q \in Deployers \ {p} :
            /\ definition'[q] = definition[q]
            /\ foundJob'[q] = foundJob[q] /\ copy'[q] = copy[q],
         UNCHANGED <<deployed, cloudJob, request, executions>>,
         Winner(p)' => Winner(p),
         DeployerInv(p)'
  PROVE  DeployInv'
<1>1. \A q \in Deployers \ {p} : step'[q] = step[q]
  BY DEF DeployInv
<1>2. \A q \in Deployers \ {p} : DeployerInv(q)'
  BY <1>1, OtherDeployers
<1>3. \A q \in Deployers \ {p} : Winner(q)' <=> Winner(q)
  BY <1>1 DEF Winner
<1>4. \A q, r \in Deployers : Winner(q)' /\ Winner(r)' => q = r
  BY <1>3 DEF DeployInv
<1>5. DOMAIN step' = Deployers
  BY DEF DeployInv
<1>6. \A q \in Deployers : definition'[q].schedule \in {"none", "on", "off"}
  BY DEF DeployInv
<1> QED
  BY <1>2, <1>4, <1>5, <1>6 DEF DeployInv, Winner, DeployerInv

(* The deployer that has the row or the job writes to it.                   *)
LEMMA DeployerWrites ==
  ASSUME DeployInv, NEW p \in Deployers, NEW next,
         step' = [step EXCEPT ![p] = next],
         Winner(p) \/ deployed = Deploy!NoRow,
         DOMAIN copy' = Deployers, \A q \in Deployers \ {p} : copy'[q] = copy[q],
         UNCHANGED <<definition, foundJob, request, executions>>,
         deployed' \in DeployType, deployed'.version = 1,
         deployed'.job => cloudJob' # "none",
         cloudJob' = cloudJob \/ cloudJob = "none",
         DeployerInv(p)'
  PROVE  DeployInv'
<1>1. \A q \in Deployers \ {p} : step'[q] = step[q]
  BY DEF DeployInv
<1>2. \A q \in Deployers \ {p} : DeployerInv(q)'
  BY <1>1, OtherDeployers
<1>3. \A q \in Deployers \ {p} : ~Winner(q)'
  BY <1>1 DEF DeployInv, DeployerInv, Winner
<1>4. \A q, r \in Deployers : Winner(q)' /\ Winner(r)' => q = r
  BY <1>3
<1>5. deployed' # Deploy!NoRow
  BY DEF Deploy!NoRow
<1>6. DOMAIN step' = Deployers
  BY DEF DeployInv
<1> QED
  BY <1>2, <1>4, <1>5, <1>6 DEF DeployInv, Winner, DeployerInv, DeployType, Deploy!NoRow

(* One step per query and call of a deployer, and those of the schedule.    *)
LEMMA DeployStep == DeployInv /\ [Deploy!Next]_deployVars => DeployInv'
<1> SUFFICES ASSUME DeployInv, [Deploy!Next]_deployVars PROVE DeployInv'
  OBVIOUS
<1> USE DEF Deploy!Goto, Deploy!Worker
<1>1. ASSUME NEW p \in Deployers, NEW file \in Deploy!Definitions, Deploy!Begin(p, file)
      PROVE  DeployInv'
  <2>1. definition'[p].schedule \in {"none", "on", "off"}
    BY <1>1 DEF Deploy!Begin, Deploy!ValidDefinition, Deploy!ValidSchedule,
       Deploy!Definitions, DeployInv
  <2>2. step'[p] = "find"
    BY <1>1 DEF Deploy!Begin, DeployInv
  <2> QED
    BY <1>1, <2>1, <2>2, DeployerMoves DEF Deploy!Begin, DeployInv, DeployerInv, Winner
<1>2. ASSUME NEW p \in Deployers, Deploy!FindWorkflow(p) PROVE DeployInv'
  <2>1. step'[p] = "write"
    BY <1>2 DEF Deploy!FindWorkflow, DeployInv
  <2> QED
    BY <1>2, <2>1, DeployerMoves DEF Deploy!FindWorkflow, DeployInv, DeployerInv, Winner
<1>3. ASSUME NEW p \in Deployers, Deploy!WriteWorkflow(p) PROVE DeployInv'
  <2>1. /\ definition[p].schedule \in {"none", "on", "off"}
        /\ UNCHANGED <<definition, foundJob, copy, cloudJob, request, executions>>
    BY <1>3 DEF Deploy!WriteWorkflow, DeployInv
  <2>2. CASE /\ ~foundJob[p] /\ deployed = Deploy!NoRow
             /\ Deploy!Written(p).version >= Deploy!MinVersion
    <3>1. deployed' = Deploy!Written(p) /\ step' = [step EXCEPT ![p] = "assets"]
      BY <1>3, <2>2 DEF Deploy!WriteWorkflow
    <3>2. /\ deployed' \in DeployType /\ deployed'.version = 1
          /\ deployed'.job = FALSE
      <4>1. Deploy!Written(p).version = 1
        BY <2>2 DEF Deploy!Written
      <4> QED
        BY <2>1, <3>1, <4>1, WrittenRow
    <3>3. step'[p] = "assets" /\ foundJob'[p] = foundJob[p]
      BY <3>1, <2>1 DEF DeployInv
    <3>4. ~foundJob[p]
      BY <2>2
    <3>5. DeployerInv(p)'
      BY <2>1, <3>1, <3>2, <3>3, <3>4 DEF DeployerInv, Winner, Deploy!Written, Deploy!NoRow
    <3> QED
      BY <2>1, <2>2, <3>1, <3>2, <3>5, DeployerWrites DEF DeployInv
  <2>3. CASE ~(/\ ~foundJob[p] /\ deployed = Deploy!NoRow
               /\ Deploy!Written(p).version >= Deploy!MinVersion)
    <3>1. deployed' = deployed /\ step' = [step EXCEPT ![p] = "failed"]
      BY <1>3, <2>3 DEF Deploy!WriteWorkflow
    <3>2. step'[p] = "failed"
      BY <3>1 DEF DeployInv
    <3> QED
      BY <2>1, <3>1, <3>2, DeployerMoves DEF DeployInv, DeployerInv, Winner
  <2> QED
    BY <2>2, <2>3
<1>4. ASSUME NEW p \in Deployers,
             \/ Deploy!WriteAssets(p) \/ Deploy!Configure(p) \/ Deploy!GetJob(p)
             \/ Deploy!Kill(p)
      PROVE  DeployInv'
  <2>1. PICK next \in {"failed", "deployed", "configure", "get_job", "disable",
                       "create_job", "killed"} :
           /\ step' = [step EXCEPT ![p] = next]
           /\ UNCHANGED <<definition, foundJob, copy, deployed, cloudJob, request, executions>>
           /\ Winner(p) \/ next = "killed"
           /\ next = "configure" => step[p] = "assets"
           /\ next = "get_job" => step[p] = "configure"
           /\ next = "create_job" => step[p] = "get_job" /\ cloudJob = "none"
    BY <1>4 DEF Deploy!WriteAssets, Deploy!Configure, Deploy!GetJob, Deploy!Kill, Winner
  <2>2. step'[p] = next
    BY <2>1 DEF DeployInv
  <2>3. DeployerInv(p)'
    BY <2>1, <2>2 DEF DeployInv, DeployerInv, Winner, Deploy!Written, Deploy!NoRow
  <2> QED
    BY <2>1, <2>2, <2>3, DeployerMoves DEF DeployInv, Winner
<1>5. ASSUME NEW p \in Deployers, Deploy!CreateJob(p) PROVE DeployInv'
  <2>1. /\ step[p] = "create_job" /\ cloudJob = "none"
        /\ UNCHANGED <<definition, foundJob, copy, deployed, request, executions>>
    BY <1>5 DEF Deploy!CreateJob, DeployInv, DeployerInv
  <2>2. PICK next \in {"read_job", "disable"} :
           /\ step' = [step EXCEPT ![p] = next]
           /\ next = "read_job" => cloudJob' = Deploy!JobState(p)
    BY <1>5 DEF Deploy!CreateJob
  <2>3. step'[p] = next
    BY <2>2 DEF DeployInv
  <2>4. /\ deployed = Deploy!Written(p) /\ foundJob[p] = FALSE
        /\ deployed # Deploy!NoRow
        /\ definition[p].schedule \in {"none", "on", "off"}
    BY <2>1 DEF DeployInv, DeployerInv, Winner
  <2>5. deployed \in DeployType /\ deployed.version = 1 /\ deployed.job = FALSE
    BY <2>4, WrittenRow
  <2>6. DeployerInv(p)'
    BY <2>1, <2>2, <2>3, <2>4 DEF DeployerInv, Winner, Deploy!Written, Deploy!JobState,
       Deploy!NoRow
  <2> QED
    BY <2>1, <2>2, <2>5, <2>6, DeployerWrites DEF Winner, DeployInv
<1>6. ASSUME NEW p \in Deployers, Deploy!ReadForJob(p) \/ Deploy!ReadForDisable(p)
      PROVE  DeployInv'
  <2>1. PICK next \in {"write_job", "write_disable", "disable", "not_disabled"} :
           /\ step' = [step EXCEPT ![p] = next]
           /\ DOMAIN copy' = Deployers /\ \A q \in Deployers \ {p} : copy'[q] = copy[q]
           /\ next \in {"write_job", "write_disable"} => copy'[p] = deployed
           /\ next = "write_job" => step[p] = "read_job"
           /\ UNCHANGED <<definition, foundJob, deployed, cloudJob, request, executions>>
           /\ Winner(p)
    BY <1>6 DEF Deploy!ReadForJob, Deploy!ReadForDisable, Deploy!GetWorkflow, Winner, DeployInv
  <2>2. step'[p] = next
    BY <2>1 DEF DeployInv
  <2>3. DeployerInv(p)'
    BY <2>1, <2>2 DEF DeployInv, DeployerInv, Winner, Deploy!Written, Deploy!JobState,
       Deploy!NoRow
  <2> QED
    BY <2>1, <2>2, <2>3, DeployerMoves DEF DeployInv
<1>7. ASSUME NEW p \in Deployers, Deploy!WriteJob(p) \/ Deploy!WriteDisable(p)
      PROVE  DeployInv'
  <2>1. /\ Winner(p) /\ copy[p] = deployed /\ deployed # Deploy!NoRow
        /\ foundJob[p] = FALSE
        /\ UNCHANGED <<definition, foundJob, copy, cloudJob, request, executions>>
    BY <1>7 DEF Deploy!WriteJob, Deploy!WriteDisable, Deploy!UpdateWorkflow, DeployInv,
       DeployerInv, Winner
  <2>2. deployed \in DeployType /\ deployed.version = 1
    BY <2>1 DEF DeployInv, DeployType
  <2>3. CASE /\ deployed' = deployed
             /\ \E next \in {"disable", "not_disabled"} : step' = [step EXCEPT ![p] = next]
    <3>1. PICK next \in {"disable", "not_disabled"} : step' = [step EXCEPT ![p] = next]
      BY <2>3
    <3>2. step'[p] = next
      BY <3>1 DEF DeployInv
    <3>3. DeployerInv(p)'
      BY <2>1, <2>3, <3>2 DEF DeployerInv, Winner, Deploy!NoRow
    <3> QED
      BY <2>1, <2>3, <3>1, <3>3, DeployerMoves DEF DeployInv
  <2>4. CASE /\ step[p] = "write_job" /\ step' = [step EXCEPT ![p] = "synced"]
             /\ deployed' = [deployed EXCEPT !.job = TRUE]
    <3>1. step'[p] = "synced"
      BY <2>4 DEF DeployInv
    <3>2. deployed' \in DeployType /\ deployed'.version = 1
      BY <2>2, <2>4 DEF DeployType
    <3>3. /\ deployed = Deploy!Written(p) /\ cloudJob = Deploy!JobState(p)
          /\ cloudJob # "none"
      BY <2>4 DEF DeployInv, DeployerInv, Deploy!JobState
    <3>4. DeployerInv(p)'
      BY <2>1, <2>4, <3>1, <3>2, <3>3 DEF DeployerInv, Winner, Deploy!NoRow,
         Deploy!JobState, Deploy!Written
    <3> QED
      BY <2>1, <2>4, <3>2, <3>3, <3>4, DeployerWrites DEF DeployInv
  <2>5. CASE /\ step[p] = "write_disable" /\ step' = [step EXCEPT ![p] = "disabled"]
             /\ deployed' = [deployed EXCEPT !.enabled = "false"]
    <3>1. step'[p] = "disabled"
      BY <2>5 DEF DeployInv
    <3>2. /\ deployed' \in DeployType /\ deployed'.version = 1
          /\ deployed'.job = deployed.job
      BY <2>2, <2>5 DEF DeployType
    <3>3. DeployerInv(p)'
      BY <3>1 DEF DeployerInv, Winner
    <3> QED
      BY <2>1, <2>5, <3>2, <3>3, DeployerWrites DEF DeployInv
  <2> QED
    BY <1>7, <2>1, <2>3, <2>4, <2>5 DEF Deploy!WriteJob, Deploy!WriteDisable,
       Deploy!UpdateWorkflow
<1>8. ASSUME NEW p \in Deployers, Deploy!Again(p) PROVE DeployInv'
  <2>1. step'[p] = "idle" /\ step' = [step EXCEPT ![p] = "idle"]
    BY <1>8 DEF Deploy!Again, DeployInv
  <2>2. DeployerInv(p)' /\ ~Winner(p)'
    BY <2>1 DEF DeployerInv, Winner
  <2>3. /\ UNCHANGED <<definition, deployed, cloudJob, request, executions>>
        /\ DOMAIN foundJob' = Deployers /\ DOMAIN copy' = Deployers
        /\ \A q \in Deployers \ {p} : foundJob'[q] = foundJob[q] /\ copy'[q] = copy[q]
    BY <1>8 DEF Deploy!Again, DeployInv
  <2>4. DOMAIN definition' = Deployers /\ definition'[p].schedule \in {"none", "on", "off"}
    BY <2>3 DEF DeployInv
  <2> QED
    BY <2>1, <2>2, <2>3, <2>4, DeployerMoves
<1>9. CASE Deploy!Fire \/ Deploy!ExecuteScheduled \/ Deploy!StartExecution
           \/ UNCHANGED deployVars
  <2>1. UNCHANGED <<step, definition, foundJob, copy, deployed, cloudJob>>
    BY <1>9 DEF Deploy!Fire, Deploy!ExecuteScheduled, Deploy!StartExecution, deployVars
  <2>2. /\ executions' \in Nat
        /\ request' # "none" \/ executions' > 0 => cloudJob = "ENABLED"
    BY <1>9 DEF Deploy!Fire, Deploy!ExecuteScheduled, Deploy!StartExecution, deployVars,
       DeployInv
  <2> QED
    BY <2>1, <2>2 DEF DeployInv, DeployerInv, Winner, Deploy!Written, Deploy!JobState
<1> QED
  BY <1>1, <1>2, <1>3, <1>4, <1>5, <1>6, <1>7, <1>8, <1>9 DEF Deploy!Next

(* The row names a scheduler job only if there is one, a deployer that says *)
(* it is synchronised left both as its file asks, and nothing ran by a      *)
(* schedule no file asked for, whatever call failed and for any number of   *)
(* deployers and fires.                                                     *)
THEOREM SchedulesAreSettled == Spec => []ScheduleSettled
<1>1. Init => DeployInv
  BY DEF Init, Deploy!Init, DeployInv, DeployerInv, Winner, Deploy!NoRow,
     Deploy!NoDefinition, DeployType
<1>2. DeployInv /\ [Next]_vars => DeployInv'
  BY CatalogSteps, DeployStep
<1>3. DeployInv => ScheduleSettled
  BY DEF DeployInv, DeployerInv, Winner, ScheduleSettled, Deploy!ScheduleSettled
<1> QED
  BY <1>1, <1>2, <1>3, PTL DEF Spec

-----------------------------------------------------------------------------
(* The commands that create backfills.                                      *)

JobStates == Backfills!Active \cup {"completed", "failed", "cancelled"}

JobRows ==
    [key : Backfills!Orders \X Nat, dates : SUBSET Int, state : JobStates,
     rows : SUBSET Int, by : Commands]

CommandType ==
    /\ DOMAIN stage = Commands /\ DOMAIN mine = Commands /\ DOMAIN second = Commands
    /\ asked \in [Commands -> Backfills!Orders]
    /\ checked \in [Commands -> Nat] /\ began \in [Commands -> Nat]
    /\ \A c \in Commands : second[c] \in Nat
    /\ jobs \in Seq(JobRows)
    /\ resuming \in 0 .. Len(jobs) /\ keyClock \in Nat

\* A job has the dates its command was asked for, and keeps them.
JobOf(j) ==
    /\ jobs[j].dates = Backfills!DatesOf(asked[jobs[j].by])
    /\ stage[jobs[j].by] \notin {"idle", "check", "create"}

\* Of the jobs that were there when a command began none that is still active
\* has a date it has looked up.
LookedUp(c) ==
    stage[c] \in {"check", "create"} =>
        /\ asked[c].first <= asked[c].last /\ began[c] <= Len(jobs)
        /\ asked[c].first - 1 <= checked[c] /\ checked[c] <= asked[c].last
        /\ stage[c] = "check" => checked[c] < asked[c].last
        /\ stage[c] = "create" => checked[c] = asked[c].last
        /\ \A i \in 1 .. began[c] :
              jobs[i].state \in Backfills!Active =>
                  jobs[i].dates \cap (asked[c].first .. checked[c]) = {}

\* The rows of a job are its first dates, and then all of them.
RowsOf(c) ==
    /\ stage[c] \in {"rows", "created"} =>
          mine[c] \in DOMAIN jobs /\ jobs[mine[c]].by = c
    /\ stage[c] = "rows" =>
          \E k \in Nat : /\ jobs[mine[c]].rows = asked[c].first .. (asked[c].first + k - 1)
                         /\ asked[c].first + k <= asked[c].last
    /\ stage[c] = "created" => jobs[mine[c]].rows = Backfills!DatesOf(asked[c])

Reported(c) ==
    stage[c] = "reported" =>
        /\ mine[c] \in DOMAIN jobs
        /\ Backfills!DatesOf(asked[c]) \subseteq jobs[mine[c]].dates

RacesOnly ==
    \A i, j \in DOMAIN jobs :
        /\ i < j /\ jobs[i].state \in Backfills!Active /\ jobs[j].state \in Backfills!Active
        /\ jobs[i].dates \cap jobs[j].dates # {}
        => i > began[jobs[j].by]

CommandInv ==
    /\ CommandType
    /\ \A j \in DOMAIN jobs : JobOf(j)
    /\ \A c \in Commands : LookedUp(c) /\ RowsOf(c) /\ Reported(c)
    /\ RacesOnly

(* The size of a set is one notion in this module and in the one it uses.   *)
LEMMA BackfillSizes == \A S : Backfills!Cardinality(S) = Cardinality(S)
  BY DEF Backfills!Cardinality, Cardinality

(* What a row of a job holds.                                               *)
LEMMA JobFields ==
  ASSUME CommandInv, NEW j \in DOMAIN jobs
  PROVE  /\ jobs \in Seq(JobRows) /\ DOMAIN jobs = 1 .. Len(jobs) /\ Len(jobs) \in Nat
         /\ jobs[j] \in JobRows
         /\ jobs[j].by \in Commands /\ jobs[j].rows \in SUBSET Int
<1>1. jobs \in Seq(JobRows)
  BY DEF CommandInv, CommandType
<1>2. jobs[j] \in JobRows
  BY <1>1
<1> QED
  BY <1>1, <1>2 DEF JobRows

(* A row is changed in its place.                                           *)
LEMMA JobChanged ==
  ASSUME CommandInv, NEW i \in DOMAIN jobs, NEW job \in JobRows,
         jobs' = [jobs EXCEPT ![i] = job]
  PROVE  /\ jobs' \in Seq(JobRows) /\ Len(jobs') = Len(jobs)
         /\ DOMAIN jobs' = DOMAIN jobs /\ jobs'[i] = job
         /\ \A j \in DOMAIN jobs : j # i => jobs'[j] = jobs[j]
  BY DEF CommandInv, CommandType

(* A job that is over stays over: a change of state makes no new overlap.   *)
LEMMA JobStateStep ==
  ASSUME CommandInv, NEW i \in DOMAIN jobs, NEW s \in JobStates,
         jobs[i].state \in Backfills!Active,
         jobs' = [jobs EXCEPT ![i].state = s],
         resuming' \in 0 .. Len(jobs),
         UNCHANGED <<stage, asked, checked, second, mine, began, keyClock>>
  PROVE  CommandInv'
<1>1. /\ jobs' \in Seq(JobRows) /\ Len(jobs') = Len(jobs)
      /\ DOMAIN jobs' = DOMAIN jobs
      /\ \A j \in DOMAIN jobs :
            /\ jobs'[j].dates = jobs[j].dates /\ jobs'[j].rows = jobs[j].rows
            /\ jobs'[j].by = jobs[j].by
            /\ jobs'[j].state \in Backfills!Active => jobs[j].state \in Backfills!Active
  <2> DEFINE job == [jobs[i] EXCEPT !.state = s]
  <2>1. /\ job \in JobRows /\ job.dates = jobs[i].dates /\ job.rows = jobs[i].rows
        /\ job.by = jobs[i].by
    BY JobFields DEF JobRows
  <2>2. jobs' = [jobs EXCEPT ![i] = job]
    OBVIOUS
  <2> HIDE DEF job
  <2> QED
    BY <2>1, <2>2, JobChanged
<1>2. CommandType'
  BY <1>1 DEF CommandInv, CommandType
<1>3. \A j \in DOMAIN jobs' : JobOf(j)'
  BY <1>1 DEF CommandInv, JobOf, Backfills!DatesOf
<1>4. ASSUME NEW c \in Commands PROVE LookedUp(c)'
  <2>1. ASSUME stage[c] \in {"check", "create"}, NEW j \in 1 .. began[c] PROVE j \in DOMAIN jobs
    BY <2>1 DEF CommandInv, CommandType, LookedUp
  <2> QED
    BY <1>1, <2>1 DEF CommandInv, LookedUp
<1>5. ASSUME NEW c \in Commands PROVE RowsOf(c)' /\ Reported(c)'
  BY <1>1 DEF CommandInv, RowsOf, Reported, Backfills!DatesOf
<1>6. RacesOnly'
  BY <1>1 DEF CommandInv, RacesOnly
<1> QED
  BY <1>2, <1>3, <1>4, <1>5, <1>6 DEF CommandInv

(* A command that only goes on, with the jobs as they are.                  *)
LEMMA CommandMoves ==
  ASSUME CommandInv, NEW c \in Commands, CommandType',
         UNCHANGED jobs,
         stage'[c] \notin {"idle", "check", "create"}
            \/ stage[c] \in {"idle", "check", "create"},
         \A d \in Commands \ {c} :
            /\ stage'[d] = stage[d] /\ asked'[d] = asked[d] /\ checked'[d] = checked[d]
            /\ mine'[d] = mine[d] /\ began'[d] = began[d],
         UNCHANGED <<asked, began>> \/ stage[c] = "idle",
         LookedUp(c)', RowsOf(c)', Reported(c)'
  PROVE  CommandInv'
<1>1. \A j \in DOMAIN jobs : jobs[j].by \in Commands
  BY JobFields
<1>2. ASSUME NEW j \in DOMAIN jobs PROVE JobOf(j)'
  BY <1>1 DEF CommandInv, JobOf, Backfills!DatesOf
<1>3. ASSUME NEW j \in DOMAIN jobs PROVE began'[jobs[j].by] = began[jobs[j].by]
  BY <1>1 DEF CommandInv, JobOf
<1>4. ASSUME NEW d \in Commands \ {c} PROVE LookedUp(d)' /\ RowsOf(d)' /\ Reported(d)'
  BY DEF CommandInv, LookedUp, RowsOf, Reported, Backfills!DatesOf
<1>5. RacesOnly'
  BY <1>3 DEF CommandInv, RacesOnly
<1> QED
  BY <1>2, <1>4, <1>5 DEF CommandInv

(* A lookup of the next date adds it to those without an active job.        *)
LEMMA CheckStep ==
  ASSUME CommandInv, NEW c \in Commands, Backfills!Check(c)
  PROVE  CommandInv'
<1> DEFINE date == checked[c] + 1
           found == Backfills!ActiveFor(date)
<1>1. /\ stage[c] = "check"
      /\ UNCHANGED <<asked, began, jobs, resuming, keyClock>>
  BY DEF Backfills!Check
<1>2. /\ asked[c].first \in Int /\ asked[c].last \in Int /\ checked[c] \in Nat
      /\ asked[c].first <= asked[c].last /\ began[c] \in Nat /\ began[c] <= Len(jobs)
      /\ asked[c].first - 1 <= checked[c] /\ checked[c] < asked[c].last
      /\ asked[c].form = "single" => asked[c].first = 1 /\ asked[c].last = 1
      /\ asked[c].form \in {"single", "range"}
  BY <1>1 DEF CommandInv, CommandType, LookedUp, Backfills!Orders, Backfills!Dates
<1>3. CASE /\ found = {}
           /\ checked' = [checked EXCEPT ![c] = date]
           /\ IF date = asked[c].last
              THEN second' = [second EXCEPT ![c] = keyClock] /\ Backfills!Goto(c, "create")
              ELSE UNCHANGED <<second, stage>>
           /\ UNCHANGED mine
  <2>1. /\ stage'[c] = IF date = asked[c].last THEN "create" ELSE "check"
        /\ DOMAIN stage' = Commands
        /\ \A d \in Commands \ {c} : stage'[d] = stage[d]
    BY <1>1, <1>3 DEF Backfills!Goto, CommandInv, CommandType
  <2>2. /\ DOMAIN second' = Commands /\ \A d \in Commands : second'[d] \in Nat
    BY <1>3 DEF CommandInv, CommandType
  <2>3. /\ checked' \in [Commands -> Nat] /\ checked'[c] = date
        /\ \A d \in Commands \ {c} : checked'[d] = checked[d]
    BY <1>2, <1>3 DEF CommandInv, CommandType
  <2>4. CommandType'
    BY <1>1, <1>3, <2>1, <2>2, <2>3 DEF CommandInv, CommandType
  <2>5. ASSUME NEW i \in 1 .. began[c], jobs[i].state \in Backfills!Active
        PROVE  jobs[i].dates \cap (asked[c].first .. date) = {}
    <3>1. i \in DOMAIN jobs
      BY <1>2 DEF CommandInv, CommandType
    <3>2. date \notin jobs[i].dates
      BY <1>3, <2>5, <3>1 DEF Backfills!ActiveFor
    <3>3. jobs[i].dates \cap (asked[c].first .. checked[c]) = {}
      BY <1>1, <2>5 DEF CommandInv, LookedUp
    <3>4. \A x \in asked[c].first .. date : x = date \/ x \in asked[c].first .. checked[c]
      BY <1>2
    <3> QED
      BY <3>2, <3>3, <3>4
  <2>6. LookedUp(c)'
    BY <1>1, <1>2, <2>1, <2>3, <2>5 DEF LookedUp
  <2>7. RowsOf(c)' /\ Reported(c)'
    BY <2>1 DEF RowsOf, Reported
  <2> QED
    BY <1>1, <1>3, <2>1, <2>3, <2>4, <2>6, <2>7, CommandMoves
<1>4. CASE \E last \in found :
              /\ \A i \in found : i <= last
              /\ mine' = [mine EXCEPT ![c] = last]
              /\ Backfills!Goto(c, IF asked[c].form = "single" THEN "reported"
                                                               ELSE "refused")
              /\ UNCHANGED <<checked, second>>
  <2>1. PICK last \in found :
           /\ mine' = [mine EXCEPT ![c] = last]
           /\ Backfills!Goto(c, IF asked[c].form = "single" THEN "reported" ELSE "refused")
           /\ UNCHANGED <<checked, second>>
    BY <1>4
  <2>2. /\ stage'[c] = IF asked[c].form = "single" THEN "reported" ELSE "refused"
        /\ mine'[c] = last /\ DOMAIN mine' = Commands /\ DOMAIN stage' = Commands
        /\ \A d \in Commands \ {c} : stage'[d] = stage[d] /\ mine'[d] = mine[d]
    BY <2>1 DEF Backfills!Goto, CommandInv, CommandType
  <2>3. last \in DOMAIN jobs /\ date \in jobs[last].dates
    BY <2>1 DEF Backfills!ActiveFor
  <2>4. asked[c].form = "single" => Backfills!DatesOf(asked[c]) = {date}
    BY <1>2 DEF Backfills!DatesOf
  <2>5. Reported(c)'
    BY <1>1, <2>2, <2>3, <2>4 DEF Reported, Backfills!DatesOf
  <2>6. LookedUp(c)' /\ RowsOf(c)'
    BY <2>2 DEF LookedUp, RowsOf
  <2>7. CommandType'
    BY <1>1, <2>1, <2>2 DEF CommandInv, CommandType
  <2>8. stage'[c] \notin {"idle", "check", "create"}
    BY <2>2
  <2> QED
    BY <1>1, <2>1, <2>2, <2>5, <2>6, <2>7, <2>8, CommandMoves
<1> QED
  BY <1>3, <1>4 DEF Backfills!Check

(* The job that is made overlaps only with jobs made since its command      *)
(* began.                                                                   *)
LEMMA CreateStep ==
  ASSUME CommandInv, NEW c \in Commands, Backfills!CreateJob(c)
  PROVE  CommandInv'
<1> DEFINE key == <<asked[c], second[c]>>
           job == [key |-> key, dates |-> Backfills!DatesOf(asked[c]),
                   state |-> "pending", rows |-> {}, by |-> c]
<1>1. /\ stage[c] = "create"
      /\ UNCHANGED <<asked, checked, second, began, resuming, keyClock>>
  BY DEF Backfills!CreateJob
<1>2. CASE Backfills!Goto(c, "conflict") /\ UNCHANGED <<jobs, mine>>
  <2>1. /\ stage'[c] = "conflict" /\ DOMAIN stage' = Commands
        /\ \A d \in Commands \ {c} : stage'[d] = stage[d]
    BY <1>2 DEF Backfills!Goto, CommandInv, CommandType
  <2>2. LookedUp(c)' /\ RowsOf(c)' /\ Reported(c)'
    BY <2>1 DEF LookedUp, RowsOf, Reported
  <2>3. CommandType'
    BY <1>1, <1>2, <2>1 DEF CommandInv, CommandType
  <2> QED
    BY <1>1, <1>2, <2>1, <2>2, <2>3, CommandMoves
<1>3. CASE /\ jobs' = Append(jobs, job)
           /\ mine' = [mine EXCEPT ![c] = Len(jobs) + 1]
           /\ Backfills!Goto(c, "rows")
  <2>1. /\ asked[c] \in Backfills!Orders /\ second[c] \in Nat
        /\ asked[c].first \in Int /\ asked[c].last \in Int
        /\ asked[c].first <= asked[c].last
    BY <1>1 DEF CommandInv, CommandType, LookedUp, Backfills!Orders, Backfills!Dates
  <2>2. job \in JobRows
    BY <2>1 DEF JobRows, JobStates, Backfills!Active, Backfills!DatesOf
  <2>3. /\ jobs' \in Seq(JobRows) /\ Len(jobs') = Len(jobs) + 1 /\ Len(jobs) \in Nat
        /\ \A j \in DOMAIN jobs : j \in DOMAIN jobs' /\ jobs'[j] = jobs[j]
        /\ jobs'[Len(jobs) + 1] = job
        /\ DOMAIN jobs = 1 .. Len(jobs)
        /\ DOMAIN jobs' = 1 .. (Len(jobs) + 1)
    BY <1>3, <2>2 DEF CommandInv, CommandType
  <2>4. /\ stage'[c] = "rows" /\ mine'[c] = Len(jobs) + 1
        /\ DOMAIN stage' = Commands /\ DOMAIN mine' = Commands
        /\ \A d \in Commands \ {c} : stage'[d] = stage[d] /\ mine'[d] = mine[d]
    BY <1>3 DEF Backfills!Goto, CommandInv, CommandType
  <2>5. CommandType'
    BY <1>1, <2>3, <2>4 DEF CommandInv, CommandType
  <2> HIDE DEF job
  <2>6. job.dates = Backfills!DatesOf(asked[c]) /\ job.by = c /\ job.rows = {}
    BY DEF job
  <2>7. \A j \in DOMAIN jobs : jobs[j].by \in Commands /\ jobs[j].by # c
    BY <1>1, JobFields DEF CommandInv, JobOf
  <2>8. ASSUME NEW j \in DOMAIN jobs' PROVE JobOf(j)'
    <3>1. CASE j \in DOMAIN jobs
      BY <1>1, <2>3, <2>4, <2>7, <3>1 DEF CommandInv, JobOf, Backfills!DatesOf
    <3>2. CASE j = Len(jobs) + 1
      BY <1>1, <2>3, <2>4, <2>6, <3>2 DEF JobOf, Backfills!DatesOf
    <3> QED
      BY <2>3, <3>1, <3>2
  <2>9. ASSUME NEW d \in Commands PROVE LookedUp(d)' /\ RowsOf(d)' /\ Reported(d)'
    <3>1. CASE d = c
      <4>1. LookedUp(c)' /\ Reported(c)'
        BY <2>4 DEF LookedUp, Reported
      <4>2. jobs'[mine'[c]].rows = asked[c].first .. (asked[c].first + 0 - 1)
        <5>1. asked[c].first .. (asked[c].first + 0 - 1) = {}
          BY <2>1
        <5> QED
          BY <2>3, <2>4, <2>6, <5>1
      <4>3. RowsOf(c)'
        BY <1>1, <2>1, <2>3, <2>4, <2>6, <4>2 DEF RowsOf
      <4> QED
        BY <3>1, <4>1, <4>3
    <3>2. CASE d # c
      <4>1. /\ stage'[d] = stage[d] /\ mine'[d] = mine[d] /\ asked'[d] = asked[d]
            /\ checked'[d] = checked[d] /\ began'[d] = began[d] /\ began[d] \in Nat
        BY <1>1, <2>4, <3>2 DEF CommandInv, CommandType
      <4>2. LookedUp(d)'
        <5>1. ASSUME began[d] <= Len(jobs), NEW i \in 1 .. began[d]
              PROVE  i \in DOMAIN jobs
          BY <2>3, <4>1, <5>1
        <5> QED
          BY <2>3, <4>1, <5>1 DEF CommandInv, LookedUp
      <4>3. RowsOf(d)' /\ Reported(d)'
        BY <2>3, <4>1 DEF CommandInv, RowsOf, Reported, Backfills!DatesOf
      <4> QED
        BY <4>2, <4>3
    <3> QED
      BY <3>1, <3>2
  <2>10. RacesOnly'
    <3> SUFFICES ASSUME NEW i \in DOMAIN jobs', NEW j \in DOMAIN jobs',
                        i < j, jobs'[i].state \in Backfills!Active,
                        jobs'[j].state \in Backfills!Active,
                        jobs'[i].dates \cap jobs'[j].dates # {}
                 PROVE  i > began[jobs'[j].by]
      BY <1>1 DEF RacesOnly
    <3>1. i \in DOMAIN jobs /\ jobs'[i] = jobs[i]
      BY <2>3
    <3>2. CASE j \in DOMAIN jobs
      BY <2>3, <3>1, <3>2 DEF CommandInv, RacesOnly
    <3>3. CASE j = Len(jobs) + 1
      <4>1. jobs'[j] = job /\ began[c] \in Nat
        BY <2>3, <3>3 DEF CommandInv, CommandType
      <4>2. ~(i \in 1 .. began[c])
        BY <1>1, <2>6, <3>1, <4>1 DEF CommandInv, LookedUp, Backfills!DatesOf
      <4> QED
        BY <2>3, <2>6, <3>1, <4>1, <4>2
    <3> QED
      BY <2>3, <3>2, <3>3
  <2> QED
    BY <2>5, <2>8, <2>9, <2>10 DEF CommandInv
<1> QED
  BY <1>2, <1>3 DEF Backfills!CreateJob

(* A row of a partition is added after those of the dates before it.        *)
LEMMA RowStep ==
  ASSUME CommandInv, NEW c \in Commands, Backfills!CreateRow(c)
  PROVE  CommandInv'
<1> DEFINE m == mine[c]
           next == asked[c].first + Cardinality(jobs[m].rows)
<1>1. /\ stage[c] = "rows"
      /\ jobs' = [jobs EXCEPT ![m].rows = @ \cup {next}]
      /\ IF next = asked[c].last THEN Backfills!Goto(c, "created") ELSE UNCHANGED stage
      /\ UNCHANGED <<asked, checked, second, mine, began, resuming, keyClock>>
  BY BackfillSizes DEF Backfills!CreateRow
<1>2. /\ m \in DOMAIN jobs /\ jobs[m].by = c
      /\ asked[c].first \in Int /\ asked[c].last \in Int
  BY <1>1 DEF CommandInv, CommandType, RowsOf, Backfills!Orders, Backfills!Dates
<1>3. PICK k \in Nat : /\ jobs[m].rows = asked[c].first .. (asked[c].first + k - 1)
                       /\ asked[c].first + k <= asked[c].last
  BY <1>1 DEF CommandInv, RowsOf
<1>4. Cardinality(jobs[m].rows) = k
  <2>1. asked[c].first + k - 1 \in Int
    BY <1>2
  <2>2. Cardinality(jobs[m].rows) =
           IF asked[c].first > asked[c].first + k - 1
           THEN 0 ELSE (asked[c].first + k - 1) - asked[c].first + 1
    BY <1>2, <1>3, <2>1, FS_Interval
  <2> QED
    BY <1>2, <2>2
<1>5. next = asked[c].first + k /\ next \in Int
  BY <1>2, <1>4
<1> HIDE DEF next
<1>6. jobs[m].rows \cup {next} = asked[c].first .. (asked[c].first + (k + 1) - 1)
  BY <1>2, <1>3, <1>5
<1>7. /\ jobs' \in Seq(JobRows) /\ Len(jobs') = Len(jobs) /\ DOMAIN jobs' = DOMAIN jobs
      /\ jobs'[m].rows = jobs[m].rows \cup {next}
      /\ \A j \in DOMAIN jobs :
            /\ jobs'[j].dates = jobs[j].dates /\ jobs'[j].by = jobs[j].by
            /\ jobs'[j].state = jobs[j].state
            /\ j # m => jobs'[j].rows = jobs[j].rows
  <2> DEFINE job == [jobs[m] EXCEPT !.rows = @ \cup {next}]
  <2>1. /\ job \in JobRows /\ job.dates = jobs[m].dates /\ job.state = jobs[m].state
        /\ job.by = jobs[m].by /\ job.rows = jobs[m].rows \cup {next}
    BY <1>2, <1>5, JobFields DEF JobRows
  <2>2. jobs' = [jobs EXCEPT ![m] = job]
    BY <1>1
  <2> HIDE DEF job, m
  <2> QED
    BY <1>2, <2>1, <2>2, JobChanged
<1>8. /\ stage'[c] = IF next = asked[c].last THEN "created" ELSE "rows"
      /\ DOMAIN stage' = Commands
      /\ \A d \in Commands \ {c} : stage'[d] = stage[d]
  BY <1>1 DEF Backfills!Goto, CommandInv, CommandType
<1>9. CommandType'
  BY <1>1, <1>7, <1>8 DEF CommandInv, CommandType
<1>10. ASSUME NEW j \in DOMAIN jobs' PROVE JobOf(j)'
  <2>1. jobs[j].by \in Commands
    BY <1>7, JobFields
  <2> QED
    BY <1>1, <1>7, <1>8, <2>1 DEF CommandInv, JobOf, Backfills!DatesOf
<1>11. ASSUME NEW d \in Commands PROVE LookedUp(d)'
  <2>1. ASSUME began[d] <= Len(jobs), NEW i \in 1 .. began[d] PROVE i \in DOMAIN jobs
    BY <2>1 DEF CommandInv, CommandType
  <2> QED
    BY <1>1, <1>7, <1>8, <2>1 DEF CommandInv, LookedUp
<1>12. ASSUME NEW d \in Commands PROVE RowsOf(d)'
  <2>1. CASE d = c
    <3>1. CASE next = asked[c].last
      <4>1. stage'[c] = "created" /\ asked[c].first + (k + 1) - 1 = asked[c].last
        BY <1>2, <1>5, <1>8, <3>1
      <4>2. jobs'[m].rows = Backfills!DatesOf(asked[c])
        BY <1>6, <1>7, <1>2, <4>1 DEF Backfills!DatesOf
      <4> QED
        BY <1>1, <1>2, <1>7, <2>1, <4>1, <4>2 DEF RowsOf, Backfills!DatesOf
    <3>2. CASE next # asked[c].last
      <4>1. /\ stage'[c] = "rows" /\ k + 1 \in Nat
            /\ asked[c].first + (k + 1) <= asked[c].last
        BY <1>2, <1>3, <1>5, <1>8, <3>2
      <4> QED
        BY <1>1, <1>2, <1>6, <1>7, <2>1, <4>1 DEF RowsOf
    <3> QED
      BY <3>1, <3>2
  <2>2. CASE d # c
    <3>1. stage[d] \in {"rows", "created"} => mine[d] # m
      BY <1>2, <2>2 DEF CommandInv, RowsOf
    <3> QED
      BY <1>1, <1>7, <1>8, <2>2, <3>1 DEF CommandInv, RowsOf, Backfills!DatesOf
  <2> QED
    BY <2>1, <2>2
<1>13. ASSUME NEW d \in Commands PROVE Reported(d)'
  BY <1>1, <1>7, <1>8 DEF CommandInv, Reported, Backfills!DatesOf
<1>14. RacesOnly'
  BY <1>1, <1>7 DEF CommandInv, RacesOnly
<1> QED
  BY <1>9, <1>10, <1>11, <1>12, <1>13, <1>14 DEF CommandInv

(* Commands, operators and the executor interleave.                         *)
LEMMA CommandStep ==
  ASSUME CalendarAssumption, CommandInv, [Backfills!Next]_commandVars
  PROVE  CommandInv'
<1>1. ASSUME NEW c \in Commands, NEW r \in Backfills!Orders, Backfills!Begin(c, r)
      PROVE  CommandInv'
  <2>1. /\ stage[c] = "idle" /\ r.first <= r.last
        /\ UNCHANGED <<second, mine, jobs, resuming, keyClock>>
        /\ r.first \in Int /\ r.first >= 1 /\ r.last \in Int
    BY <1>1 DEF Backfills!Begin, Backfills!Orders, Backfills!Dates, CalendarAssumption
  <2>2. /\ stage'[c] = "check" /\ asked'[c] = r /\ checked'[c] = r.first - 1
        /\ began'[c] = Len(jobs) /\ DOMAIN stage' = Commands
        /\ asked' \in [Commands -> Backfills!Orders]
        /\ checked' \in [Commands -> Nat] /\ began' \in [Commands -> Nat]
        /\ \A d \in Commands \ {c} :
              /\ stage'[d] = stage[d] /\ asked'[d] = asked[d]
              /\ checked'[d] = checked[d] /\ began'[d] = began[d]
    BY <1>1, <2>1 DEF Backfills!Begin, Backfills!Goto, CommandInv, CommandType
  <2>3. CommandType'
    BY <2>1, <2>2 DEF CommandInv, CommandType
  <2>4. r.first .. (r.first - 1) = {} /\ r.first - 1 < r.last /\ r.first - 1 <= r.last
    BY <2>1
  <2>5. Len(jobs) \in Nat
    BY DEF CommandInv, CommandType
  <2>6. LookedUp(c)'
    BY <2>1, <2>2, <2>4, <2>5 DEF LookedUp
  <2>7. RowsOf(c)' /\ Reported(c)'
    BY <2>2 DEF RowsOf, Reported
  <2> QED
    BY <2>1, <2>2, <2>3, <2>6, <2>7, CommandMoves
<1>2. ASSUME NEW c \in Commands, Backfills!Interrupt(c) PROVE CommandInv'
  <2>1. /\ stage'[c] = "interrupted" /\ DOMAIN stage' = Commands
        /\ \A d \in Commands \ {c} : stage'[d] = stage[d]
        /\ UNCHANGED <<asked, checked, second, mine, began, jobs, resuming, keyClock>>
    BY <1>2 DEF Backfills!Interrupt, Backfills!Goto, CommandInv, CommandType
  <2>2. CommandType'
    BY <2>1 DEF CommandInv, CommandType
  <2>3. LookedUp(c)' /\ RowsOf(c)' /\ Reported(c)'
    BY <2>1 DEF LookedUp, RowsOf, Reported
  <2> QED
    BY <2>1, <2>2, <2>3, CommandMoves
<1>3. ASSUME NEW i \in DOMAIN jobs,
             Backfills!PauseJob(i) \/ Backfills!CancelJob(i) \/ Backfills!Execute(i)
      PROVE  CommandInv'
  <2>1. \E s \in JobStates : jobs' = [jobs EXCEPT ![i].state = s]
    BY <1>3 DEF Backfills!PauseJob, Backfills!CancelJob, Backfills!Execute,
       Backfills!SetState, JobStates, Backfills!Active
  <2>2. /\ jobs[i].state \in Backfills!Active
        /\ UNCHANGED <<stage, asked, checked, second, mine, began, resuming, keyClock>>
    BY <1>3 DEF Backfills!PauseJob, Backfills!CancelJob, Backfills!Execute,
       Backfills!others, Backfills!Active
  <2>3. resuming' \in 0 .. Len(jobs)
    BY <2>2 DEF CommandInv, CommandType
  <2> QED
    BY <2>1, <2>2, <2>3, JobStateStep
<1>4. ASSUME NEW i \in DOMAIN jobs, Backfills!ReadToResume(i) PROVE CommandInv'
  <2>1. /\ resuming' = i
        /\ UNCHANGED <<stage, asked, checked, second, mine, began, jobs, keyClock>>
    BY <1>4 DEF Backfills!ReadToResume, Backfills!others
  <2>2. i \in 0 .. Len(jobs)
    BY DEF CommandInv, CommandType
  <2> QED
    BY <2>1, <2>2 DEF CommandInv, CommandType, JobOf, LookedUp, RowsOf, Reported, RacesOnly,
       Backfills!DatesOf
<1>5. CASE Backfills!ResumeJob
  <2>1. /\ resuming # 0 /\ resuming' = 0
        /\ UNCHANGED <<stage, asked, checked, second, mine, began, keyClock>>
    BY <1>5 DEF Backfills!ResumeJob, Backfills!others
  <2>2. resuming \in DOMAIN jobs /\ 0 \in 0 .. Len(jobs)
    BY <2>1 DEF CommandInv, CommandType
  <2>3. CASE jobs[resuming].state = "paused"
    <3>1. jobs' = [jobs EXCEPT ![resuming].state = "resuming"]
      BY <1>5, <2>3 DEF Backfills!ResumeJob, Backfills!SetState
    <3> QED
      BY <2>1, <2>2, <2>3, <3>1, JobStateStep DEF Backfills!Active, JobStates
  <2>4. CASE jobs[resuming].state # "paused"
    <3>1. UNCHANGED jobs
      BY <1>5, <2>4 DEF Backfills!ResumeJob
    <3> QED
      BY <2>1, <2>2, <3>1 DEF CommandInv, CommandType, JobOf, LookedUp, RowsOf, Reported,
         RacesOnly, Backfills!DatesOf
  <2> QED
    BY <2>3, <2>4
<1>6. CASE Backfills!Tick \/ UNCHANGED commandVars
  <2>1. /\ keyClock' \in Nat
        /\ UNCHANGED <<stage, asked, checked, second, mine, began, jobs, resuming>>
    BY <1>6 DEF Backfills!Tick, commandVars, CommandInv, CommandType
  <2> QED
    BY <2>1 DEF CommandInv, CommandType, JobOf, LookedUp, RowsOf, Reported, RacesOnly,
       Backfills!DatesOf
<1> QED
  BY <1>1, <1>2, <1>3, <1>4, <1>5, <1>6, CheckStep, CreateStep, RowStep DEF Backfills!Next

(* Two active jobs share a date only if the command that made the later had *)
(* begun before the earlier was there, a job that is reported covers what   *)
(* was asked, and a job that is created has its rows: for any number of     *)
(* commands and dates.                                                      *)
THEOREM OverlapsAreRaces == Spec => []OverlapOnlyByRace
<1>1. Init => CommandInv
  <2> SUFFICES ASSUME Init PROVE CommandInv
    OBVIOUS
  <2>1. /\ stage = [c \in Commands |-> "idle"] /\ jobs = <<>>
        /\ CommandType
    BY CalendarAssumption DEF Init, Backfills!Init, CommandType, Backfills!Orders,
       Backfills!Dates
  <2> QED
    BY <2>1 DEF CommandInv, JobOf, LookedUp, RowsOf, Reported, RacesOnly
<1>2. CommandInv /\ [Next]_vars => CommandInv'
  BY CatalogSteps, CommandStep, CalendarAssumption
<1>3. CommandInv => OverlapOnlyByRace
  BY DEF CommandInv, RacesOnly, RowsOf, Reported, OverlapOnlyByRace,
     Backfills!OverlapOnlyByRace
<1> QED
  BY <1>1, <1>2, <1>3, PTL DEF Spec

-----------------------------------------------------------------------------
(* The run of a plan with the checks on its assets.                         *)

\* The first n assets of the plan have run, and no other.
PlanPrefix(d, n) == Len(ran[d]) = n /\ \A i \in 1 .. n : ran[d][i] = Plan[i]

\* Every check that stood still has its result, up to the n-th asset.
Tested(d, n) ==
    \A k \in DOMAIN checks \ edited[d] :
        checks[k].enabled /\ (\E i \in 1 .. n : checks[k].asset = Plan[i])
        => \E r \in results : r.delivery = d /\ r.check = k

BlockingFailures(d) ==
    {r \in results : r.delivery = d /\ r.blocking /\ r.outcome = "failed"}

\* At an asset: what has run and what is tested before it.
PlaceInv(d) ==
    /\ position[d] \in 0 .. Len(Plan)
    /\ runPc[d] = "idle" => position[d] = 0 /\ PlanPrefix(d, 0)
    /\ runPc[d] \in {"run", "list", "store", "judge"} => position[d] >= 1
    /\ runPc[d] = "run" => PlanPrefix(d, position[d] - 1)
    /\ runPc[d] \in {"list", "store", "judge", "ok"} => PlanPrefix(d, position[d])
    /\ runPc[d] = "ok" => position[d] = Len(Plan)
    /\ runPc[d] \in {"run", "list", "store"} => Tested(d, position[d] - 1)
    /\ runPc[d] \in {"judge", "ok"} => Tested(d, position[d])

\* The checks it has read are those of the asset that were left alone.
FetchedInv(d) ==
    /\ runPc[d] \in {"store", "judge"} =>
          \A f \in fetched[d] : f.def.asset = Plan[position[d]] /\ f.def.outcome # "error"
    /\ runPc[d] = "store" =>
          \A k \in DOMAIN checks \ edited[d] :
              checks[k].enabled /\ checks[k].asset = Plan[position[d]]
              => \E f \in fetched[d] : f.id = k

\* A blocking failure is of the asset that ran last, and stops the delivery.
GateInv(d) ==
    /\ runPc[d] \in {"idle", "run", "list", "store", "ok"} => BlockingFailures(d) = {}
    /\ runPc[d] = "judge" => BlockingFailures(d) \subseteq Run!ResultsOf(d)
    /\ \A r \in BlockingFailures(d) : ran[d] # <<>> /\ ran[d][Len(ran[d])] = r.asset

DeliveryInv(d) == PlaceInv(d) /\ FetchedInv(d) /\ GateInv(d)

RunInv ==
    /\ runPc \in [Deliveries -> {"idle", "run", "list", "store", "judge", "blocked",
                                 "error", "ok"}]
    /\ DOMAIN position = Deliveries /\ DOMAIN fetched = Deliveries
    /\ ran \in [Deliveries -> Seq(Run!PlanAssets)]
    /\ \A k \in DOMAIN checks : checks[k].outcome # "error"
    /\ \A r \in results : r.delivery \in Deliveries /\ r.outcome # "error"
    /\ \A d \in Deliveries : DeliveryInv(d)

(* The plan is a sequence, and no type of check ends in an error.           *)
LEMMA PlanFacts ==
  /\ Plan \in Seq(Run!PlanAssets) /\ Len(Plan) \in Nat
  /\ DOMAIN Plan = 1 .. Len(Plan)
  /\ \A def \in CheckDefinitions : def.outcome # "error"
<1>1. Plan \in Seq(Run!PlanAssets) /\ Len(Plan) \in Nat /\ DOMAIN Plan = 1 .. Len(Plan)
  BY RunAssumption DEF Run!PlanAssets
<1>2. \A def \in CheckDefinitions : def.outcome # "error"
  BY RunAssumption DEF CheckOutcomes
<1> QED
  BY <1>1, <1>2

(* A step of one delivery leaves the others where they are.                 *)
LEMMA OtherDeliveries ==
  ASSUME RunInv, NEW d \in Deliveries,
         \A e \in Deliveries \ {d} :
            /\ runPc'[e] = runPc[e] /\ position'[e] = position[e]
            /\ fetched'[e] = fetched[e] /\ ran'[e] = ran[e],
         UNCHANGED <<checks, edited>>,
         results \subseteq results',
         \A r \in results' : r \in results \/ r.delivery = d
  PROVE  \A e \in Deliveries \ {d} : DeliveryInv(e)'
<1> SUFFICES ASSUME NEW e \in Deliveries \ {d} PROVE DeliveryInv(e)'
  OBVIOUS
<1>1. BlockingFailures(e)' = BlockingFailures(e)
  BY DEF BlockingFailures
<1>2. PlaceInv(e)'
  <2>1. \A n : (PlanPrefix(e, n) => PlanPrefix(e, n)') /\ (Tested(e, n) => Tested(e, n)')
    BY DEF PlanPrefix, Tested
  <2>2. PlaceInv(e)
    BY DEF RunInv, DeliveryInv
  <2>3. PlanPrefix(e, 0) => PlanPrefix(e, 0)'
    BY <2>1
  <2> QED
    BY <2>1, <2>2, <2>3 DEF PlaceInv
<1>3. FetchedInv(e)'
  BY DEF RunInv, DeliveryInv, FetchedInv
<1>4. GateInv(e)'
  BY <1>1 DEF RunInv, DeliveryInv, GateInv, Run!ResultsOf
<1> QED
  BY <1>2, <1>3, <1>4 DEF DeliveryInv

(* A delivery goes on to the next asset, or ends well after the last.       *)
LEMMA AdvanceStep ==
  ASSUME RunInv, NEW d \in Deliveries, Run!Advance(d),
         PlanPrefix(d, position[d]), Tested(d, position[d]), BlockingFailures(d) = {},
         DOMAIN fetched' = Deliveries,
         \A e \in Deliveries \ {d} : fetched'[e] = fetched[e],
         UNCHANGED <<checks, results, ran, edited>>
  PROVE  RunInv'
<1>1. /\ \A e \in Deliveries \ {d} : runPc'[e] = runPc[e] /\ position'[e] = position[e]
      /\ DOMAIN position' = Deliveries
      /\ runPc' \in [Deliveries -> {"idle", "run", "list", "store", "judge", "blocked",
                                    "error", "ok"}]
      /\ \/ runPc'[d] = "ok" /\ position[d] = Len(Plan) /\ position'[d] = position[d]
         \/ /\ runPc'[d] = "run" /\ position[d] # Len(Plan)
            /\ position'[d] = position[d] + 1
  BY DEF Run!Advance, Run!Goto, RunInv
<1>2. \A e \in Deliveries \ {d} : DeliveryInv(e)'
  BY <1>1, OtherDeliveries
<1>3. position[d] \in 0 .. Len(Plan) /\ Len(Plan) \in Nat
  BY PlanFacts DEF RunInv, DeliveryInv, PlaceInv
<1>4. PlaceInv(d)'
  <2>1. CASE runPc'[d] = "ok"
    BY <1>1, <1>3, <2>1 DEF PlaceInv, PlanPrefix, Tested
  <2>2. CASE runPc'[d] = "run"
    <3>1. position'[d] - 1 = position[d] /\ position'[d] >= 1
          /\ position'[d] \in 0 .. Len(Plan)
      BY <1>1, <1>3, <2>2
    <3> QED
      BY <2>2, <3>1 DEF PlaceInv, PlanPrefix, Tested
  <2> QED
    BY <1>1, <2>1, <2>2
<1>5. FetchedInv(d)' /\ GateInv(d)'
  BY <1>1 DEF FetchedInv, GateInv, BlockingFailures
<1> QED
  BY <1>1, <1>2, <1>4, <1>5 DEF RunInv, DeliveryInv

(* A delivery that stops keeps what it has recorded.                        *)
LEMMA StopStep ==
  ASSUME RunInv, NEW d \in Deliveries, NEW place \in {"error", "blocked"},
         runPc' = [runPc EXCEPT ![d] = place],
         ran' \in [Deliveries -> Seq(Run!PlanAssets)],
         \A e \in Deliveries \ {d} : ran'[e] = ran[e],
         ran'[d] = ran[d] \/ BlockingFailures(d) = {},
         UNCHANGED <<checks, results, position, fetched, edited>>
  PROVE  RunInv'
<1>1. /\ \A e \in Deliveries \ {d} : runPc'[e] = runPc[e]
      /\ runPc'[d] = place
      /\ runPc' \in [Deliveries -> {"idle", "run", "list", "store", "judge", "blocked",
                                    "error", "ok"}]
  BY DEF RunInv
<1>2. \A e \in Deliveries \ {d} : DeliveryInv(e)'
  BY <1>1, OtherDeliveries
<1>3. PlaceInv(d)' /\ FetchedInv(d)'
  BY <1>1 DEF RunInv, DeliveryInv, PlaceInv, FetchedInv
<1>4. GateInv(d)'
  BY <1>1 DEF RunInv, DeliveryInv, GateInv, BlockingFailures
<1> QED
  BY <1>1, <1>2, <1>3, <1>4 DEF RunInv, DeliveryInv

(* The asset at which the delivery is runs, or fails.                       *)
LEMMA ExecuteStep ==
  ASSUME RunInv, NEW d \in Deliveries, Run!ExecuteAsset(d)
  PROVE  RunInv'
<1> DEFINE asset == Plan[position[d]]
<1>1. /\ runPc[d] = "run"
      /\ ran' = [ran EXCEPT ![d] = Append(@, asset)]
      /\ \E place \in {"list", "error"} : runPc' = [runPc EXCEPT ![d] = place]
      /\ UNCHANGED <<checks, results, position, fetched, edited>>
  BY DEF Run!ExecuteAsset, Run!Goto
<1>2. /\ position[d] \in 1 .. Len(Plan) /\ PlanPrefix(d, position[d] - 1)
      /\ Tested(d, position[d] - 1) /\ BlockingFailures(d) = {}
  BY <1>1, PlanFacts DEF RunInv, DeliveryInv, PlaceInv, GateInv
<1>3. asset \in Run!PlanAssets
  BY <1>2, PlanFacts DEF Run!PlanAssets
<1>4. /\ ran' \in [Deliveries -> Seq(Run!PlanAssets)]
      /\ \A e \in Deliveries \ {d} : ran'[e] = ran[e]
      /\ ran'[d] = Append(ran[d], asset)
  BY <1>1, <1>3 DEF RunInv
<1>5. CASE runPc' = [runPc EXCEPT ![d] = "error"]
  BY <1>1, <1>2, <1>4, <1>5, StopStep
<1>6. CASE runPc' = [runPc EXCEPT ![d] = "list"]
  <2>1. /\ \A e \in Deliveries \ {d} : runPc'[e] = runPc[e]
        /\ runPc'[d] = "list"
        /\ runPc' \in [Deliveries -> {"idle", "run", "list", "store", "judge", "blocked",
                                      "error", "ok"}]
    BY <1>6 DEF RunInv
  <2>2. \A e \in Deliveries \ {d} : DeliveryInv(e)'
    BY <1>1, <1>4, <2>1, OtherDeliveries
  <2>3. PlanPrefix(d, position[d])'
    <3>1. /\ ran[d] \in Seq(Run!PlanAssets) /\ Len(ran[d]) = position[d] - 1
          /\ position[d] \in Nat
      BY <1>2 DEF PlanPrefix, RunInv
    <3>2. /\ Len(ran'[d]) = position[d] /\ ran'[d][position[d]] = asset
          /\ \A i \in 1 .. position[d] - 1 : ran'[d][i] = ran[d][i]
      BY <1>3, <1>4, <3>1
    <3> QED
      BY <1>1, <1>2, <3>1, <3>2 DEF PlanPrefix
  <2>4. PlaceInv(d)'
    BY <1>1, <1>2, <2>1, <2>3, PlanFacts DEF PlaceInv, Tested
  <2>5. FetchedInv(d)' /\ GateInv(d)'
    BY <1>1, <1>2, <2>1 DEF FetchedInv, GateInv, BlockingFailures
  <2> QED
    BY <1>1, <1>4, <2>1, <2>2, <2>4, <2>5 DEF RunInv, DeliveryInv
<1> QED
  BY <1>1, <1>5, <1>6

(* The checks of the asset are read; without any the asset is done.         *)
LEMMA FetchStep ==
  ASSUME RunInv, NEW d \in Deliveries, Run!FetchChecks(d)
  PROVE  RunInv'
<1> DEFINE asset == Plan[position[d]]
           found == Run!ListAssetChecks(asset)
           read == {[id |-> k, def |-> checks[k]] : k \in found}
<1>1. /\ runPc[d] = "list"
      /\ fetched' = [fetched EXCEPT ![d] = read]
      /\ UNCHANGED <<checks, results, ran, edited>>
  BY DEF Run!FetchChecks
<1>2. /\ position[d] \in 1 .. Len(Plan) /\ PlanPrefix(d, position[d])
      /\ Tested(d, position[d] - 1) /\ BlockingFailures(d) = {}
  BY <1>1, PlanFacts DEF RunInv, DeliveryInv, PlaceInv, GateInv
<1>3. /\ DOMAIN fetched' = Deliveries /\ fetched'[d] = read
      /\ \A e \in Deliveries \ {d} : fetched'[e] = fetched[e]
  BY <1>1 DEF RunInv
<1>4. CASE found = {} /\ Run!Advance(d)
  <2>1. \A k \in DOMAIN checks : ~(checks[k].asset = asset /\ checks[k].enabled)
    BY <1>4 DEF Run!ListAssetChecks
  <2>2. Tested(d, position[d])
    <3>1. \A i \in 1 .. position[d] : i = position[d] \/ i \in 1 .. position[d] - 1
      BY <1>2, PlanFacts
    <3> QED
      BY <1>2, <2>1, <3>1 DEF Tested
  <2> QED
    BY <1>1, <1>2, <1>3, <1>4, <2>2, AdvanceStep
<1>5. CASE Run!Goto(d, "store") /\ UNCHANGED position
  <2>1. /\ \A e \in Deliveries \ {d} : runPc'[e] = runPc[e]
        /\ runPc'[d] = "store"
        /\ runPc' \in [Deliveries -> {"idle", "run", "list", "store", "judge", "blocked",
                                      "error", "ok"}]
    BY <1>5 DEF RunInv, Run!Goto
  <2>2. \A e \in Deliveries \ {d} : DeliveryInv(e)'
    BY <1>1, <1>3, <1>5, <2>1, OtherDeliveries
  <2>3. PlaceInv(d)'
    BY <1>1, <1>2, <1>5, <2>1, PlanFacts DEF PlaceInv, PlanPrefix, Tested
  <2>4. \A f \in read : f.def.asset = asset /\ f.def.outcome # "error"
    BY DEF RunInv, Run!ListAssetChecks
  <2>5. \A k \in DOMAIN checks :
           checks[k].enabled /\ checks[k].asset = asset => \E f \in read : f.id = k
    <3>1. ASSUME NEW k \in found PROVE \E f \in read : f.id = k
      <4>1. [id |-> k, def |-> checks[k]] \in read
        OBVIOUS
      <4> QED
        BY <4>1
    <3> QED
      BY <3>1 DEF Run!ListAssetChecks
  <2> HIDE DEF read
  <2>6. FetchedInv(d)'
    BY <1>1, <1>3, <1>5, <2>1, <2>4, <2>5 DEF FetchedInv
  <2>7. GateInv(d)'
    BY <1>1, <1>2, <2>1 DEF GateInv, BlockingFailures
  <2> QED
    BY <1>1, <1>3, <1>5, <2>1, <2>2, <2>3, <2>6, <2>7 DEF RunInv, DeliveryInv
<1> QED
  BY <1>4, <1>5 DEF Run!FetchChecks

(* All results of the asset are recorded, or none.                          *)
LEMMA StoreStep ==
  ASSUME RunInv, NEW d \in Deliveries, Run!StoreResults(d)
  PROVE  RunInv'
<1>1. /\ runPc[d] = "store"
      /\ UNCHANGED <<checks, position, fetched, ran, edited>>
  BY DEF Run!StoreResults
<1>2. CASE Run!Goto(d, "error") /\ UNCHANGED results
  BY <1>1, <1>2, StopStep DEF Run!Goto, RunInv
<1>3. CASE results' = results \cup Run!ResultsOf(d) /\ Run!Goto(d, "judge")
  <2>1. /\ \A e \in Deliveries \ {d} : runPc'[e] = runPc[e]
        /\ runPc'[d] = "judge"
        /\ runPc' \in [Deliveries -> {"idle", "run", "list", "store", "judge", "blocked",
                                      "error", "ok"}]
    BY <1>3 DEF RunInv, Run!Goto
  <2>2. /\ position[d] \in 1 .. Len(Plan) /\ PlanPrefix(d, position[d])
        /\ Tested(d, position[d] - 1) /\ BlockingFailures(d) = {}
        /\ FetchedInv(d)
    BY <1>1, PlanFacts DEF RunInv, DeliveryInv, PlaceInv, GateInv
  <2>3. ASSUME NEW r \in Run!ResultsOf(d)
        PROVE  r.delivery = d /\ r.asset = Plan[position[d]] /\ r.outcome # "error"
    BY <1>1, <2>2 DEF Run!ResultsOf, FetchedInv
  <2>4. ASSUME NEW f \in fetched[d]
        PROVE  \E r \in Run!ResultsOf(d) : r.delivery = d /\ r.check = f.id
    <3> DEFINE r == [delivery |-> d, check |-> f.id, asset |-> f.def.asset,
                     outcome |-> f.def.outcome, severity |-> f.def.severity,
                     blocking |-> f.def.blocking]
    <3>1. r \in Run!ResultsOf(d) /\ r.delivery = d /\ r.check = f.id
      BY DEF Run!ResultsOf
    <3> QED
      BY <3>1
  <2>5. \A e \in Deliveries \ {d} : DeliveryInv(e)'
    BY <1>1, <1>3, <2>1, <2>3, OtherDeliveries
  <2>6. Tested(d, position[d])'
    <3> SUFFICES ASSUME NEW k \in DOMAIN checks \ edited[d], checks[k].enabled,
                        NEW i \in 1 .. position[d], checks[k].asset = Plan[i]
                 PROVE  \E r \in results' : r.delivery = d /\ r.check = k
      BY <1>1 DEF Tested
    <3>1. CASE i = position[d]
      <4>1. PICK f \in fetched[d] : f.id = k
        BY <1>1, <2>2, <3>1 DEF FetchedInv
      <4> QED
        BY <1>3, <2>4, <4>1
    <3>2. CASE i # position[d]
      <4>1. i \in 1 .. position[d] - 1
        BY <2>2, <3>2, PlanFacts
      <4> QED
        BY <1>3, <2>2, <4>1 DEF Tested
    <3> QED
      BY <3>1, <3>2
  <2>7. PlaceInv(d)'
    BY <1>1, <2>1, <2>2, <2>6, PlanFacts DEF PlaceInv, PlanPrefix
  <2>8. FetchedInv(d)'
    BY <1>1, <2>1, <2>2 DEF FetchedInv
  <2>9. BlockingFailures(d)' \subseteq Run!ResultsOf(d)
    BY <1>3, <2>2 DEF BlockingFailures
  <2>10. ran[d] # <<>> /\ ran[d][Len(ran[d])] = Plan[position[d]]
    BY <2>2, PlanFacts DEF PlanPrefix, RunInv
  <2>11. Run!ResultsOf(d)' = Run!ResultsOf(d)
    BY <1>1 DEF Run!ResultsOf
  <2>12. GateInv(d)'
    BY <1>1, <2>1, <2>3, <2>9, <2>10, <2>11 DEF GateInv
  <2>13. \A r \in results' : r.delivery \in Deliveries /\ r.outcome # "error"
    BY <1>3, <2>3 DEF RunInv
  <2> QED
    BY <1>1, <2>1, <2>5, <2>7, <2>8, <2>12, <2>13 DEF RunInv, DeliveryInv
<1> QED
  BY <1>2, <1>3 DEF Run!StoreResults

(* A blocking failure stops the delivery; without one it goes on.           *)
LEMMA JudgeStep ==
  ASSUME RunInv, NEW d \in Deliveries, Run!Judge(d)
  PROVE  RunInv'
<1>1. runPc[d] = "judge" /\ UNCHANGED <<checks, results, fetched, ran, edited>>
  BY DEF Run!Judge
<1>2. CASE Run!Blocked(d)
  BY <1>1, <1>2, StopStep DEF Run!Judge, Run!Goto, RunInv
<1>3. CASE ~Run!Blocked(d)
  <2>1. BlockingFailures(d) = {}
    BY <1>1, <1>3 DEF RunInv, DeliveryInv, GateInv, BlockingFailures, Run!Blocked
  <2>2. PlanPrefix(d, position[d]) /\ Tested(d, position[d])
    BY <1>1 DEF RunInv, DeliveryInv, PlaceInv
  <2>3. Run!Advance(d)
    BY <1>3 DEF Run!Judge
  <2> QED
    BY <1>1, <2>1, <2>2, <2>3, AdvanceStep DEF RunInv
<1> QED
  BY <1>2, <1>3

(* An operator writes or deletes a check, and with it its results.          *)
LEMMA OperatorStep ==
  ASSUME RunInv, Run!Operator
  PROVE  RunInv'
<1>1. PICK k \in CheckIds :
         \/ Run!DeleteCheck(k)
         \/ \E def \in CheckDefinitions : Run!CreateCheck(k, def) \/ Run!UpdateCheck(k, def)
  BY DEF Run!Operator
<1>2. /\ \A j \in DOMAIN checks' \ {k} : j \in DOMAIN checks /\ checks'[j] = checks[j]
      /\ \A j \in DOMAIN checks' : checks'[j].outcome # "error"
      /\ results' \subseteq results
      /\ \A r \in results : r.check # k => r \in results'
      /\ Run!Touch(k)
  <2>1. CASE Run!DeleteCheck(k)
    BY <2>1 DEF Run!DeleteCheck, RunInv
  <2>2. ASSUME NEW def \in CheckDefinitions, Run!CreateCheck(k, def)
        PROVE  /\ \A j \in DOMAIN checks' \ {k} : j \in DOMAIN checks /\ checks'[j] = checks[j]
               /\ \A j \in DOMAIN checks' : checks'[j].outcome # "error"
               /\ results' = results /\ Run!Touch(k)
    BY <2>2, PlanFacts DEF Run!CreateCheck, RunInv
  <2>3. ASSUME NEW def \in CheckDefinitions, Run!UpdateCheck(k, def)
        PROVE  /\ \A j \in DOMAIN checks' \ {k} : j \in DOMAIN checks /\ checks'[j] = checks[j]
               /\ \A j \in DOMAIN checks' : checks'[j].outcome # "error"
               /\ results' = results /\ Run!Touch(k)
    <3> DEFINE amended == [def EXCEPT !.asset = checks[k].asset]
    <3>1. checks' = [checks EXCEPT ![k] = amended] /\ results' = results /\ Run!Touch(k)
      BY <2>3 DEF Run!UpdateCheck
    <3>2. amended.outcome # "error"
      BY RunAssumption DEF CheckOutcomes
    <3> HIDE DEF amended
    <3> QED
      BY <3>1, <3>2 DEF RunInv
  <2> QED
    BY <1>1, <2>1, <2>2, <2>3
<1>3. /\ \A d \in Deliveries :
            edited'[d] = IF runPc[d] = "idle" THEN edited[d] ELSE edited[d] \cup {k}
      /\ UNCHANGED <<runPc, position, fetched, ran>>
  BY <1>2 DEF Run!Touch
<1>4. ASSUME NEW d \in Deliveries PROVE DeliveryInv(d)'
  <2>1. runPc[d] # "idle" =>
           \A j \in DOMAIN checks' \ edited'[d] :
              /\ j # k /\ j \in DOMAIN checks \ edited[d] /\ checks'[j] = checks[j]
    BY <1>2, <1>3
  <2>2. ASSUME NEW n, Tested(d, n), runPc[d] # "idle" PROVE Tested(d, n)'
    BY <1>2, <2>1, <2>2 DEF Tested
  <2>3. PlaceInv(d)'
    BY <1>3, <2>2 DEF RunInv, DeliveryInv, PlaceInv, PlanPrefix
  <2>4. FetchedInv(d)'
    BY <1>3, <2>1 DEF RunInv, DeliveryInv, FetchedInv
  <2>5. BlockingFailures(d)' \subseteq BlockingFailures(d)
    BY <1>2 DEF BlockingFailures
  <2>6. Run!ResultsOf(d)' = Run!ResultsOf(d)
    BY <1>3 DEF Run!ResultsOf
  <2>7. GateInv(d)'
    BY <1>3, <2>5, <2>6 DEF RunInv, DeliveryInv, GateInv
  <2> QED
    BY <2>3, <2>4, <2>7 DEF DeliveryInv
<1> QED
  BY <1>2, <1>3, <1>4 DEF RunInv

(* The deliveries of a task and the edits of the checks interleave.         *)
LEMMA RunStep == RunInv /\ [Run!Next]_runVars => RunInv'
<1> SUFFICES ASSUME RunInv, [Run!Next]_runVars PROVE RunInv'
  OBVIOUS
<1>1. ASSUME NEW d \in Deliveries, Run!Begin(d) PROVE RunInv'
  <2>1. /\ runPc[d] = "idle" /\ Run!Advance(d)
        /\ UNCHANGED <<checks, results, fetched, ran, edited>>
    BY <1>1 DEF Run!Begin
  <2>2. /\ position[d] = 0 /\ PlanPrefix(d, 0) /\ BlockingFailures(d) = {}
    BY <2>1 DEF RunInv, DeliveryInv, PlaceInv, GateInv
  <2>3. Tested(d, 0)
    BY DEF Tested
  <2> QED
    BY <2>1, <2>2, <2>3, AdvanceStep DEF RunInv
<1>2. ASSUME NEW d \in Deliveries, Run!GiveUp(d) PROVE RunInv'
  BY <1>2, StopStep DEF Run!GiveUp, Run!Goto, RunInv
<1>3. CASE UNCHANGED runVars
  BY <1>3 DEF runVars, RunInv, DeliveryInv, PlaceInv, FetchedInv, GateInv, PlanPrefix,
     Tested, BlockingFailures, Run!ResultsOf
<1> QED
  BY <1>1, <1>2, <1>3, ExecuteStep, FetchStep, StoreStep, JudgeStep, OperatorStep
     DEF Run!Next, Run!Work

(* A blocking failure on record halted the delivery that recorded it at the *)
(* asset it is of, and a delivery that ends well ran the whole plan and has *)
(* the result of every check that was left alone: for any number of         *)
(* deliveries, checks and edits.                                            *)
THEOREM DeliveriesAreSound == Spec => []DeliverySound
<1>1. Init => RunInv
  <2> SUFFICES ASSUME Init PROVE RunInv
    OBVIOUS
  <2>1. /\ results = {} /\ runPc = [d \in Deliveries |-> "idle"]
        /\ position = [d \in Deliveries |-> 0] /\ fetched = [d \in Deliveries |-> {}]
        /\ ran = [d \in Deliveries |-> <<>>]
        /\ \A k \in DOMAIN checks : checks[k] \in CheckDefinitions
    BY DEF Init, Run!Init
  <2>2. \A k \in DOMAIN checks : checks[k].outcome # "error"
    BY <2>1, PlanFacts
  <2> QED
    BY <2>1, <2>2, PlanFacts DEF RunInv, DeliveryInv, PlaceInv, FetchedInv, GateInv,
       PlanPrefix, BlockingFailures
<1>2. RunInv /\ [Next]_vars => RunInv'
  BY CatalogSteps, RunStep
<1>3. RunInv => DeliverySound
  <2> SUFFICES ASSUME RunInv PROVE DeliverySound
    OBVIOUS
  <2>1. ASSUME NEW r \in results, r.blocking, r.outcome = "failed"
        PROVE  /\ runPc[r.delivery] # "ok"
               /\ ran[r.delivery][Len(ran[r.delivery])] = r.asset
    <3>1. r.delivery \in Deliveries /\ r \in BlockingFailures(r.delivery)
      BY <2>1 DEF RunInv, BlockingFailures
    <3> QED
      BY <3>1 DEF RunInv, DeliveryInv, GateInv
  <2>2. ASSUME NEW d \in Deliveries, runPc[d] = "ok"
        PROVE  /\ \A r \in results : r.delivery = d /\ r.blocking
                                       => r.outcome \notin {"failed", "error"}
               /\ ran[d] = Plan
               /\ Tested(d, Len(Plan))
    <3>1. BlockingFailures(d) = {} /\ PlanPrefix(d, Len(Plan)) /\ Tested(d, Len(Plan))
      BY <2>2 DEF RunInv, DeliveryInv, PlaceInv, GateInv
    <3>2. ran[d] = Plan
      <4>1. ran[d] \in Seq(Run!PlanAssets)
        BY DEF RunInv
      <4> QED
        BY <3>1, <4>1, PlanFacts DEF PlanPrefix
    <3> QED
      BY <3>1, <3>2 DEF RunInv, BlockingFailures
  <2>3. Run!GateHolds
    BY <2>1, <2>2 DEF Run!GateHolds, Run!GetBlockingCheckFailures, Run!ShouldBlock
  <2>4. Run!SteadyChecksRan
    BY <2>2, PlanFacts DEF Run!SteadyChecksRan, Tested, Run!PlanAssets
  <2> QED
    BY <2>3, <2>4 DEF DeliverySound, Run!DeliverySound
<1> QED
  BY <1>1, <1>2, <1>3, PTL DEF Spec

-----------------------------------------------------------------------------
(* The rate limiters.                                                       *)

\* What one request pays for, in ticks.
Unit == Period \div Rate

\* A request and its answer, as the log of a client keeps them.
Answers == [at : Nat, allowed : BOOLEAN]

\* The requests of a log that were let through from the i-th to the j-th.
Passed(s, i, j) == {n \in i .. j : s[n].allowed}
Through(s, i, j) == Cardinality(Passed(s, i, j))

\* A limiter is paid up at least for what it let through from any request on,
\* and for no more than that from one of them on.
PaidFor(s, paid) ==
    \A i \in 1 .. Len(s) : s[i].at + Through(s, i, Len(s)) * Unit <= paid
PaidExactly(s, paid) ==
    \E i \in 1 .. Len(s) : paid = s[i].at + Through(s, i, Len(s)) * Unit

\* What a limiter is paid up to when it has let one more through.
PaidAfter(paid, now) == (IF paid < now THEN now ELSE paid) + Unit

\* A limiter as its next request finds it, after that log.
LimiterOfLog(s, paid, now) ==
    /\ \A n \in 1 .. Len(s) : s[n].at <= now
    /\ s = <<>> => paid = now
    /\ s # <<>> => PaidFor(s, paid) /\ PaidExactly(s, paid)

\* QuotaPerClient of one log.
QuotaOfLog(s, burst) ==
    \A j \in 1 .. Len(s) :
        IF s[j].allowed
        THEN \A i \in 1 .. j :
                Through(s, i, j) <= burst + (s[j].at - s[i].at) \div Unit
        ELSE \E i \in 1 .. j - 1 :
                Through(s, i, j) + 1 > burst + (s[j].at - s[i].at) \div Unit

\* One client: its limiter is made with its first request.
LimitInv(c, burst) ==
    /\ log[c] \in Seq(Answers)
    /\ \A n \in 1 .. Len(log[c]) : log[c][n].at <= time
    /\ c \in DOMAIN limiters <=> log[c] # <<>>
    /\ c \in DOMAIN limiters => /\ limiters[c] \in Nat
                                /\ PaidFor(log[c], limiters[c])
                                /\ PaidExactly(log[c], limiters[c])
    /\ QuotaOfLog(log[c], burst)

BurstNow == IF focus = "addresses" THEN Addresses!Burst ELSE Tenants!Burst

QuotaInv ==
    /\ time \in Nat /\ DOMAIN log = Clients
    /\ \A c \in Clients : LimitInv(c, BurstNow)

(* A request pays for at least one tick, and a burst lets one through.      *)
LEMMA UnitType ==
  ASSUME NEW period \in Nat \ {0}, NEW rate \in Nat \ {0}, rate <= period
  PROVE  period \div rate \in Nat \ {0}
  OBVIOUS

LEMMA Units == RateAssumption => Unit \in Nat \ {0}
  BY UnitType DEF RateAssumption, Unit

LEMMA Bursts ==
  ASSUME RateAssumption
  PROVE  Tenants!Burst \in Nat \ {0} /\ Addresses!Burst \in Nat \ {0}
  BY DEF RateAssumption, Tenants!Burst, Addresses!Burst

LEMMA LimiterSizes ==
  \A S : Tenants!Cardinality(S) = Cardinality(S) /\ Addresses!Cardinality(S) = Cardinality(S)
  BY DEF Tenants!Cardinality, Addresses!Cardinality, Cardinality

(* Whole numbers of requests.                                               *)
LEMMA AtMost ==
  ASSUME NEW n \in Nat, NEW unit \in Nat \ {0}, NEW burst \in Nat, NEW x \in Nat,
         n * unit <= x + burst * unit
  PROVE  n <= burst + x \div unit
<1>1. /\ x \div unit \in Nat
      /\ x < (x \div unit + 1) * unit
  OBVIOUS
<1>2. ASSUME NEW q \in Nat, n >= burst + q + 1 PROVE n * unit >= (burst + q + 1) * unit
  BY <1>2
<1>3. \A q \in Nat : (burst + q + 1) * unit = burst * unit + (q + 1) * unit
  OBVIOUS
<1> QED
  BY <1>1, <1>2, <1>3

LEMMA MoreThan ==
  ASSUME NEW n \in Nat, NEW unit \in Nat \ {0}, NEW burst \in Nat \ {0}, NEW x \in Nat,
         n * unit > x + (burst - 1) * unit
  PROVE  n + 1 > burst + x \div unit
<1>1. /\ x \div unit \in Nat
      /\ x >= (x \div unit) * unit
  OBVIOUS
<1>2. ASSUME NEW q \in Nat, n <= burst - 1 + q PROVE n * unit <= (burst - 1 + q) * unit
  BY <1>2
<1>3. \A q \in Nat : (burst - 1 + q) * unit = (burst - 1) * unit + q * unit
  OBVIOUS
<1> QED
  BY <1>1, <1>2, <1>3

LEMMA WithinBurst ==
  ASSUME NEW a \in Nat, NEW x \in Nat, NEW then \in Nat, NEW now \in Nat, NEW b \in Nat,
         a + x <= then, then <= now + b, a <= now
  PROVE  x <= (now - a) + b
  OBVIOUS

LEMMA BeyondBurst ==
  ASSUME NEW a \in Nat, NEW x \in Nat, NEW now \in Nat, NEW b \in Nat,
         a + x > now + b, a <= now
  PROVE  x > (now - a) + b
  OBVIOUS

(* What was let through, when one more answer is logged.                    *)
LEMMA ThroughType ==
  ASSUME NEW s, NEW i \in Int, NEW j \in Int
  PROVE  IsFiniteSet(Passed(s, i, j)) /\ Through(s, i, j) \in Nat
<1>1. IsFiniteSet(i .. j)
  BY FS_Interval
<1>2. Passed(s, i, j) \subseteq i .. j
  BY DEF Passed
<1>3. IsFiniteSet(Passed(s, i, j))
  BY <1>1, <1>2, FS_Subset
<1> QED
  BY <1>3, FS_CardinalityType DEF Through

LEMMA OneMore ==
  ASSUME NEW s \in Seq(Answers), NEW answer \in Answers
  PROVE  LET t == Append(s, answer)
             last == Len(s) + 1
         IN  /\ t \in Seq(Answers) /\ Len(t) = last /\ Len(s) \in Nat
             /\ t[last] = answer /\ \A n \in 1 .. Len(s) : t[n] = s[n]
             /\ \A i, j \in 1 .. Len(s) : Through(t, i, j) = Through(s, i, j)
             /\ \A i \in 1 .. Len(s) :
                   Through(t, i, last) = IF answer.allowed THEN Through(s, i, Len(s)) + 1
                                                           ELSE Through(s, i, Len(s))
             /\ answer.allowed => Through(t, last, last) = 1
             /\ ~answer.allowed => Through(t, last, last) = 0
<1> DEFINE t == Append(s, answer)
           last == Len(s) + 1
<1>1. /\ t \in Seq(Answers) /\ Len(t) = last /\ Len(s) \in Nat
      /\ t[last] = answer /\ \A n \in 1 .. Len(s) : t[n] = s[n]
  OBVIOUS
<1> HIDE DEF t
<1>2. ASSUME NEW i \in 1 .. Len(s), NEW j \in 1 .. Len(s)
      PROVE  Through(t, i, j) = Through(s, i, j)
  <2>1. \A n \in i .. j : t[n] = s[n]
    BY <1>1
  <2>2. Passed(t, i, j) = Passed(s, i, j)
    BY <2>1 DEF Passed
  <2> QED
    BY <2>2 DEF Through
<1>3. ASSUME NEW i \in 1 .. Len(s)
      PROVE  Through(t, i, last) = IF answer.allowed THEN Through(s, i, Len(s)) + 1
                                                     ELSE Through(s, i, Len(s))
  <2>1. i .. last = (i .. Len(s)) \cup {last} /\ last \notin i .. Len(s)
    BY <1>1
  <2>2. \A n \in i .. Len(s) : t[n] = s[n]
    BY <1>1
  <2>3. CASE answer.allowed
    <3>1. Passed(t, i, last) = Passed(s, i, Len(s)) \cup {last}
      BY <1>1, <2>1, <2>2, <2>3 DEF Passed
    <3>2. last \notin Passed(s, i, Len(s)) /\ IsFiniteSet(Passed(s, i, Len(s)))
      <4>1. last \notin Passed(s, i, Len(s))
        BY <2>1 DEF Passed
      <4>2. i \in Int /\ Len(s) \in Int
        BY <1>1
      <4> QED
        BY <4>1, <4>2, ThroughType
    <3>3. Cardinality(Passed(s, i, Len(s)) \cup {last}) = Cardinality(Passed(s, i, Len(s))) + 1
      BY <3>2, FS_AddElement
    <3> QED
      BY <2>3, <3>1, <3>3 DEF Through
  <2>4. CASE ~answer.allowed
    <3>1. Passed(t, i, last) = Passed(s, i, Len(s))
      BY <1>1, <2>1, <2>2, <2>4 DEF Passed
    <3> QED
      BY <2>4, <3>1 DEF Through
  <2> QED
    BY <2>3, <2>4
<1>4. /\ answer.allowed => Through(t, last, last) = 1
      /\ ~answer.allowed => Through(t, last, last) = 0
  <2>1. last .. last = {last}
    BY <1>1
  <2>2. answer.allowed => Passed(t, last, last) = {last}
    BY <1>1, <2>1 DEF Passed
  <2>3. ~answer.allowed => Passed(t, last, last) = {}
    BY <1>1, <2>1 DEF Passed
  <2> QED
    BY <2>2, <2>3, FS_Singleton, FS_EmptySet DEF Through
<1> QED
  BY <1>1, <1>2, <1>3, <1>4 DEF t

(* The earlier answers stay as they were judged.                            *)
LEMMA QuotaKept ==
  ASSUME NEW s \in Seq(Answers), NEW answer \in Answers, NEW burst, QuotaOfLog(s, burst),
         NEW j \in 1 .. Len(s)
  PROVE  LET t == Append(s, answer)
         IN  IF t[j].allowed
             THEN \A i \in 1 .. j :
                     Through(t, i, j) <= burst + (t[j].at - t[i].at) \div Unit
             ELSE \E i \in 1 .. j - 1 :
                     Through(t, i, j) + 1 > burst + (t[j].at - t[i].at) \div Unit
<1> DEFINE t == Append(s, answer)
<1>1. /\ Len(s) \in Nat /\ \A n \in 1 .. Len(s) : t[n] = s[n]
      /\ \A i \in 1 .. Len(s) : Through(t, i, j) = Through(s, i, j)
  BY OneMore
<1> HIDE DEF t
<1>2. \A i \in 1 .. j : i \in 1 .. Len(s)
  BY <1>1
<1>3. CASE s[j].allowed
  BY <1>1, <1>2, <1>3 DEF QuotaOfLog, t
<1>4. CASE ~s[j].allowed
  <2>1. PICK i \in 1 .. j - 1 :
           Through(s, i, j) + 1 > burst + (s[j].at - s[i].at) \div Unit
    BY <1>4 DEF QuotaOfLog
  <2>2. i \in 1 .. Len(s)
    BY <1>1
  <2> QED
    BY <1>1, <1>4, <2>1, <2>2 DEF t
<1> QED
  BY <1>3, <1>4

(* A request is let through: the limiter is within the burst of now.        *)
LEMMA AllowedStep ==
  ASSUME NEW s \in Seq(Answers), NEW now \in Nat, NEW paid \in Nat, NEW burst \in Nat \ {0},
         Unit \in Nat \ {0},
         LimiterOfLog(s, paid, now), QuotaOfLog(s, burst),
         paid <= now + (burst - 1) * Unit,
         NEW list, list = Append(s, [at |-> now, allowed |-> TRUE])
  PROVE  /\ PaidAfter(paid, now) \in Nat
         /\ PaidFor(list, PaidAfter(paid, now))
         /\ PaidExactly(list, PaidAfter(paid, now))
         /\ QuotaOfLog(list, burst)
<1> DEFINE answer == [at |-> now, allowed |-> TRUE]
           t == Append(s, answer)
           last == Len(s) + 1
           then == PaidAfter(paid, now)
<1>0. /\ \A n \in 1 .. Len(s) : s[n].at <= now
      /\ s = <<>> => paid = now
      /\ s # <<>> => PaidFor(s, paid) /\ PaidExactly(s, paid)
  BY DEF LimiterOfLog
<1>1. answer \in Answers /\ answer.at = now /\ answer.allowed
      /\ list = t
  BY DEF Answers
<1> HIDE DEF answer
<1>2. /\ t \in Seq(Answers) /\ Len(t) = last /\ Len(s) \in Nat
      /\ t[last] = answer /\ \A n \in 1 .. Len(s) : t[n] = s[n]
      /\ \A i \in 1 .. Len(s) : Through(t, i, last) = Through(s, i, Len(s)) + 1
      /\ Through(t, last, last) = 1
  BY <1>1, OneMore
<1>3. \A j \in 1 .. Len(s) :
         IF t[j].allowed
         THEN \A i \in 1 .. j :
                 Through(t, i, j) <= burst + (t[j].at - t[i].at) \div Unit
         ELSE \E i \in 1 .. j - 1 :
                 Through(t, i, j) + 1 > burst + (t[j].at - t[i].at) \div Unit
  BY <1>1, QuotaKept
<1> HIDE DEF t
<1>4. ASSUME NEW i \in 1 .. Len(s)
      PROVE  s[i].at \in Nat /\ Through(s, i, Len(s)) \in Nat
  <2>1. s[i] \in Answers /\ i \in Int /\ Len(s) \in Int
    BY <1>2
  <2> QED
    BY <2>1, ThroughType DEF Answers
<1>5. \A n \in Nat : (n + 1) * Unit = n * Unit + Unit
  OBVIOUS
<1>6. \A n \in Nat : n * Unit \in Nat
  OBVIOUS
<1>7. then \in Nat /\ then >= now + Unit /\ then >= paid + Unit /\ 1 * Unit = Unit
  BY DEF PaidAfter
<1>8. then <= now + burst * Unit
  <2>1. burst * Unit = (burst - 1) * Unit + Unit /\ (burst - 1) * Unit \in Nat
    OBVIOUS
  <2> QED
    BY <2>1 DEF PaidAfter
<1>9. ASSUME NEW i \in 1 .. last PROVE t[i].at + Through(t, i, last) * Unit <= then
  <2>1. CASE i = last
    BY <1>1, <1>2, <1>7, <2>1
  <2>2. CASE i \in 1 .. Len(s)
    <3>1. s[i].at + Through(s, i, Len(s)) * Unit <= paid
      BY <1>0, <1>2, <2>2 DEF PaidFor
    <3>2. Through(t, i, last) * Unit = Through(s, i, Len(s)) * Unit + Unit
      BY <1>2, <1>4, <1>5, <2>2
    <3>3. Through(s, i, Len(s)) * Unit \in Nat /\ s[i].at \in Nat /\ t[i] = s[i]
      BY <1>2, <1>4, <1>6, <2>2
    <3> QED
      BY <1>7, <3>1, <3>2, <3>3
  <2> QED
    BY <1>2, <2>1, <2>2
<1>10. PaidFor(t, then)
  BY <1>2, <1>9 DEF PaidFor
<1>11. PaidExactly(t, then)
  <2>1. CASE s = <<>> \/ paid < now
    <3>1. then = now + 1 * Unit
      BY <1>0, <1>7, <2>1 DEF PaidAfter
    <3>2. last \in 1 .. Len(t) /\ then = t[last].at + Through(t, last, Len(t)) * Unit
      BY <1>1, <1>2, <3>1
    <3> QED
      BY <3>2 DEF PaidExactly
  <2>2. CASE s # <<>> /\ ~(paid < now)
    <3>1. PICK i \in 1 .. Len(s) : paid = s[i].at + Through(s, i, Len(s)) * Unit
      BY <1>0, <2>2 DEF PaidExactly
    <3>2. Through(t, i, last) * Unit = Through(s, i, Len(s)) * Unit + Unit
      BY <1>2, <1>4, <1>5
    <3>3. Through(s, i, Len(s)) * Unit \in Nat /\ s[i].at \in Nat /\ t[i] = s[i]
      BY <1>2, <1>4, <1>6
    <3>4. i \in 1 .. Len(t) /\ then = t[i].at + Through(t, i, Len(t)) * Unit
      BY <1>2, <2>2, <3>1, <3>2, <3>3 DEF PaidAfter
    <3> QED
      BY <3>4 DEF PaidExactly
  <2> QED
    BY <2>1, <2>2
<1>12. ASSUME NEW i \in 1 .. last
       PROVE  Through(t, i, last) <= burst + (t[last].at - t[i].at) \div Unit
  <2>1. t[i].at \in Nat /\ t[i].at <= now /\ now - t[i].at \in Nat
    <3>1. i = last \/ i \in 1 .. Len(s)
      BY <1>2
    <3>2. CASE i = last
      BY <1>1, <1>2, <3>2
    <3>3. CASE i \in 1 .. Len(s)
      <4>1. t[i] = s[i] /\ s[i].at \in Nat /\ s[i].at <= now
        BY <1>0, <1>2, <1>4, <3>3
      <4> QED
        BY <4>1
    <3> QED
      BY <3>1, <3>2, <3>3
  <2>2. Through(t, i, last) \in Nat
    BY <1>2, ThroughType
  <2>3. Through(t, i, last) * Unit \in Nat /\ burst * Unit \in Nat
    BY <1>6, <2>2
  <2>4. Through(t, i, last) * Unit <= (now - t[i].at) + burst * Unit
    BY <1>7, <1>8, <1>9, <2>1, <2>3, WithinBurst
  <2> QED
    BY <1>1, <1>2, <2>1, <2>2, <2>4, AtMost
<1>13. QuotaOfLog(t, burst)
  <2> SUFFICES ASSUME NEW j \in 1 .. last
               PROVE  IF t[j].allowed
                      THEN \A i \in 1 .. j :
                              Through(t, i, j) <= burst + (t[j].at - t[i].at) \div Unit
                      ELSE \E i \in 1 .. j - 1 :
                              Through(t, i, j) + 1 > burst + (t[j].at - t[i].at) \div Unit
    BY <1>2 DEF QuotaOfLog
  <2>1. CASE j = last
    BY <1>1, <1>2, <1>12, <2>1
  <2>2. CASE j \in 1 .. Len(s)
    BY <1>3, <2>2
  <2>3. j = last \/ j \in 1 .. Len(s)
    BY <1>2
  <2> QED
    BY <2>1, <2>2, <2>3
<1> QED
  BY <1>1, <1>7, <1>10, <1>11, <1>13

(* A request is refused: what was let through fills the burst.              *)
LEMMA RefusedStep ==
  ASSUME NEW s \in Seq(Answers), NEW now \in Nat, NEW paid \in Nat, NEW burst \in Nat \ {0},
         Unit \in Nat \ {0},
         \A n \in 1 .. Len(s) : s[n].at <= now,
         PaidFor(s, paid), PaidExactly(s, paid), QuotaOfLog(s, burst),
         paid > now + (burst - 1) * Unit,
         NEW list, list = Append(s, [at |-> now, allowed |-> FALSE])
  PROVE  PaidFor(list, paid) /\ PaidExactly(list, paid) /\ QuotaOfLog(list, burst)
<1> DEFINE answer == [at |-> now, allowed |-> FALSE]
           t == Append(s, answer)
           last == Len(s) + 1
<1>1. answer \in Answers /\ answer.at = now /\ ~answer.allowed
      /\ list = t
  BY DEF Answers
<1> HIDE DEF answer
<1>2. /\ t \in Seq(Answers) /\ Len(t) = last /\ Len(s) \in Nat
      /\ t[last] = answer /\ \A n \in 1 .. Len(s) : t[n] = s[n]
      /\ \A i \in 1 .. Len(s) : Through(t, i, last) = Through(s, i, Len(s))
      /\ Through(t, last, last) = 0
  BY <1>1, OneMore
<1>3. \A j \in 1 .. Len(s) :
         IF t[j].allowed
         THEN \A i \in 1 .. j :
                 Through(t, i, j) <= burst + (t[j].at - t[i].at) \div Unit
         ELSE \E i \in 1 .. j - 1 :
                 Through(t, i, j) + 1 > burst + (t[j].at - t[i].at) \div Unit
  BY <1>1, QuotaKept
<1> HIDE DEF t
<1>4. ASSUME NEW i \in 1 .. Len(s)
      PROVE  s[i].at \in Nat /\ Through(s, i, Len(s)) \in Nat
  <2>1. s[i] \in Answers /\ i \in Int /\ Len(s) \in Int
    BY <1>2
  <2> QED
    BY <2>1, ThroughType DEF Answers
<1>5. /\ \A n \in Nat : n * Unit \in Nat
      /\ 0 * Unit = 0 /\ (burst - 1) * Unit \in Nat
  OBVIOUS
<1>6. PaidFor(t, paid)
  <2>1. ASSUME NEW i \in 1 .. last PROVE t[i].at + Through(t, i, last) * Unit <= paid
    <3>1. CASE i = last
      <4>1. t[i].at + Through(t, i, last) * Unit = now + 0
        BY <1>1, <1>2, <1>5, <3>1
      <4>2. \A spare \in Nat : paid > now + spare => now + 0 <= paid
        OBVIOUS
      <4> QED
        BY <1>5, <4>1, <4>2
    <3>2. CASE i \in 1 .. Len(s)
      BY <1>2, <3>2 DEF PaidFor
    <3> QED
      BY <1>2, <3>1, <3>2
  <2> QED
    BY <1>2, <2>1 DEF PaidFor
<1>7. PICK i \in 1 .. Len(s) : paid = s[i].at + Through(s, i, Len(s)) * Unit
  BY DEF PaidExactly
<1>8. /\ i \in 1 .. Len(t) /\ t[i] = s[i]
      /\ Through(t, i, last) = Through(s, i, Len(s))
  BY <1>2
<1>9. PaidExactly(t, paid)
  BY <1>2, <1>7, <1>8 DEF PaidExactly
<1>10. Through(t, i, last) + 1 > burst + (t[last].at - t[i].at) \div Unit
  <2>1. s[i].at \in Nat /\ s[i].at <= now /\ now - s[i].at \in Nat
    BY <1>4
  <2>2. Through(s, i, Len(s)) \in Nat /\ Through(s, i, Len(s)) * Unit \in Nat
    BY <1>4, <1>5
  <2>3. Through(s, i, Len(s)) * Unit > (now - s[i].at) + (burst - 1) * Unit
    BY <1>5, <1>7, <2>1, <2>2, BeyondBurst
  <2> QED
    BY <1>1, <1>2, <1>8, <2>1, <2>2, <2>3, MoreThan
<1>11. QuotaOfLog(t, burst)
  <2> SUFFICES ASSUME NEW j \in 1 .. last
               PROVE  IF t[j].allowed
                      THEN \A k \in 1 .. j :
                              Through(t, k, j) <= burst + (t[j].at - t[k].at) \div Unit
                      ELSE \E k \in 1 .. j - 1 :
                              Through(t, k, j) + 1 > burst + (t[j].at - t[k].at) \div Unit
    BY <1>2 DEF QuotaOfLog
  <2>1. CASE j = last
    <3>1. i \in 1 .. j - 1
      BY <1>2, <2>1
    <3> QED
      BY <1>1, <1>2, <1>10, <2>1, <3>1
  <2>2. CASE j \in 1 .. Len(s)
    BY <1>3, <2>2
  <2>3. j = last \/ j \in 1 .. Len(s)
    BY <1>2
  <2> QED
    BY <2>1, <2>2, <2>3
<1> QED
  BY <1>1, <1>6, <1>9, <1>11

(* The request of one client, whatever its limiter says.                    *)
LEMMA RequestStep ==
  ASSUME RateAssumption, time \in Nat, DOMAIN log = Clients, NEW burst \in Nat \ {0},
         DOMAIN log' = Clients, \A d \in Clients : LimitInv(d, burst),
         NEW c \in Clients, NEW paidUp, NEW allowed \in BOOLEAN,
         paidUp = IF c \in DOMAIN limiters THEN limiters[c] ELSE time,
         allowed <=> paidUp <= time + (burst - 1) * Unit,
         DOMAIN limiters' = DOMAIN limiters \cup {c},
         limiters'[c] = IF allowed THEN (IF paidUp < time THEN time ELSE paidUp) + Unit
                                   ELSE paidUp,
         \A d \in DOMAIN limiters \ {c} : limiters'[d] = limiters[d],
         log'[c] = Append(log[c], [at |-> time, allowed |-> allowed]),
         \A d \in Clients \ {c} : log'[d] = log[d],
         UNCHANGED time
  PROVE  \A d \in Clients : LimitInv(d, burst)'
<1> DEFINE s == log[c]
<1>1. /\ s \in Seq(Answers) /\ \A n \in 1 .. Len(s) : s[n].at <= time
      /\ paidUp \in Nat /\ (s = <<>> => paidUp = time)
      /\ s # <<>> => PaidFor(s, paidUp) /\ PaidExactly(s, paidUp)
      /\ QuotaOfLog(s, burst) /\ Unit \in Nat \ {0}
  BY Units DEF LimitInv
<1>2. ASSUME NEW d \in Clients \ {c} PROVE LimitInv(d, burst)'
  <2>1. log'[d] = log[d] /\ (d \in DOMAIN limiters' <=> d \in DOMAIN limiters)
        /\ (d \in DOMAIN limiters => limiters'[d] = limiters[d])
    OBVIOUS
  <2> QED
    BY <2>1 DEF LimitInv
<1>3. log'[c] = Append(s, [at |-> time, allowed |-> allowed]) /\ c \in DOMAIN limiters'
  OBVIOUS
<1>4. ASSUME NEW b \in BOOLEAN, log'[c] = Append(s, [at |-> time, allowed |-> b])
      PROVE  /\ log'[c] \in Seq(Answers) /\ log'[c] # <<>>
             /\ \A n \in 1 .. Len(log'[c]) : log'[c][n].at <= time
  <2>1. [at |-> time, allowed |-> b] \in Answers
    BY DEF Answers
  <2> QED
    BY <1>1, <1>4, <2>1
<1>7. ASSUME log'[c] \in Seq(Answers), log'[c] # <<>>,
             \A n \in 1 .. Len(log'[c]) : log'[c][n].at <= time,
             limiters'[c] \in Nat, PaidFor(log'[c], limiters'[c]),
             PaidExactly(log'[c], limiters'[c]), QuotaOfLog(log'[c], burst)
      PROVE  LimitInv(c, burst)'
  <2>1. PaidFor(log[c], limiters[c])'
    BY <1>7 DEF PaidFor, Through, Passed
  <2>2. PaidExactly(log[c], limiters[c])'
    BY <1>7 DEF PaidExactly, Through, Passed
  <2>3. QuotaOfLog(log[c], burst)'
    BY <1>7 DEF QuotaOfLog, Through, Passed
  <2> QED
    BY <1>3, <1>7, <2>1, <2>2, <2>3 DEF LimitInv
<1>5. CASE paidUp <= time + (burst - 1) * Unit
  <2>1. /\ log'[c] = Append(s, [at |-> time, allowed |-> TRUE])
        /\ limiters'[c] = (IF paidUp < time THEN time ELSE paidUp) + Unit
    BY <1>3, <1>5
  <2>2. /\ limiters'[c] \in Nat /\ PaidFor(log'[c], limiters'[c])
        /\ PaidExactly(log'[c], limiters'[c]) /\ QuotaOfLog(log'[c], burst)
    <3>1. s \in Seq(Answers) /\ LimiterOfLog(s, paidUp, time) /\ QuotaOfLog(s, burst)
      BY <1>1 DEF LimiterOfLog
    <3>2. time \in Nat /\ paidUp \in Nat /\ Unit \in Nat \ {0}
      BY <1>1
    <3>3. limiters'[c] = PaidAfter(paidUp, time)
      BY <2>1 DEF PaidAfter
    <3>4. log'[c] = Append(s, [at |-> time, allowed |-> TRUE])
      BY <2>1
    <3> HIDE DEF s
    <3>5. /\ PaidAfter(paidUp, time) \in Nat
          /\ PaidFor(log'[c], PaidAfter(paidUp, time))
          /\ PaidExactly(log'[c], PaidAfter(paidUp, time))
          /\ QuotaOfLog(log'[c], burst)
      BY <1>5, <3>1, <3>2, <3>4, AllowedStep
    <3> QED
      BY <3>3, <3>5
  <2> QED
    BY <1>2, <1>3, <1>4, <2>1, <2>2, <1>7
<1>6. CASE ~(paidUp <= time + (burst - 1) * Unit)
  <2>1. /\ log'[c] = Append(s, [at |-> time, allowed |-> FALSE])
        /\ limiters'[c] = paidUp
    <3>1. allowed = FALSE
      BY <1>6
    <3> QED
      BY <1>3, <3>1
  <2>2. (burst - 1) * Unit \in Nat
    BY <1>1
  <2>3. paidUp > time + (burst - 1) * Unit /\ s # <<>>
    <3>1. \A b \in Nat : ~(paidUp <= time + b) => paidUp > time + b /\ paidUp # time
      BY <1>1
    <3> QED
      BY <1>1, <1>6, <2>2, <3>1
  <2>4. /\ limiters'[c] \in Nat /\ PaidFor(log'[c], limiters'[c])
        /\ PaidExactly(log'[c], limiters'[c]) /\ QuotaOfLog(log'[c], burst)
    <3>1. PaidFor(s, paidUp) /\ PaidExactly(s, paidUp)
      BY <1>1, <2>3
    <3> HIDE DEF s
    <3>2. /\ PaidFor(log'[c], paidUp) /\ PaidExactly(log'[c], paidUp)
          /\ QuotaOfLog(log'[c], burst)
      BY <1>1, <2>1, <2>3, <3>1, RefusedStep
    <3> QED
      BY <1>1, <2>1, <3>2
  <2> QED
    BY <1>2, <1>3, <1>4, <2>1, <2>4, <1>7
<1> QED
  BY <1>5, <1>6

(* Tenants and addresses have their own limiters, of different bursts.      *)
LEMMA LimiterStep ==
  ASSUME RateAssumption, QuotaInv, [Next]_vars
  PROVE  QuotaInv'
<1>0. BurstNow' = BurstNow /\ BurstNow \in Nat \ {0}
  BY Bursts DEF BurstNow, Next, vars, Addresses!Burst, Tenants!Burst
<1>1. PICK burst \in Nat \ {0} : BurstNow = burst /\ BurstNow' = burst
  BY <1>0
<1>6. (\A c \in Clients : LimitInv(c, burst)') => \A c \in Clients : LimitInv(c, BurstNow)'
  BY <1>1 DEF LimitInv, QuotaOfLog
<1>2. \/ focus = "tenants" /\ Tenants!Next
      \/ focus = "addresses" /\ Addresses!Next
      \/ UNCHANGED limitVars
  BY DEF Next, vars, doorVars
<1>3. ASSUME NEW c \in Clients,
             \/ focus = "tenants" /\ Tenants!Check(c)
             \/ focus = "addresses" /\ Addresses!Check(c)
      PROVE  QuotaInv'
  <2> DEFINE paidUp == IF c \in DOMAIN limiters THEN limiters[c] ELSE time
             allowed == paidUp <= time + (burst - 1) * Unit
  <2>1. /\ limiters' = [d \in DOMAIN limiters \cup {c} |->
                           IF d = c THEN IF allowed
                                         THEN (IF paidUp < time THEN time ELSE paidUp) + Unit
                                         ELSE paidUp
                           ELSE limiters[d]]
        /\ log' = [log EXCEPT ![c] = Append(@, [at |-> time, allowed |-> allowed])]
        /\ UNCHANGED time
    <3>1. CASE focus = "tenants" /\ Tenants!Check(c)
      BY <1>1, <3>1 DEF BurstNow, Unit, Tenants!Check, Tenants!LimiterOf, Tenants!Allowed,
         Tenants!PaidUpTo, Tenants!Max2, Tenants!Interval
    <3>2. CASE focus = "addresses" /\ Addresses!Check(c)
      BY <1>1, <3>2 DEF BurstNow, Unit, Addresses!Check, Addresses!LimiterOf, Addresses!Allowed,
         Addresses!PaidUpTo, Addresses!Max2, Addresses!Interval
    <3> QED
      BY <1>3, <3>1, <3>2
  <2>2. /\ time \in Nat /\ DOMAIN log = Clients /\ DOMAIN log' = Clients
        /\ \A d \in Clients : LimitInv(d, burst)
    BY <1>1, <2>1 DEF QuotaInv
  <2>3. /\ paidUp = IF c \in DOMAIN limiters THEN limiters[c] ELSE time
        /\ allowed \in BOOLEAN
        /\ allowed <=> paidUp <= time + (burst - 1) * Unit
    OBVIOUS
  <2> HIDE DEF paidUp, allowed
  <2>4. \A d \in Clients : LimitInv(d, burst)'
    <3>0. PICK p : p = paidUp
      OBVIOUS
    <3>1. PICK b \in BOOLEAN : b = allowed
      BY <2>3
    <3>2. /\ p = IF c \in DOMAIN limiters THEN limiters[c] ELSE time
          /\ b <=> p <= time + (burst - 1) * Unit
          /\ DOMAIN limiters' = DOMAIN limiters \cup {c}
          /\ limiters'[c] = IF b THEN (IF p < time THEN time ELSE p) + Unit ELSE p
          /\ \A d \in DOMAIN limiters \ {c} : limiters'[d] = limiters[d]
          /\ log'[c] = Append(log[c], [at |-> time, allowed |-> b])
          /\ \A d \in Clients \ {c} : log'[d] = log[d]
      BY <2>1, <2>2, <2>3, <3>0, <3>1
    <3> QED
      BY <2>1, <2>2, <3>2, RequestStep
  <2> QED
    BY <1>6, <2>1, <2>2, <2>4 DEF QuotaInv
<1>4. ASSUME time' = time + 1, UNCHANGED <<limiters, log>> PROVE QuotaInv'
  <2>1. ASSUME NEW c \in Clients PROVE LimitInv(c, BurstNow)'
    <3>1. ASSUME NEW n \in 1 .. Len(log[c])
          PROVE  log[c][n].at \in Nat /\ log[c][n].at <= time
      <4>1. log[c][n] \in Answers
        BY DEF QuotaInv, LimitInv
      <4> QED
        BY <4>1 DEF QuotaInv, LimitInv, Answers
    <3> QED
      BY <1>1, <1>4, <3>1 DEF QuotaInv, LimitInv
  <2> QED
    BY <1>4, <2>1 DEF QuotaInv
<1>5. CASE UNCHANGED limitVars
  BY <1>1, <1>5 DEF limitVars, QuotaInv, LimitInv
<1> QED
  BY <1>2, <1>3, <1>4, <1>5 DEF Tenants!Next, Tenants!Tick, Tenants!CheckTenant,
     Tenants!CheckIp, Addresses!Next, Addresses!Tick, Addresses!CheckTenant, Addresses!CheckIp

(* In every window a client gets through at most its burst and what the     *)
(* rate pays for, and is refused only if it would have been one too many,   *)
(* whatever the others ask: for any number of clients, rate and period.     *)
THEOREM QuotasArePerClient == Spec => []QuotaPerClient
<1>1. Init => QuotaInv
  BY DEF Init, Tenants!Init, QuotaInv, LimitInv, QuotaOfLog
<1>2. QuotaInv /\ [Next]_vars => QuotaInv'
  BY LimiterStep, RateAssumption
<1>3. QuotaInv => QuotaPerClient
  <2> SUFFICES ASSUME QuotaInv PROVE QuotaPerClient
    OBVIOUS
  <2>1. ASSUME NEW c \in Clients
        PROVE  /\ QuotaOfLog(log[c], BurstNow) /\ DOMAIN log[c] = 1 .. Len(log[c])
    BY DEF QuotaInv, LimitInv
  <2>2. \A c, i, j : /\ Tenants!LetThrough(c, i, j) = Through(log[c], i, j)
                     /\ Addresses!LetThrough(c, i, j) = Through(log[c], i, j)
    BY LimiterSizes DEF Tenants!LetThrough, Addresses!LetThrough, Through, Passed
  <2>3. CASE focus = "addresses"
    BY <2>1, <2>2, <2>3 DEF QuotaPerClient, Addresses!QuotaPerClient, QuotaOfLog, BurstNow,
       Addresses!QuotaOf, Addresses!Interval, Unit
  <2>4. CASE focus # "addresses"
    BY <2>1, <2>2, <2>4 DEF QuotaPerClient, Tenants!QuotaPerClient, QuotaOfLog, BurstNow,
       Tenants!QuotaOf, Tenants!Interval, Unit
  <2> QED
    BY <2>3, <2>4
<1> QED
  BY <1>1, <1>2, <1>3, PTL DEF Spec

-----------------------------------------------------------------------------
(* A set of numbers has a least one.                                        *)
LEMMA LeastNumber ==
  ASSUME NEW T, T \subseteq Nat, T # {}
  PROVE  \E n \in T : \A m \in T : n <= m
<1> DEFINE R == OpToRel(<, Nat)
<1>1. IsWellFoundedOn(R, Nat)
  BY NatLessThanWellFounded
<1> HIDE DEF R
<1>2. PICK n \in T : \A m \in T : ~ (<<m, n>> \in R)
  BY <1>1, WFMin
<1>3. ASSUME NEW m \in T, m < n PROVE <<m, n>> \in R
  BY <1>3 DEF R, OpToRel
<1>4. ASSUME NEW m \in T PROVE n <= m
  <2>1. ~ (m < n)
    BY <1>2, <1>3
  <2> QED
    BY <2>1
<1> QED
  BY <1>4

\* G makes a value from the one before it, and f is what it makes of the first.
Steps(G, V) == G \in [Nat -> [V -> V]]
Follows(f, first, G, V) ==
    f \in [Nat -> V] /\ f[0] = first /\ \A n \in Nat : f[n + 1] = G[n + 1][f[n]]

(* A value for each number from the one before it.                          *)
LEMMA Recursion ==
  ASSUME NEW V, NEW first \in V, NEW G, Steps(G, V)
  PROVE  \E f : Follows(f, first, G, V)
<1>0. G \in [Nat -> [V -> V]]
  BY DEF Steps
<1> DEFINE Up(n, g) == /\ g \in [0 .. n -> V] /\ g[0] = first
                       /\ \A k \in 1 .. n : g[k] = G[k][g[k - 1]]
           none == {n \in Nat : ~ \E g : Up(n, g)}
           differ == {n \in Nat : \E m \in Nat : \E g, h :
                        n <= m /\ Up(n, g) /\ Up(m, h) /\ g[n] # h[n]}
<1> HIDE DEF Up, none, differ
<1>1. none = {}
  <2> SUFFICES ASSUME none # {} PROVE FALSE
    OBVIOUS
  <2>1. PICK n \in none : \A m \in none : n <= m
    BY LeastNumber DEF none
  <2>0. n \in Nat /\ ~ \E g : Up(n, g)
    BY DEF none
  <2>2. CASE n = 0
    <3>1. Up(0, [k \in 0 .. 0 |-> first])
      BY DEF Up
    <3> QED
      BY <2>0, <2>2, <3>1
  <2>3. CASE n # 0
    <3>1. n - 1 \in Nat /\ n - 1 \notin none
      BY <2>1, <2>0, <2>3
    <3>2. PICK g : Up(n - 1, g)
      BY <3>1 DEF none
    <3> DEFINE h == [k \in 0 .. n |-> IF k = n THEN G[n][g[n - 1]] ELSE g[k]]
    <3>3. Up(n, h)
      <4>1. g[n - 1] \in V /\ G[n][g[n - 1]] \in V
        BY <1>0, <2>0, <3>1, <3>2 DEF Up
      <4>2. h \in [0 .. n -> V]
        BY <2>0, <3>1, <3>2, <4>1 DEF Up
      <4>3. h[0] = first
        BY <2>0, <2>3, <3>1, <3>2 DEF Up
      <4>4. ASSUME NEW k \in 1 .. n PROVE h[k] = G[k][h[k - 1]]
        <5>1. k - 1 \in 0 .. n /\ k - 1 # n /\ h[k - 1] = g[k - 1]
          BY <2>0, <3>1
        <5>2. CASE k = n
          BY <5>1, <5>2
        <5>3. CASE k # n
          BY <2>0, <3>1, <3>2, <5>1, <5>3 DEF Up
        <5> QED
          BY <5>2, <5>3
      <4> HIDE DEF h
      <4> QED
        BY <4>2, <4>3, <4>4 DEF Up
    <3> QED
      BY <2>0, <3>3
  <2> QED
    BY <2>2, <2>3
<1>2. differ = {}
  <2> SUFFICES ASSUME differ # {} PROVE FALSE
    OBVIOUS
  <2>1. PICK n \in differ : \A m \in differ : n <= m
    BY LeastNumber DEF differ
  <2>2. PICK m \in Nat : \E g, h : n <= m /\ Up(n, g) /\ Up(m, h) /\ g[n] # h[n]
    BY DEF differ
  <2>0. PICK g, h : Up(n, g) /\ Up(m, h) /\ g[n] # h[n]
    BY <2>2
  <2>3. n \in Nat /\ n # 0
    BY <2>0 DEF differ, Up
  <2>4. n - 1 \in Nat /\ n - 1 \notin differ /\ n \in 1 .. n /\ n \in 1 .. m
    BY <2>1, <2>2, <2>3
  <2>5. g[n - 1] # h[n - 1]
    BY <2>2, <2>4, <2>0 DEF Up
  <2> DEFINE less == [k \in 0 .. n - 1 |-> g[k]]
  <2>6. Up(n - 1, less) /\ less[n - 1] = g[n - 1]
    BY <2>3, <2>4, <2>0 DEF Up
  <2> HIDE DEF less
  <2>7. n - 1 \in differ
    BY <2>2, <2>4, <2>5, <2>6, <2>0 DEF differ
  <2> QED
    BY <2>4, <2>7
<1> DEFINE upTo(n) == CHOOSE g : Up(n, g)
           f == [n \in Nat |-> upTo(n)[n]]
<1>3. \A n \in Nat : Up(n, upTo(n))
  BY <1>1 DEF none
<1> HIDE DEF upTo
<1>4. f \in [Nat -> V] /\ f[0] = first
  BY <1>3 DEF Up
<1>5. ASSUME NEW n \in Nat PROVE f[n + 1] = G[n + 1][f[n]]
  <2>1. Up(n, upTo(n)) /\ Up(n + 1, upTo(n + 1)) /\ n <= n + 1 /\ n + 1 \in Nat
    BY <1>3
  <2>2. upTo(n)[n] = upTo(n + 1)[n]
    BY <1>2, <2>1 DEF differ
  <2>3. upTo(n + 1)[n + 1] = G[n + 1][upTo(n + 1)[n]]
    BY <2>1 DEF Up
  <2> QED
    BY <2>1, <2>2, <2>3
<1> HIDE DEF f
<1> QED
  BY <1>4, <1>5 DEF Follows

(* What is adjacent to the assets of a set, by rows in either direction.     *)
Around(table, S) ==
    S \cup {d.up : d \in {r \in table : r.down \in S}}
      \cup {d.down : d \in {r \in table : r.up \in S}}

(* The assets near an asset, step by step.                                  *)
LEMMA NearStep ==
  ASSUME NEW table \in SUBSET Lineage!Dependency, NEW a \in Assets
  PROVE  /\ Lineage!Near(table, a) \in [Nat -> SUBSET Assets]
         /\ Lineage!Near(table, a)[0] = {a}
         /\ \A n \in Nat : Lineage!Near(table, a)[n + 1]
                              = Around(table, Lineage!Near(table, a)[n])
<1> DEFINE G == [n \in Nat |-> [S \in SUBSET Assets |-> Around(table, S)]]
           Defines(g) == g = [n \in Nat |-> IF n = 0 THEN {a} ELSE Around(table, g[n - 1])]
<1>1. \A S \in SUBSET Assets : Around(table, S) \in SUBSET Assets
  BY DEF Around, Lineage!Dependency
<1>2. G \in [Nat -> [SUBSET Assets -> SUBSET Assets]]
  BY <1>1
<1>3. PICK f \in [Nat -> SUBSET Assets] :
        f[0] = {a} /\ \A n \in Nat : f[n + 1] = G[n + 1][f[n]]
  <2> DEFINE V == SUBSET Assets
  <2>1. {a} \in V /\ Steps(G, V)
    BY <1>2 DEF Steps
  <2>2. \E f : Follows(f, {a}, G, V)
    <3> HIDE DEF G, V
    <3> QED
      BY <2>1, Recursion
  <2> QED
    BY <2>2 DEF Follows
<1>4. Defines(f)
  <2>1. ASSUME NEW n \in Nat, n # 0 PROVE f[n] = Around(table, f[n - 1])
    <3>1. n - 1 \in Nat /\ n - 1 + 1 = n
      BY <2>1
    <3>2. f[n] = G[n][f[n - 1]]
      BY <1>3, <3>1
    <3> QED
      BY <3>1, <3>2
  <2> QED
    BY <1>3, <2>1
<1>5. Lineage!Near(table, a) = CHOOSE g : Defines(g)
  BY DEF Lineage!Near, Around
<1>6. Defines(Lineage!Near(table, a))
  BY <1>4, <1>5
<1> DEFINE near == Lineage!Near(table, a)
<1> HIDE DEF near, G
<1>7. near = [n \in Nat |-> IF n = 0 THEN {a} ELSE Around(table, near[n - 1])]
  BY <1>6 DEF near
<1>8. near[0] = {a}
  BY <1>7
<1>12. \A n \in Nat \ {0} : near[n] = Around(table, near[n - 1])
  BY <1>7
<1>9. ASSUME NEW n \in Nat PROVE near[n + 1] = Around(table, near[n])
  <2>1. n + 1 \in Nat /\ n + 1 # 0 /\ n + 1 - 1 = n
    OBVIOUS
  <2> QED
    BY <1>12, <2>1
<1>10. ASSUME NEW n \in Nat PROVE near[n] \in SUBSET Assets
  <2> DEFINE T == {k \in Nat : near[k] \notin SUBSET Assets}
  <2> SUFFICES ASSUME T # {} PROVE FALSE
    OBVIOUS
  <2>1. PICK k \in T : \A m \in T : k <= m
    BY LeastNumber
  <2>2. k # 0
    BY <1>8
  <2>3. k - 1 \in Nat /\ k - 1 \notin T /\ k - 1 + 1 = k
    BY <2>1, <2>2
  <2>4. near[k] = Around(table, near[k - 1])
    BY <1>9, <2>3
  <2> QED
    BY <1>1, <2>3, <2>4
<1>11. near \in [Nat -> SUBSET Assets]
  BY <1>7, <1>10
<1> QED
  BY <1>8, <1>9, <1>11 DEF near

(* Near grows with the rows and with the distance.                           *)
LEMMA NearGrows ==
  ASSUME NEW table \in SUBSET Lineage!Dependency, NEW more \in SUBSET Lineage!Dependency,
         table \subseteq more, NEW a \in Assets, NEW n \in Nat
  PROVE  /\ Lineage!Near(table, a)[n] \subseteq Lineage!Near(more, a)[n]
         /\ \A m \in Nat : n <= m => Lineage!Near(table, a)[n] \subseteq Lineage!Near(table, a)[m]
<1> DEFINE near == Lineage!Near(table, a)  wider == Lineage!Near(more, a)
<1>1. /\ near \in [Nat -> SUBSET Assets] /\ near[0] = {a}
      /\ \A k \in Nat : near[k + 1] = Around(table, near[k])
  BY NearStep
<1>2. /\ wider \in [Nat -> SUBSET Assets] /\ wider[0] = {a}
      /\ \A k \in Nat : wider[k + 1] = Around(more, wider[k])
  BY NearStep
<1> HIDE DEF near, wider
<1>3. near[n] \subseteq wider[n]
  <2> DEFINE T == {k \in Nat : ~ (near[k] \subseteq wider[k])}
  <2> SUFFICES ASSUME T # {} PROVE FALSE
    OBVIOUS
  <2>1. PICK k \in T : \A m \in T : k <= m
    BY LeastNumber
  <2>2. k # 0
    BY <1>1, <1>2
  <2>3. k - 1 \in Nat /\ k - 1 \notin T /\ k - 1 + 1 = k
    BY <2>1, <2>2
  <2>4. near[k] = Around(table, near[k - 1]) /\ wider[k] = Around(more, wider[k - 1])
    BY <1>1, <1>2, <2>3
  <2>5. near[k - 1] \subseteq wider[k - 1]
    BY <2>3
  <2>6. Around(table, near[k - 1]) \subseteq Around(more, wider[k - 1])
    BY <2>5 DEF Around
  <2> QED
    BY <2>4, <2>6
<1>4. ASSUME NEW m \in Nat, n <= m PROVE near[n] \subseteq near[m]
  <2> DEFINE T == {k \in Nat : n <= k /\ ~ (near[n] \subseteq near[k])}
  <2> SUFFICES ASSUME T # {} PROVE FALSE
    BY <1>4
  <2>1. PICK k \in T : \A j \in T : k <= j
    BY LeastNumber
  <2>2. k # n
    OBVIOUS
  <2>3. k - 1 \in Nat /\ k - 1 \notin T /\ n <= k - 1 /\ k - 1 + 1 = k
    BY <2>1, <2>2
  <2>4. near[k] = Around(table, near[k - 1])
    BY <1>1, <2>3
  <2>5. near[n] \subseteq near[k - 1] /\ near[k - 1] \subseteq near[k]
    BY <2>3, <2>4 DEF Around
  <2> QED
    BY <2>5
<1> QED
  BY <1>3, <1>4 DEF near, wider

\* What is met one step further than S, which is met in n steps from a.
Onward(pairs, way, a, n, S) ==
    S \cup Lineage!Adjacent(pairs, way, IF n = 0 THEN {a} ELSE S)

(* The assets met from an asset, depth by depth.                            *)
LEMMA MetStep ==
  ASSUME NEW pairs \in SUBSET (Assets \X Assets), NEW way, NEW a \in Assets
  PROVE  /\ Lineage!Met(pairs, way, a) \in [Nat -> SUBSET Assets]
         /\ Lineage!Met(pairs, way, a)[0] = {}
         /\ \A n \in Nat : Lineage!Met(pairs, way, a)[n + 1]
               = Onward(pairs, way, a, n, Lineage!Met(pairs, way, a)[n])
<1> DEFINE From(n, S) == S \cup Lineage!Adjacent(pairs, way, IF n = 1 THEN {a} ELSE S)
           G == [n \in Nat |-> [S \in SUBSET Assets |-> From(n, S)]]
           Defines(g) == g = [n \in Nat |-> IF n = 0 THEN {} ELSE From(n, g[n - 1])]
<1>1. ASSUME NEW S \in SUBSET Assets, NEW n PROVE From(n, S) \in SUBSET Assets
  BY DEF Lineage!Adjacent
<1>2. Lineage!Met(pairs, way, a) = CHOOSE g : Defines(g)
  BY DEF Lineage!Met
<1> HIDE DEF From
<1>3. G \in [Nat -> [SUBSET Assets -> SUBSET Assets]]
  BY <1>1
<1>4. PICK f \in [Nat -> SUBSET Assets] :
        f[0] = {} /\ \A n \in Nat : f[n + 1] = G[n + 1][f[n]]
  <2> DEFINE V == SUBSET Assets
  <2>1. {} \in V /\ Steps(G, V)
    BY <1>3 DEF Steps
  <2>2. \E f : Follows(f, {}, G, V)
    <3> HIDE DEF G, V
    <3> QED
      BY <2>1, Recursion
  <2> QED
    BY <2>2 DEF Follows
<1>5. Defines(f)
  <2>1. ASSUME NEW n \in Nat, n # 0 PROVE f[n] = From(n, f[n - 1])
    <3>1. n - 1 \in Nat /\ n - 1 + 1 = n
      BY <2>1
    <3>2. f[n] = G[n][f[n - 1]]
      BY <1>4, <3>1
    <3> QED
      BY <3>1, <3>2
  <2> QED
    BY <1>4, <2>1
<1>6. Defines(Lineage!Met(pairs, way, a))
  BY <1>2, <1>5
<1> DEFINE met == Lineage!Met(pairs, way, a)
<1> HIDE DEF met, G
<1>7. met = [n \in Nat |-> IF n = 0 THEN {} ELSE From(n, met[n - 1])]
  BY <1>6 DEF met
<1>8. met[0] = {} /\ \A n \in Nat \ {0} : met[n] = From(n, met[n - 1])
  BY <1>7
<1>9. ASSUME NEW n \in Nat PROVE met[n + 1] = From(n + 1, met[n])
  <2>1. n + 1 \in Nat /\ n + 1 # 0 /\ n + 1 - 1 = n
    OBVIOUS
  <2> QED
    BY <1>8, <2>1
<1>10. ASSUME NEW n \in Nat PROVE met[n] \in SUBSET Assets
  <2> DEFINE T == {k \in Nat : met[k] \notin SUBSET Assets}
  <2> SUFFICES ASSUME T # {} PROVE FALSE
    OBVIOUS
  <2>1. PICK k \in T : \A m \in T : k <= m
    BY LeastNumber
  <2>2. k # 0
    BY <1>8
  <2>3. k - 1 \in Nat /\ k - 1 \notin T /\ k - 1 + 1 = k
    BY <2>1, <2>2
  <2>4. met[k] = From(k, met[k - 1])
    BY <1>8, <2>2
  <2> QED
    BY <1>1, <2>3, <2>4
<1>11. met \in [Nat -> SUBSET Assets]
  BY <1>7, <1>10
<1>12. ASSUME NEW n \in Nat
       PROVE  met[n + 1] = Onward(pairs, way, a, n, met[n])
  <2>1. n + 1 = 1 <=> n = 0
    OBVIOUS
  <2> QED
    BY <1>9, <2>1 DEF From, Onward
<1> QED
  BY <1>8, <1>11, <1>12 DEF met

(* If the pairs that leave a set of assets stay in it and are among others, *)
(* what they lead to is in the set and is met by the others as early.       *)
LEMMA MetWithin ==
  ASSUME NEW pairs \in SUBSET (Assets \X Assets), NEW others \in SUBSET (Assets \X Assets),
         NEW way \in {"up", "down"}, NEW T, NEW a \in Assets, a \in T,
         \A p \in pairs : way = "up" /\ p[2] \in T => p \in others /\ p[1] \in T,
         \A p \in pairs : way = "down" /\ p[1] \in T => p \in others /\ p[2] \in T,
         NEW n \in Nat
  PROVE  /\ Lineage!Met(pairs, way, a)[n] \subseteq T
         /\ Lineage!Met(pairs, way, a)[n] \subseteq Lineage!Met(others, way, a)[n]
<1> DEFINE met == Lineage!Met(pairs, way, a)  wider == Lineage!Met(others, way, a)
           From(ps, k, S) == Onward(ps, way, a, k, S)
           good(k) == met[k] \subseteq T /\ met[k] \subseteq wider[k]
           bad == {k \in Nat : ~ good(k)}
<1>0. ASSUME NEW ps \in SUBSET (Assets \X Assets)
      PROVE  /\ Lineage!Met(ps, way, a)[0] = {}
             /\ \A k \in Nat : Lineage!Met(ps, way, a)[k + 1]
                                 = Onward(ps, way, a, k, Lineage!Met(ps, way, a)[k])
  BY MetStep
<1>1. met[0] = {} /\ \A k \in Nat : met[k + 1] = From(pairs, k, met[k])
  BY <1>0
<1>2. wider[0] = {} /\ \A k \in Nat : wider[k + 1] = From(others, k, wider[k])
  BY <1>0
<1>3. ASSUME NEW S \in SUBSET T, NEW W, S \subseteq W
      PROVE  /\ Lineage!Adjacent(pairs, way, S) \subseteq T
             /\ Lineage!Adjacent(pairs, way, S) \subseteq Lineage!Adjacent(others, way, W)
  BY <1>3 DEF Lineage!Adjacent
<1> HIDE DEF met, wider
<1> SUFFICES ASSUME bad # {} PROVE FALSE
  BY DEF met, wider
<1>4. PICK k \in bad : \A m \in bad : k <= m
  BY LeastNumber
<1>5. k # 0
  BY <1>1, <1>2
<1>6. k - 1 \in Nat /\ k - 1 \notin bad /\ k - 1 + 1 = k
  BY <1>4, <1>5
<1>7. /\ met[k] = From(pairs, k - 1, met[k - 1])
      /\ wider[k] = From(others, k - 1, wider[k - 1])
  BY <1>1, <1>2, <1>6
<1>8. good(k - 1)
  BY <1>6
<1>9. {a} \subseteq T
  OBVIOUS
<1>10. good(k)
  <2>1. CASE k - 1 = 0
    BY <1>3, <1>7, <1>8, <1>9, <2>1 DEF Onward
  <2>2. CASE k - 1 # 0
    BY <1>3, <1>7, <1>8, <2>2 DEF Onward
  <2> QED
    BY <2>1, <2>2
<1> QED
  BY <1>10

-----------------------------------------------------------------------------
(* The traversals of the dependencies.                                      *)

\* The ends of a dependency are there, and the reader's account of what it may
\* have seen is right.
TablesInv ==
    /\ deps \subseteq Lineage!Dependency /\ DOMAIN assets \subseteq Assets
    /\ \A d \in deps : {d.up, d.down} \subseteq DOMAIN assets
    /\ pc # "idle" => /\ start \in Assets /\ kept \subseteq deps
                      /\ deps \subseteq seen /\ seen \subseteq Lineage!Dependency
    /\ pc = "idle" => edges = <<>> /\ lineage = {} /\ nodes = {}
    /\ pc \in {"idle", "storage", "visit", "expand", "fetch", "edges", "answered"}
    /\ pc = "storage" => ways = {}
    /\ pc \in {"visit", "expand", "fetch", "edges"} => ways # {}
    /\ ways \subseteq {"up", "down"}

Queued == Lineage!ToSet(queue)
Waiting == {entry.asset : entry \in Queued}
Entries == [asset : Assets, depth : Nat]

\* The walk of get_asset_lineage met each asset at a depth: no entry of the queue
\* is deeper than the first by more than one, and who has left the queue has all
\* its rows returned and its neighbours met, one deeper at most.
WalkedAt(depth) ==
    /\ \A i \in DOMAIN queue : /\ queue[i].asset \in visited
                               /\ depth[queue[i].asset] = queue[i].depth
    /\ \A i, j \in DOMAIN queue : i < j => queue[i].depth <= queue[j].depth
    /\ queue # <<>> => \A x \in visited : depth[x] <= Head(queue).depth + 1
    /\ start \in visited /\ depth[start] = 0
    /\ \A x \in visited : depth[x] <= MaxDepth
    /\ \A x \in visited : x \in Lineage!Near(lineage, start)[depth[x]]
    /\ \A x \in visited \ Waiting, d \in kept :
          depth[x] < MaxDepth /\ Lineage!Touches(d, x) =>
             /\ d \in lineage
             /\ \A y \in {d.up, d.down} : y \in visited /\ depth[y] <= depth[x] + 1
    /\ \A d \in lineage : \E x \in visited : depth[x] < MaxDepth /\ Lineage!Touches(d, x)
Walked ==
    /\ visited \subseteq Assets /\ queue \in Seq(Entries)
    /\ lineage \subseteq seen
    /\ \E depth \in [visited -> Nat] : WalkedAt(depth)

WalkInv ==
    /\ pc = "storage" \/ (pc = "answered" /\ ways = {}) => Walked
    /\ pc = "answered" /\ ways = {} => queue = <<>>

\* The rows of an asset that the command follows, in one direction or both.
Followed(x, both, table) ==
    {d \in table : ("up" \in both /\ d.down = x) \/ ("down" \in both /\ d.up = x)}
Ends(table) == {d.up : d \in table} \cup {d.down : d \in table}

\* The command has visited what it has followed or will, knows every asset it
\* visited that a kept row touches, and adds the edges of the kept rows.
Explored ==
    /\ visited \subseteq Assets /\ queue \in Seq(Assets)
    /\ start \in visited \cup Queued
    /\ pc = "expand" => current \in visited
    /\ \A x \in visited \cap Ends(kept) : x \in nodes
    /\ \A x \in visited :
          ~(pc = "expand" /\ x = current)
             => Ends(Followed(x, ways, kept)) \subseteq visited \cup Queued
    /\ pc \in {"edges", "answered"} => queue = <<>>
    /\ pc \in {"edges", "answered"} =>
          \A x \in visited \ fetching : Lineage!Pairs(Followed(x, ways, kept)) \subseteq DOMAIN edges
    /\ pc = "answered" => fetching = {}
    /\ DOMAIN edges \subseteq Lineage!Pairs(seen)

ReportInv ==
    /\ pc \in {"visit", "expand", "fetch", "edges"} => Explored
    /\ pc = "answered" /\ ways # {} => Explored

LineageInv == TablesInv /\ WalkInv /\ ReportInv

(* The rows of a query are returned in any order, each once.                *)
LEMMA OrderOfRows ==
  ASSUME NEW S, IsFiniteSet(S), NEW s \in Lineage!SetToSeqs(S)
  PROVE  s \in Seq(S) /\ Lineage!ToSet(s) = S
<1>1. Cardinality(S) \in Nat
  BY FS_CardinalityType
<1> DEFINE D == 1 .. Cardinality(S)
<1>2. s \in [D -> S] /\ \A i, j \in D : i # j => s[i] # s[j]
  BY DEF Lineage!SetToSeqs, Lineage!Cardinality, Cardinality
<1>3. s \in Injection(D, S)
  BY <1>2 DEF Injection, IsInjective
<1>4. Cardinality(D) = Cardinality(S)
  BY <1>1, FS_Interval
<1>5. s \in Surjection(D, S)
  BY <1>3, <1>4, FS_Injection
<1>6. S = {s[i] : i \in DOMAIN s}
  BY <1>2, <1>5 DEF Surjection
<1>7. s \in Seq(S)
  BY <1>1, <1>2
<1> QED
  BY <1>6, <1>7 DEF Lineage!ToSet

(* A queue and its elements.                                                *)
LEMMA QueuePops ==
  ASSUME NEW S, NEW q \in Seq(S), q # <<>>
  PROVE  /\ Tail(q) \in Seq(S) /\ Head(q) \in S
         /\ Lineage!ToSet(q) = {Head(q)} \cup Lineage!ToSet(Tail(q))
<1>1. /\ Len(q) \in Nat \ {0} /\ Head(q) = q[1] /\ Tail(q) \in Seq(S)
      /\ Len(Tail(q)) = Len(q) - 1
      /\ \A i \in 1 .. Len(q) - 1 : Tail(q)[i] = q[i + 1]
  OBVIOUS
<1>2. /\ Lineage!ToSet(q) = {q[i] : i \in 1 .. Len(q)}
      /\ Lineage!ToSet(Tail(q)) = {Tail(q)[i] : i \in 1 .. Len(q) - 1}
  <2>1. DOMAIN q = 1 .. Len(q)
    OBVIOUS
  <2>2. DOMAIN Tail(q) = 1 .. Len(Tail(q))
    BY <1>1
  <2> QED
    BY <1>1, <2>1, <2>2 DEF Lineage!ToSet
<1>3. ASSUME NEW i \in 1 .. Len(q)
      PROVE  q[i] \in {Head(q)} \cup {Tail(q)[j] : j \in 1 .. Len(q) - 1}
  <2>1. CASE i = 1
    BY <1>1, <2>1
  <2>2. CASE i # 1
    <3>1. i - 1 \in 1 .. Len(q) - 1 /\ i - 1 + 1 = i
      BY <1>1, <2>2
    <3>2. Tail(q)[i - 1] = q[i]
      BY <1>1, <3>1
    <3> QED
      BY <3>1, <3>2
  <2> QED
    BY <2>1, <2>2
<1>4. ASSUME NEW i \in 1 .. Len(q) - 1 PROVE Tail(q)[i] \in {q[j] : j \in 1 .. Len(q)}
  <2>1. i + 1 \in 1 .. Len(q)
    BY <1>1
  <2> QED
    BY <1>1, <2>1
<1>5. Head(q) \in {q[j] : j \in 1 .. Len(q)} /\ Head(q) \in S
  <2>1. 1 \in 1 .. Len(q) /\ q[1] \in S
    BY <1>1
  <2> QED
    BY <1>1, <2>1
<1> QED
  BY <1>1, <1>2, <1>3, <1>4, <1>5

(* What joins a queue comes after what is in it.                            *)
LEMMA QueueJoins ==
  ASSUME NEW S, NEW q \in Seq(S), NEW p \in Seq(S)
  PROVE  /\ q \o p \in Seq(S) /\ Len(q \o p) = Len(q) + Len(p)
         /\ \A i \in 1 .. Len(q) : (q \o p)[i] = q[i]
         /\ \A i \in 1 .. Len(p) : (q \o p)[Len(q) + i] = p[i]
         /\ \A i \in 1 .. Len(q) + Len(p) : i <= Len(q) \/ i - Len(q) \in 1 .. Len(p)
         /\ Lineage!ToSet(q \o p) = Lineage!ToSet(q) \cup Lineage!ToSet(p)
<1> DEFINE r == q \o p
<1>1. r \in Seq(S) /\ Len(r) = Len(q) + Len(p) /\ Len(q) \in Nat /\ Len(p) \in Nat
  OBVIOUS
<1>2. ASSUME NEW i \in 1 .. Len(q) PROVE r[i] = q[i] /\ i \in 1 .. Len(r)
  OBVIOUS
<1>3. ASSUME NEW i \in 1 .. Len(p) PROVE r[Len(q) + i] = p[i] /\ Len(q) + i \in 1 .. Len(r)
  OBVIOUS
<1>4. ASSUME NEW i \in 1 .. Len(q) + Len(p) PROVE i <= Len(q) \/ i - Len(q) \in 1 .. Len(p)
  BY <1>1
<1>5. /\ DOMAIN q = 1 .. Len(q) /\ DOMAIN p = 1 .. Len(p) /\ DOMAIN r = 1 .. Len(r)
  BY <1>1
<1> HIDE DEF r
<1>6. ASSUME NEW i \in 1 .. Len(r)
      PROVE  r[i] \in {q[j] : j \in 1 .. Len(q)} \cup {p[j] : j \in 1 .. Len(p)}
  <2>1. CASE i <= Len(q)
    <3>1. i \in 1 .. Len(q)
      BY <1>1, <2>1
    <3> QED
      BY <1>2, <3>1
  <2>2. CASE i - Len(q) \in 1 .. Len(p)
    <3>1. Len(q) + (i - Len(q)) = i
      BY <1>1
    <3>2. r[Len(q) + (i - Len(q))] = p[i - Len(q)]
      BY <1>3, <2>2
    <3> QED
      BY <2>2, <3>1, <3>2
  <2> QED
    BY <1>1, <1>4, <2>1, <2>2
<1>7. Lineage!ToSet(r) = Lineage!ToSet(q) \cup Lineage!ToSet(p)
  <2>1. /\ Lineage!ToSet(r) = {r[i] : i \in 1 .. Len(r)}
        /\ Lineage!ToSet(q) = {q[i] : i \in 1 .. Len(q)}
        /\ Lineage!ToSet(p) = {p[i] : i \in 1 .. Len(p)}
    BY <1>5 DEF Lineage!ToSet
  <2>2. \A x \in {q[i] : i \in 1 .. Len(q)} : x \in {r[i] : i \in 1 .. Len(r)}
    BY <1>2
  <2>3. \A x \in {p[i] : i \in 1 .. Len(p)} : x \in {r[i] : i \in 1 .. Len(r)}
    BY <1>3
  <2> QED
    BY <1>6, <2>1, <2>2, <2>3
<1> QED
  BY <1>1, <1>2, <1>3, <1>4, <1>7 DEF r

(* Every change of the tables keeps their foreign keys, and a reader's      *)
(* account of what was kept and seen.                                       *)
LEMMA TablesStep ==
  TablesInv /\ [Lineage!Next]_lineageVars => TablesInv'
<1> SUFFICES ASSUME TablesInv, [Lineage!Next]_lineageVars PROVE TablesInv'
  OBVIOUS
<1>1. ASSUME Lineage!Change
      PROVE  /\ deps' \subseteq Lineage!Dependency /\ DOMAIN assets' \subseteq Assets
             /\ \A d \in deps' : {d.up, d.down} \subseteq DOMAIN assets'
  <2>1. ASSUME NEW a \in Assets, NEW name \in Names,
               Lineage!CreateAsset(a, name) \/ Lineage!UpdateAsset(a, name)
        PROVE  deps' = deps /\ DOMAIN assets \subseteq DOMAIN assets'
               /\ DOMAIN assets' \subseteq Assets
    BY <2>1 DEF TablesInv, Lineage!CreateAsset, Lineage!UpdateAsset
  <2>2. ASSUME NEW a \in Assets, Lineage!DeleteAsset(a)
        PROVE  /\ deps' = {d \in deps : ~ Lineage!Touches(d, a)}
               /\ DOMAIN assets' = DOMAIN assets \ {a}
    BY <2>2 DEF Lineage!DeleteAsset, Lineage!Restrict
  <2>3. ASSUME NEW a \in Assets, Lineage!DeleteDependenciesFor(a)
        PROVE  deps' \subseteq deps /\ assets' = assets
    BY <2>3 DEF Lineage!DeleteDependenciesFor
  <2>4. ASSUME NEW d \in Lineage!Dependency, Lineage!CreateDependency(d)
        PROVE  /\ deps' = deps \cup {d} /\ assets' = assets
               /\ {d.up, d.down} \subseteq DOMAIN assets
    BY <2>4 DEF Lineage!CreateDependency
  <2>5. ASSUME NEW d \in Lineage!Dependency, Lineage!DeleteDependency(d)
        PROVE  deps' \subseteq deps /\ assets' = assets
    BY <2>5 DEF Lineage!DeleteDependency
  <2>6. CASE \E a \in Assets, name \in Names :
                Lineage!CreateAsset(a, name) \/ Lineage!UpdateAsset(a, name)
    <3>1. PICK a \in Assets, name \in Names :
             Lineage!CreateAsset(a, name) \/ Lineage!UpdateAsset(a, name)
      BY <2>6
    <3>2. deps' = deps /\ DOMAIN assets \subseteq DOMAIN assets' /\ DOMAIN assets' \subseteq Assets
      BY <2>1, <3>1
    <3> QED
      BY <3>2 DEF TablesInv
  <2>7. CASE \E a \in Assets : Lineage!DeleteAsset(a)
    <3>1. PICK a \in Assets : Lineage!DeleteAsset(a)
      BY <2>7
    <3>2. /\ \A d : d \in deps' => d \in deps /\ d.up # a /\ d.down # a
          /\ deps' \subseteq deps /\ DOMAIN assets' = DOMAIN assets \ {a}
      BY <2>2, <3>1 DEF Lineage!Touches
    <3>3. \A d \in deps' : {d.up, d.down} \subseteq DOMAIN assets \ {a}
      BY <3>2 DEF TablesInv
    <3> QED
      BY <3>2, <3>3 DEF TablesInv
  <2>8. CASE \E a \in Assets : Lineage!DeleteDependenciesFor(a)
    BY <2>3, <2>8 DEF TablesInv
  <2>9. CASE \E d \in Lineage!Dependency : Lineage!CreateDependency(d)
    BY <2>4, <2>9 DEF TablesInv
  <2>10. CASE \E d \in Lineage!Dependency : Lineage!DeleteDependency(d)
    BY <2>5, <2>10 DEF TablesInv
  <2> QED
    BY <1>1, <2>6, <2>7, <2>8, <2>9, <2>10 DEF Lineage!Change
<1>2. CASE Lineage!ChangeCatalog
  <2>1. /\ pc \notin {"idle", "answered"} /\ Lineage!Change
        /\ kept' = kept \cap deps' /\ seen' = seen \cup deps'
        /\ UNCHANGED <<pc, start, ways, edges, lineage, nodes>>
    BY <1>2 DEF Lineage!ChangeCatalog, Lineage!readVars
  <2> QED
    BY <1>1, <2>1 DEF TablesInv
<1>3. ASSUME NEW a \in Assets, Lineage!BeginStorage(a) PROVE TablesInv'
  BY <1>3 DEF TablesInv, Lineage!BeginStorage, Lineage!Begin, Lineage!catalogVars
<1>4. ASSUME NEW a \in Assets, NEW flags \in SUBSET {"up", "down"},
             Lineage!BeginCommand(a, flags)
      PROVE  TablesInv'
  BY <1>4 DEF TablesInv, Lineage!BeginCommand, Lineage!Begin, Lineage!catalogVars
<1>5. ASSUME Lineage!Quiet, UNCHANGED <<start, ways>>, pc # "idle",
             pc' \in {"visit", "expand", "fetch", "edges", "answered"} \/ pc' = pc,
             pc = "storage" => pc' \in {"storage", "answered"},
             pc' \in {"visit", "expand", "fetch", "edges"} => ways # {}
      PROVE  TablesInv'
  BY <1>5 DEF TablesInv, Lineage!Quiet, Lineage!catalogVars
<1>6. CASE Lineage!VisitStorage
  BY <1>5, <1>6 DEF TablesInv, Lineage!VisitStorage
<1>7. CASE Lineage!AnswerStorage
  BY <1>5, <1>7 DEF TablesInv, Lineage!AnswerStorage
<1>8. CASE Lineage!Skip
  BY <1>5, <1>8 DEF TablesInv, Lineage!Skip
<1>9. CASE Lineage!Visit
  <2>1. /\ pc = "visit" /\ pc' \in {"visit", "expand"} /\ Lineage!Quiet
        /\ UNCHANGED <<start, ways>>
    BY <1>9 DEF Lineage!Visit
  <2> QED
    BY <1>5, <2>1 DEF TablesInv
<1>10. CASE Lineage!Expand
  <2>1. /\ pc = "expand" /\ pc' \in {"visit", "fetch"} /\ Lineage!Quiet
        /\ UNCHANGED <<start, ways>>
    BY <1>10 DEF Lineage!Expand
  <2> QED
    BY <1>5, <2>1 DEF TablesInv
<1>11. ASSUME NEW a \in Assets, Lineage!Fetch(a) PROVE TablesInv'
  <2>1. /\ pc = "fetch" /\ pc' \in {"visit", "fetch"} /\ Lineage!Quiet
        /\ UNCHANGED <<start, ways>>
    BY <1>11 DEF Lineage!Fetch
  <2> QED
    BY <1>5, <2>1 DEF TablesInv
<1>12. CASE Lineage!BeginEdges
  BY <1>5, <1>12 DEF TablesInv, Lineage!BeginEdges
<1>13. ASSUME NEW a \in Assets, Lineage!AddEdges(a) PROVE TablesInv'
  BY <1>5, <1>13 DEF TablesInv, Lineage!AddEdges
<1>14. CASE Lineage!AnswerCommand
  BY <1>5, <1>14 DEF TablesInv, Lineage!AnswerCommand
<1>15. CASE Lineage!Forget
  BY <1>15 DEF TablesInv, Lineage!Forget, Lineage!catalogVars
<1>16. CASE UNCHANGED lineageVars
  BY <1>16 DEF TablesInv, lineageVars
<1> QED
  BY <1>2, <1>3, <1>4, <1>6, <1>7, <1>8, <1>9, <1>10, <1>11, <1>12, <1>13, <1>14, <1>15,
     <1>16 DEF Lineage!Next

(* Others change the tables: less was there all along, and more was seen.   *)
LEMMA WalkStays ==
  ASSUME Walked, kept' \subseteq kept, seen \subseteq seen',
         UNCHANGED <<start, queue, visited, lineage>>
  PROVE  Walked'
<1>1. PICK depth \in [visited -> Nat] : WalkedAt(depth)
  BY DEF Walked
<1>2. WalkedAt(depth)'
  BY <1>1 DEF WalkedAt, Waiting, Queued
<1> QED
  BY <1>2 DEF Walked

(* The walk begins with the asset asked about, at depth 0.                  *)
LEMMA WalkBegins ==
  ASSUME TablesInv, NEW a \in Assets, Lineage!BeginStorage(a)
  PROVE  Walked'
<1> DEFINE depth == [y \in {a} |-> 0]  entry == [asset |-> a, depth |-> 0]
<1>1. /\ queue' = <<entry>> /\ visited' = {a} /\ lineage' = {} /\ start' = a /\ seen' = deps
  BY DEF TablesInv, Lineage!BeginStorage, Lineage!Begin
<1>2. entry \in Entries /\ entry.asset = a /\ entry.depth = 0
  BY DEF Entries
<1> HIDE DEF entry
<1>3. /\ queue' \in Seq(Entries) /\ DOMAIN queue' = {1} /\ queue'[1] = entry
      /\ Head(queue') = entry /\ Waiting' = {a}
  BY <1>1, <1>2 DEF Waiting, Queued, Lineage!ToSet
<1>4. a \in Lineage!Near({}, a)[0]
  BY NearStep
<1>5. depth \in [visited' -> Nat] /\ depth[a] = 0 /\ MaxDepth \in Nat
  BY <1>1, LineageAssumption
<1> HIDE DEF depth
<1>6. WalkedAt(depth)'
  BY <1>1, <1>2, <1>3, <1>4, <1>5 DEF WalkedAt
<1> QED
  BY <1>1, <1>3, <1>5, <1>6 DEF Walked

(* The asset at the head of the queue is the nearest of those waiting.      *)
LEMMA WalkVisits ==
  ASSUME TablesInv, Walked, Lineage!VisitStorage
  PROVE  Walked'
<1> DEFINE x == Head(queue).asset  k == Head(queue).depth  rest == Tail(queue)
           left == {entry.asset : entry \in Lineage!ToSet(rest)}
<1>1. PICK depth \in [visited -> Nat] : WalkedAt(depth)
  BY DEF Walked
<1>2. /\ queue \in Seq(Entries) /\ queue # <<>> /\ visited \subseteq Assets
      /\ lineage \subseteq seen /\ start \in Assets /\ kept \subseteq deps
      /\ deps \subseteq seen /\ seen \subseteq Lineage!Dependency /\ MaxDepth \in Nat
      /\ UNCHANGED <<start, kept, seen>>
  BY LineageAssumption DEF Lineage!VisitStorage, Lineage!Quiet, Walked, TablesInv
<1>3. /\ Head(queue) \in Entries /\ rest \in Seq(Entries)
      /\ Lineage!ToSet(queue) = {Head(queue)} \cup Lineage!ToSet(rest)
  BY <1>2, QueuePops
<1>4. /\ Len(rest) \in Nat /\ DOMAIN rest = 1 .. Len(rest) /\ Head(queue) = queue[1]
      /\ DOMAIN queue = 1 .. Len(rest) + 1
      /\ \A i \in DOMAIN rest : rest[i] = queue[i + 1] /\ rest[i] \in Entries
  BY <1>2
<1>5. x \in visited /\ k \in Nat /\ depth[x] = k
  <2>1. 1 \in DOMAIN queue
    BY <1>4
  <2> QED
    BY <1>1, <1>3, <1>4, <2>1 DEF WalkedAt, Entries
<1>6. /\ \A y \in visited : depth[y] \in Nat /\ depth[y] <= k + 1 /\ depth[y] <= MaxDepth
      /\ k <= MaxDepth
  BY <1>1, <1>2, <1>5 DEF WalkedAt
<1>7. \A i \in DOMAIN rest :
         /\ rest[i].asset \in visited /\ depth[rest[i].asset] = rest[i].depth
         /\ rest[i].depth \in Nat /\ k <= rest[i].depth /\ rest[i].depth <= k + 1
  <2>1. ASSUME NEW i \in DOMAIN rest
        PROVE  /\ i + 1 \in DOMAIN queue /\ 1 \in DOMAIN queue /\ 1 < i + 1
    BY <1>4
  <2>2. ASSUME NEW i \in DOMAIN rest
        PROVE  /\ rest[i].asset \in visited /\ depth[rest[i].asset] = rest[i].depth
               /\ rest[i].depth \in Nat /\ queue[1].depth <= queue[i + 1].depth
    BY <1>1, <1>4, <2>1 DEF WalkedAt, Entries
  <2> QED
    BY <1>4, <1>6, <2>2
<1>8. \A i, j \in DOMAIN rest : i < j => rest[i].depth <= rest[j].depth
  <2>1. ASSUME NEW i \in DOMAIN rest, NEW j \in DOMAIN rest, i < j
        PROVE  i + 1 \in DOMAIN queue /\ j + 1 \in DOMAIN queue /\ i + 1 < j + 1
    BY <1>4, <2>1
  <2> QED
    BY <1>1, <1>4, <2>1 DEF WalkedAt
<1>9. Waiting = {x} \cup left
  BY <1>3 DEF Waiting, Queued
<1>10. \A y \in visited, d \in kept :
          y # x /\ y \notin left /\ depth[y] < MaxDepth /\ Lineage!Touches(d, y) =>
             /\ d \in lineage
             /\ \A z \in {d.up, d.down} : z \in visited /\ depth[z] <= depth[y] + 1
  BY <1>1, <1>9 DEF WalkedAt
<1> HIDE DEF left, rest, x, k
<1>11. CASE Lineage!TooDeep(k)
  <2>1. queue' = rest /\ UNCHANGED <<visited, lineage>> /\ k >= MaxDepth
    BY <1>11 DEF Lineage!VisitStorage, x, k, rest, Lineage!TooDeep
  <2>2. Waiting' = left
    BY <2>1 DEF Waiting, Queued, left
  <2>3. queue' # <<>> => Head(queue') = rest[1] /\ 1 \in DOMAIN rest
    BY <1>3, <1>4, <2>1 DEF rest
  <2>4. queue' # <<>> => \A y \in visited : depth[y] <= Head(queue').depth + 1
    BY <1>5, <1>6, <1>7, <2>3
  <2>5. \A y \in visited' \ Waiting', d \in kept' :
          depth[y] < MaxDepth /\ Lineage!Touches(d, y) =>
             /\ d \in lineage'
             /\ \A z \in {d.up, d.down} : z \in visited' /\ depth[z] <= depth[y] + 1
    BY <1>2, <1>5, <1>6, <1>10, <2>1, <2>2
  <2>6. WalkedAt(depth)'
    BY <1>1, <1>2, <1>7, <1>8, <2>1, <2>4, <2>5 DEF WalkedAt
  <2> QED
    BY <1>2, <1>3, <2>1, <2>6 DEF Walked, rest
<1>12. CASE ~ Lineage!TooDeep(k)
  <2> DEFINE R == Lineage!Reached(x)
             new == Lineage!UpstreamRows(x) \cup Lineage!DownstreamRows(x)
             deeper == [y \in visited \cup R |-> IF y \in visited THEN depth[y] ELSE k + 1]
  <2>1. /\ lineage' = lineage \cup new /\ visited' = visited \cup R /\ k < MaxDepth
        /\ \E found \in Lineage!SetToSeqs(R) :
              queue' = rest \o [i \in DOMAIN found |-> [asset |-> found[i], depth |-> k + 1]]
    <3>1. /\ lineage' = lineage \cup Lineage!UpstreamRows(x) \cup Lineage!DownstreamRows(x)
          /\ visited' = visited \cup Lineage!Reached(x)
          /\ \E found \in Lineage!SetToSeqs(Lineage!Reached(x)) :
                queue' = rest \o [i \in DOMAIN found |-> [asset |-> found[i], depth |-> k + 1]]
      BY <1>12 DEF Lineage!VisitStorage, x, k, rest
    <3>2. k < MaxDepth
      BY <1>2, <1>5, <1>12 DEF Lineage!TooDeep
    <3> QED
      BY <3>1, <3>2
  <2>2. /\ \A d : d \in new <=> d \in deps /\ Lineage!Touches(d, x)
        /\ \A y \in R : y \notin visited
        /\ \A d \in new : {d.up, d.down} \subseteq visited \cup R
        /\ \A y \in R : \E d \in new : y \in {d.up, d.down}
    BY <1>5 DEF Lineage!Reached, Lineage!UpstreamRows, Lineage!DownstreamRows, Lineage!Touches
  <2>3. R \subseteq Assets /\ new \subseteq seen
    BY <1>2, <2>2 DEF Lineage!Dependency
  <2> HIDE DEF R, new
  <2>4. PICK depth2 \in [visited' -> Nat] :
           /\ \A y \in visited : depth2[y] = depth[y]
           /\ \A y \in R : depth2[y] = k + 1
    <3>1. /\ deeper \in [visited' -> Nat]
          /\ \A y \in visited : deeper[y] = depth[y]
          /\ \A y \in R : deeper[y] = k + 1
      BY <1>5, <1>6, <2>1, <2>2
    <3> QED
      BY <3>1
  <2> HIDE DEF deeper
  <2>5. PICK found \in Lineage!SetToSeqs(R) :
           queue' = rest \o [i \in DOMAIN found |-> [asset |-> found[i], depth |-> k + 1]]
    BY <2>1
  <2> DEFINE e == [i \in DOMAIN found |-> [asset |-> found[i], depth |-> k + 1]]
  <2>6. found \in Seq(R) /\ Lineage!ToSet(found) = R
    <3>1. IsFiniteSet(R)
      BY <2>3, LineageAssumption, FS_Subset
    <3> QED
      BY <3>1, OrderOfRows
  <2>7. /\ e \in Seq(Entries) /\ DOMAIN e = DOMAIN found
        /\ DOMAIN e = 1 .. Len(e) /\ Len(e) \in Nat
        /\ \A i \in DOMAIN e : e[i].asset \in R /\ e[i].depth = k + 1
    <3>1. found \in Seq(Assets) /\ DOMAIN found = 1 .. Len(found) /\ Len(found) \in Nat
      BY <2>3, <2>6
    <3>2. \A i \in DOMAIN found : found[i] \in R
      BY <2>6
    <3>3. \A i \in DOMAIN found : [asset |-> found[i], depth |-> k + 1] \in Entries
      BY <1>5, <2>3, <3>2 DEF Entries
    <3>4. e \in [1 .. Len(found) -> Entries]
      BY <3>1, <3>3
    <3>5. e \in Seq(Entries)
      BY <3>1, <3>4
    <3> QED
      BY <3>1, <3>2, <3>5
  <2>8. {entry.asset : entry \in Lineage!ToSet(e)} = R
    BY <2>6, <2>7 DEF Lineage!ToSet
  <2> HIDE DEF e
  <2>9. queue' = rest \o e
    BY <2>5 DEF e
  <2>10. /\ queue' \in Seq(Entries) /\ Len(queue') = Len(rest) + Len(e)
         /\ DOMAIN queue' = 1 .. Len(rest) + Len(e)
         /\ \A i \in 1 .. Len(rest) : queue'[i] = rest[i]
         /\ \A i \in 1 .. Len(e) : queue'[Len(rest) + i] = e[i]
         /\ \A i \in 1 .. Len(rest) + Len(e) : i <= Len(rest) \/ i - Len(rest) \in 1 .. Len(e)
         /\ Lineage!ToSet(queue') = Lineage!ToSet(rest) \cup Lineage!ToSet(e)
    <3>1. /\ rest \o e \in Seq(Entries) /\ Len(rest \o e) = Len(rest) + Len(e)
          /\ \A i \in 1 .. Len(rest) : (rest \o e)[i] = rest[i]
          /\ \A i \in 1 .. Len(e) : (rest \o e)[Len(rest) + i] = e[i]
          /\ \A i \in 1 .. Len(rest) + Len(e) : i <= Len(rest) \/ i - Len(rest) \in 1 .. Len(e)
          /\ Lineage!ToSet(rest \o e) = Lineage!ToSet(rest) \cup Lineage!ToSet(e)
      BY <1>3, <2>7, QueueJoins
    <3>2. DOMAIN (rest \o e) = 1 .. Len(rest \o e)
      BY <3>1
    <3> QED
      BY <2>9, <3>1, <3>2
  <2>11. Waiting' = left \cup R
    BY <2>8, <2>10 DEF Waiting, Queued, left
  <2>12. ASSUME NEW i \in DOMAIN queue'
         PROVE  \/ i \in DOMAIN rest /\ queue'[i] = rest[i]
                \/ i > Len(rest) /\ queue'[i].asset \in R /\ queue'[i].depth = k + 1
    <3>1. CASE i <= Len(rest)
      BY <1>4, <2>10, <3>1
    <3>2. CASE i - Len(rest) \in 1 .. Len(e) /\ i > Len(rest)
      <4>1. Len(rest) + (i - Len(rest)) = i
        BY <1>4, <2>10
      <4> QED
        BY <2>7, <2>10, <3>2, <4>1
    <3> QED
      BY <1>4, <2>7, <2>10, <3>1, <3>2
  <2>13. \A i \in DOMAIN queue' :
            /\ queue'[i].asset \in visited' /\ depth2[queue'[i].asset] = queue'[i].depth
            /\ queue'[i].depth \in Nat /\ k <= queue'[i].depth /\ queue'[i].depth <= k + 1
    <3> SUFFICES ASSUME NEW i \in DOMAIN queue'
                 PROVE  /\ queue'[i].asset \in visited'
                        /\ depth2[queue'[i].asset] = queue'[i].depth
                        /\ queue'[i].depth \in Nat /\ k <= queue'[i].depth
                        /\ queue'[i].depth <= k + 1
      OBVIOUS
    <3>1. CASE i \in DOMAIN rest /\ queue'[i] = rest[i]
      BY <1>7, <2>1, <2>4, <3>1
    <3>2. CASE queue'[i].asset \in R /\ queue'[i].depth = k + 1
      BY <1>5, <2>1, <2>4, <3>2
    <3> QED
      BY <2>12, <3>1, <3>2
  <2>14. \A i, j \in DOMAIN queue' : i < j => queue'[i].depth <= queue'[j].depth
    <3> SUFFICES ASSUME NEW i \in DOMAIN queue', NEW j \in DOMAIN queue', i < j
                 PROVE  queue'[i].depth <= queue'[j].depth
      OBVIOUS
    <3>1. CASE j \in DOMAIN rest /\ queue'[j] = rest[j]
      <4>1. i \in DOMAIN rest /\ queue'[i] = rest[i]
        BY <1>4, <2>10, <3>1
      <4> QED
        BY <1>8, <3>1, <4>1
    <3>2. CASE queue'[j].depth = k + 1
      BY <2>13, <3>2
    <3> QED
      BY <2>12, <3>1, <3>2
  <2>15. \A y \in visited' : depth2[y] \in Nat /\ depth2[y] <= k + 1 /\ depth2[y] <= MaxDepth
    BY <1>2, <1>5, <1>6, <2>1, <2>4
  <2>16. queue' # <<>> => \A y \in visited' : depth2[y] <= Head(queue').depth + 1
    <3>1. queue' # <<>> => Head(queue') = queue'[1] /\ 1 \in DOMAIN queue'
      BY <2>10
    <3> QED
      BY <1>5, <2>13, <2>15, <3>1
  <2>17. ASSUME NEW y \in visited' PROVE y \in Lineage!Near(lineage', start)[depth2[y]]
    <3>1. /\ lineage \in SUBSET Lineage!Dependency /\ lineage' \in SUBSET Lineage!Dependency
          /\ lineage \subseteq lineage'
      BY <1>2, <2>1, <2>3
    <3>2. ASSUME NEW z \in visited PROVE z \in Lineage!Near(lineage', start)[depth[z]]
      <4>1. z \in Lineage!Near(lineage, start)[depth[z]]
        BY <1>1 DEF WalkedAt
      <4> QED
        BY <1>2, <1>6, <3>1, <4>1, NearGrows
    <3>3. CASE y \in visited
      BY <2>4, <3>2, <3>3
    <3>4. CASE y \in R
      <4>1. PICK d \in new : y \in {d.up, d.down}
        BY <2>2, <3>4
      <4>2. y # x /\ Lineage!Touches(d, x) /\ d \in lineage'
        BY <1>5, <2>1, <2>2, <3>4
      <4>3. x \in Lineage!Near(lineage', start)[k]
        BY <1>5, <3>2
      <4>4. y \in Around(lineage', Lineage!Near(lineage', start)[k])
        BY <4>1, <4>2, <4>3 DEF Around, Lineage!Touches
      <4> QED
        <5>1. Lineage!Near(lineage', start)[k + 1] = Around(lineage', Lineage!Near(lineage', start)[k])
          <6>1. k \in Nat
            BY <1>5
          <6>2. start \in Assets
            BY <1>2
          <6> QED
            BY <3>1, <6>1, <6>2, NearStep
        <5> QED
          BY <2>4, <3>4, <4>4, <5>1
    <3> QED
      BY <2>1, <3>3, <3>4
  <2>18. ASSUME NEW y \in visited' \ Waiting', NEW d \in kept, depth2[y] < MaxDepth,
                Lineage!Touches(d, y)
         PROVE  /\ d \in lineage'
                /\ \A z \in {d.up, d.down} : z \in visited' /\ depth2[z] <= depth2[y] + 1
    <3>1. y \in visited /\ y \notin left /\ depth2[y] = depth[y]
      BY <2>1, <2>4, <2>11
    <3>2. CASE y = x
      <4>1. d \in new
        BY <1>2, <2>2, <2>18, <3>2
      <4> QED
        BY <1>5, <2>1, <2>2, <2>15, <3>1, <3>2, <4>1
    <3>3. CASE y # x
      BY <1>10, <2>1, <2>4, <2>18, <3>1, <3>3
    <3> QED
      BY <3>2, <3>3
  <2>19. \A d \in lineage' : \E y \in visited' : depth2[y] < MaxDepth /\ Lineage!Touches(d, y)
    <3>1. \A d \in lineage : \E y \in visited : depth[y] < MaxDepth /\ Lineage!Touches(d, y)
      BY <1>1 DEF WalkedAt
    <3>2. \A d \in new : Lineage!Touches(d, x)
      BY <2>2
    <3> QED
      BY <1>5, <2>1, <2>4, <3>1, <3>2
  <2>20. start' \in visited' /\ depth2[start'] = 0
    BY <1>1, <1>2, <2>1, <2>4 DEF WalkedAt
  <2>21. WalkedAt(depth2)'
    <3>1. \A i \in DOMAIN queue' : /\ queue'[i].asset \in visited'
                                   /\ depth2[queue'[i].asset] = queue'[i].depth
      BY <2>13
    <3>2. \A y \in visited' : depth2[y] <= MaxDepth
      BY <2>15
    <3>3. \A y \in visited' : y \in Lineage!Near(lineage', start')[depth2[y]]
      BY <1>2, <2>17
    <3>4. \A y \in visited' \ Waiting', d \in kept' :
             depth2[y] < MaxDepth /\ Lineage!Touches(d, y) =>
                /\ d \in lineage'
                /\ \A z \in {d.up, d.down} : z \in visited' /\ depth2[z] <= depth2[y] + 1
      BY <1>2, <2>18
    <3> QED
      BY <2>14, <2>16, <2>19, <2>20, <3>1, <3>2, <3>3, <3>4 DEF WalkedAt
  <2>22. visited' \subseteq Assets /\ lineage' \subseteq seen'
    BY <1>2, <2>1, <2>3
  <2> QED
    <3>1. \E d \in [visited' -> Nat] : WalkedAt(d)'
      BY <2>4, <2>21
    <3> QED
      BY <2>10, <2>22, <3>1 DEF Walked
<1> QED
  BY <1>11, <1>12

(* A step of the storage's walk, or of another traversal.                   *)
LEMMA WalkStep ==
  TablesInv /\ WalkInv /\ [Lineage!Next]_lineageVars => WalkInv'
<1> SUFFICES ASSUME TablesInv, WalkInv, [Lineage!Next]_lineageVars PROVE WalkInv'
  OBVIOUS
<1>1. CASE Lineage!ChangeCatalog
  <2>1. /\ pc \notin {"idle", "answered"} /\ kept' \subseteq kept /\ seen \subseteq seen'
        /\ UNCHANGED <<pc, start, ways, queue, visited, lineage>>
    BY <1>1 DEF Lineage!ChangeCatalog, Lineage!readVars
  <2>2. Walked => Walked'
    BY <2>1, WalkStays
  <2> QED
    BY <2>1, <2>2 DEF WalkInv
<1>2. ASSUME NEW a \in Assets, Lineage!BeginStorage(a) PROVE WalkInv'
  <2>1. Walked' /\ pc' = "storage"
    BY <1>2, WalkBegins DEF Lineage!BeginStorage
  <2> QED
    BY <2>1 DEF WalkInv
<1>3. CASE Lineage!VisitStorage
  <2>1. pc = "storage" /\ pc' = "storage"
    BY <1>3 DEF Lineage!VisitStorage
  <2>2. Walked'
    BY <1>3, <2>1, WalkVisits DEF WalkInv
  <2> QED
    BY <2>1, <2>2 DEF WalkInv
<1>4. CASE Lineage!AnswerStorage
  <2>1. /\ pc = "storage" /\ queue = <<>>
        /\ UNCHANGED <<start, ways, queue, visited, lineage, kept, seen>>
    BY <1>4 DEF Lineage!AnswerStorage, Lineage!Quiet
  <2>2. Walked'
    BY <2>1, WalkStays DEF WalkInv
  <2> QED
    BY <2>1, <2>2 DEF WalkInv
<1>5. ASSUME pc' \in {"idle", "visit", "expand", "fetch", "edges", "answered"},
             pc' = "answered" => ways' # {}
      PROVE  WalkInv'
  BY <1>5 DEF WalkInv
<1>6. ASSUME NEW a \in Assets, NEW flags \in SUBSET {"up", "down"},
             Lineage!BeginCommand(a, flags)
      PROVE  WalkInv'
  BY <1>5, <1>6 DEF Lineage!BeginCommand
<1>7. CASE Lineage!Skip \/ Lineage!BeginEdges \/ Lineage!Expand
  BY <1>5, <1>7 DEF Lineage!Skip, Lineage!BeginEdges, Lineage!Expand
<1>8. CASE Lineage!Visit
  BY <1>5, <1>8 DEF Lineage!Visit
<1>9. ASSUME NEW a \in Assets, Lineage!Fetch(a) \/ Lineage!AddEdges(a) PROVE WalkInv'
  BY <1>5, <1>9 DEF Lineage!Fetch, Lineage!AddEdges
<1>10. CASE Lineage!AnswerCommand
  BY <1>5, <1>10 DEF Lineage!AnswerCommand, TablesInv
<1>11. CASE Lineage!Forget
  BY <1>5, <1>11 DEF Lineage!Forget
<1>12. CASE UNCHANGED lineageVars
  <2>1. UNCHANGED <<pc, start, ways, queue, visited, lineage, kept, seen>>
    BY <1>12 DEF lineageVars
  <2>2. Walked => Walked'
    BY <2>1, WalkStays
  <2> QED
    BY <2>1, <2>2 DEF WalkInv
<1> QED
  BY <1>1, <1>2, <1>3, <1>4, <1>6, <1>7, <1>8, <1>9, <1>10, <1>11, <1>12
     DEF Lineage!Next

-----------------------------------------------------------------------------
(* The command has nothing more to read before it adds the edges.           *)
LEMMA ReportStays ==
  ASSUME Explored, kept' \subseteq kept, seen \subseteq seen',
         UNCHANGED <<pc, start, ways, queue, visited, current, fetching, nodes, edges>>
  PROVE  Explored'
<1>1. /\ Ends(kept') \subseteq Ends(kept)
      /\ \A x : Followed(x, ways, kept') \subseteq Followed(x, ways, kept)
      /\ Lineage!Pairs(seen) \subseteq Lineage!Pairs(seen')
  BY DEF Ends, Followed, Lineage!Pairs
<1>2. \A x : /\ Ends(Followed(x, ways, kept')) \subseteq Ends(Followed(x, ways, kept))
             /\ Lineage!Pairs(Followed(x, ways, kept')) \subseteq Lineage!Pairs(Followed(x, ways, kept))
  BY <1>1 DEF Ends, Lineage!Pairs
<1>3. Queued' = Queued
  BY DEF Queued
<1> QED
  <2>1. \A x \in visited' \cap Ends(kept') : x \in nodes'
    BY <1>1 DEF Explored
  <2>2. \A x \in visited' :
           ~(pc' = "expand" /\ x = current')
              => Ends(Followed(x, ways', kept')) \subseteq visited' \cup Queued'
    BY <1>2, <1>3 DEF Explored
  <2>3. pc' \in {"edges", "answered"} =>
           \A x \in visited' \ fetching' :
              Lineage!Pairs(Followed(x, ways', kept')) \subseteq DOMAIN edges'
    BY <1>2 DEF Explored
  <2> QED
    BY <1>1, <1>3, <2>1, <2>2, <2>3 DEF Explored

(* The command begins with the asset asked about.                           *)
LEMMA ReportBegins ==
  ASSUME TablesInv, NEW a \in Assets, NEW flags \in SUBSET {"up", "down"},
         Lineage!BeginCommand(a, flags)
  PROVE  Explored'
<1>1. /\ queue' = <<a>> /\ visited' = {} /\ start' = a /\ edges' = <<>> /\ pc' = "visit"
  BY DEF TablesInv, Lineage!BeginCommand, Lineage!Begin
<1>2. queue' \in Seq(Assets) /\ a \in Queued' /\ DOMAIN edges' = {}
  BY <1>1 DEF Queued, Lineage!ToSet
<1> QED
  BY <1>1, <1>2 DEF Explored

(* An asset that was visited is skipped.                                    *)
LEMMA ReportSkips ==
  ASSUME TablesInv, Explored, Lineage!Skip
  PROVE  Explored'
<1>1. /\ pc = "visit" /\ pc' = "visit" /\ queue # <<>> /\ Head(queue) \in visited
      /\ queue' = Tail(queue) /\ queue \in Seq(Assets)
      /\ UNCHANGED <<start, ways, visited, current, fetching, nodes, edges, kept, seen>>
  BY DEF Explored, Lineage!Skip, Lineage!Quiet
<1>2. queue' \in Seq(Assets) /\ Queued = {Head(queue)} \cup Queued'
  BY <1>1, QueuePops DEF Queued
<1>3. visited \cup Queued = visited' \cup Queued'
  BY <1>1, <1>2
<1> QED
  BY <1>1, <1>2, <1>3 DEF Explored

(* An asset that is not there is passed over: no row that was there all     *)
(* along touches it.                                                        *)
LEMMA ReportVisits ==
  ASSUME TablesInv, Explored, Lineage!Visit
  PROVE  Explored'
<1> DEFINE x == Head(queue)
<1>1. /\ pc = "visit" /\ queue # <<>> /\ queue' = Tail(queue) /\ queue \in Seq(Assets)
      /\ visited' = visited \cup {x} /\ pc' \in {"visit", "expand"}
      /\ UNCHANGED <<start, ways, fetching, edges, kept, seen>>
  BY DEF Explored, Lineage!Visit, Lineage!Quiet
<1>2. queue' \in Seq(Assets) /\ Queued = {x} \cup Queued' /\ x \in Assets
  BY <1>1, QueuePops DEF Queued
<1>3. visited \cup Queued = visited' \cup Queued'
  BY <1>1, <1>2
<1>4. ASSUME NEW y \in visited
      PROVE  /\ y \in Ends(kept) => y \in nodes
             /\ Ends(Followed(y, ways, kept)) \subseteq visited' \cup Queued'
  BY <1>1, <1>3 DEF Explored
<1>5. ASSUME NEW y \in Assets, y \notin DOMAIN assets
      PROVE  y \notin Ends(kept) /\ Ends(Followed(y, ways, kept)) = {}
  BY <1>1, <1>5 DEF TablesInv, Ends, Followed
<1>6. CASE x \in nodes \cup DOMAIN assets
  <2>1. pc' = "expand" /\ current' = x /\ nodes' = nodes \cup {x}
    BY <1>6 DEF Lineage!Visit
  <2>2. ASSUME NEW y \in visited', ~ (y = current')
        PROVE  Ends(Followed(y, ways', kept')) \subseteq visited' \cup Queued'
    BY <1>1, <1>4, <2>1, <2>2
  <2>3. \A y \in visited' \cap Ends(kept') : y \in nodes'
    BY <1>1, <1>4, <2>1
  <2>4. current' \in visited' /\ visited' \subseteq Assets
        /\ start' \in visited' \cup Queued' /\ DOMAIN edges' \subseteq Lineage!Pairs(seen')
    BY <1>1, <1>2, <1>3, <2>1 DEF Explored
  <2> QED
    BY <1>1, <1>2, <2>1, <2>2, <2>3, <2>4 DEF Explored
<1>7. CASE x \notin nodes \cup DOMAIN assets
  <2>1. UNCHANGED <<pc, current, nodes>>
    BY <1>7 DEF Lineage!Visit
  <2>2. ASSUME NEW y \in visited'
        PROVE  /\ y \in Ends(kept') => y \in nodes'
               /\ Ends(Followed(y, ways', kept')) \subseteq visited' \cup Queued'
    BY <1>1, <1>2, <1>4, <1>5, <1>7, <2>1
  <2>3. /\ visited' \subseteq Assets
        /\ start' \in visited' \cup Queued' /\ DOMAIN edges' \subseteq Lineage!Pairs(seen')
    BY <1>1, <1>2, <1>3 DEF Explored
  <2> QED
    BY <1>1, <1>2, <2>1, <2>2, <2>3 DEF Explored
<1> QED
  BY <1>6, <1>7

(* The neighbours of the asset visited join the queue.                      *)
LEMMA ReportExpands ==
  ASSUME TablesInv, Explored, Lineage!Expand
  PROVE  Explored'
<1> DEFINE N == Lineage!Neighbours(current)
<1>1. /\ pc = "expand" /\ pc' \in {"visit", "fetch"} /\ queue \in Seq(Assets)
      /\ visited \subseteq Assets /\ current \in visited /\ kept \subseteq deps
      /\ deps \subseteq Lineage!Dependency
      /\ UNCHANGED <<start, ways, visited, current, nodes, edges, kept, seen>>
  BY DEF TablesInv, Explored, Lineage!Expand, Lineage!Quiet
<1>2. PICK found \in Lineage!SetToSeqs(N \ visited) : queue' = queue \o found
  BY DEF Lineage!Expand
<1>3. N \subseteq Assets
  BY <1>1 DEF Lineage!Neighbours, Lineage!UpstreamRows, Lineage!DownstreamRows,
     Lineage!Dependency
<1>4. Ends(Followed(current, ways, kept)) \subseteq N \cup {current}
  BY <1>1 DEF Ends, Followed, Lineage!Neighbours, Lineage!UpstreamRows, Lineage!DownstreamRows
<1> HIDE DEF N
<1>5. found \in Seq(N \ visited) /\ Lineage!ToSet(found) = N \ visited
  <2>1. IsFiniteSet(N \ visited)
    BY <1>3, LineageAssumption, FS_Subset
  <2> QED
    BY <2>1, OrderOfRows
<1>6. found \in Seq(Assets)
  BY <1>3, <1>5
<1>7. queue' \in Seq(Assets) /\ Queued' = Queued \cup (N \ visited)
  BY <1>1, <1>2, <1>5, <1>6, QueueJoins DEF Queued
<1>8. ASSUME NEW y \in visited'
      PROVE  Ends(Followed(y, ways', kept')) \subseteq visited' \cup Queued'
  <2>1. CASE y = current
    BY <1>1, <1>4, <1>7, <2>1
  <2>2. CASE y # current
    BY <1>1, <1>7, <2>2 DEF Explored
  <2> QED
    BY <2>1, <2>2
<1> QED
  BY <1>1, <1>7, <1>8 DEF Explored

(* The details of a neighbour are read.                                     *)
LEMMA ReportFetches ==
  ASSUME TablesInv, Explored, NEW a \in Assets, Lineage!Fetch(a)
  PROVE  Explored'
<1>1. /\ pc = "fetch" /\ pc' \in {"visit", "fetch"} /\ nodes \subseteq nodes'
      /\ UNCHANGED <<start, ways, queue, visited, current, edges, kept, seen>>
  BY DEF Lineage!Fetch, Lineage!Quiet
<1>2. Queued' = Queued
  BY <1>1 DEF Queued
<1> QED
  BY <1>1, <1>2 DEF Explored

(* Nothing is queued when the second pass begins.                           *)
LEMMA ReportBeginsEdges ==
  ASSUME TablesInv, Explored, Lineage!BeginEdges
  PROVE  Explored'
<1>1. /\ pc = "visit" /\ pc' = "edges" /\ queue = <<>> /\ fetching' = visited
      /\ UNCHANGED <<start, ways, queue, visited, current, nodes, edges, kept, seen>>
  BY DEF Lineage!BeginEdges, Lineage!Quiet
<1>2. Queued' = Queued
  BY <1>1 DEF Queued
<1> QED
  BY <1>1, <1>2 DEF Explored

(* Both ends of a row that was there all along are in the graph.            *)
LEMMA ReportAddsEdges ==
  ASSUME TablesInv, Explored, NEW a \in Assets, Lineage!AddEdges(a)
  PROVE  Explored'
<1>1. /\ pc = "edges" /\ pc' = "edges" /\ fetching' = fetching \ {a} /\ a \in fetching
      /\ UNCHANGED <<start, ways, queue, visited, current, nodes, kept, seen>>
      /\ edges' = Lineage!Added(Lineage!RowsFor(a)) /\ queue = <<>>
      /\ kept \subseteq deps /\ deps \subseteq seen
  BY DEF TablesInv, Explored, Lineage!AddEdges, Lineage!Quiet
<1>2. DOMAIN edges' = DOMAIN edges \cup Lineage!Pairs(Lineage!RowsFor(a))
  BY <1>1 DEF Lineage!Added, Lineage!Pairs
<1>3. Queued = {} /\ Queued' = Queued
  BY <1>1 DEF Queued, Lineage!ToSet
<1>4. Lineage!RowsFor(a) \subseteq seen
  BY <1>1 DEF Lineage!RowsFor, Lineage!UpstreamRows, Lineage!DownstreamRows
<1>5. DOMAIN edges' \subseteq Lineage!Pairs(seen')
  BY <1>1, <1>2, <1>4 DEF Explored, Lineage!Pairs
<1>6. ASSUME a \in visited
      PROVE  Lineage!Pairs(Followed(a, ways, kept)) \subseteq DOMAIN edges'
  <2>1. ASSUME NEW d \in Followed(a, ways, kept) PROVE d \in Lineage!RowsFor(a)
    <3>1. d \in kept /\ d \in deps /\ d.up \in Ends(kept) /\ d.down \in Ends(kept)
      BY <1>1 DEF Followed, Ends
    <3>2. {d.up, d.down} \subseteq visited
      BY <1>1, <1>3, <1>6 DEF Explored, Ends
    <3>3. {d.up, d.down} \subseteq nodes
      BY <3>1, <3>2 DEF Explored
    <3> QED
      BY <3>1, <3>3 DEF Followed, Lineage!RowsFor, Lineage!UpstreamRows,
         Lineage!DownstreamRows
  <2> QED
    BY <1>2, <2>1 DEF Lineage!Pairs
<1>7. \A x \in visited' \ fetching' :
         Lineage!Pairs(Followed(x, ways', kept')) \subseteq DOMAIN edges'
  <2> SUFFICES ASSUME NEW x \in visited \ fetching'
               PROVE  Lineage!Pairs(Followed(x, ways, kept)) \subseteq DOMAIN edges'
    BY <1>1
  <2>1. CASE x = a
    BY <1>6, <2>1
  <2>2. CASE x # a
    BY <1>1, <1>2, <2>2 DEF Explored
  <2> QED
    BY <2>1, <2>2
<1> QED
  BY <1>1, <1>3, <1>5, <1>7 DEF Explored

(* The second pass has been through all visited assets.                     *)
LEMMA ReportAnswers ==
  ASSUME TablesInv, Explored, Lineage!AnswerCommand
  PROVE  Explored'
<1>1. /\ pc = "edges" /\ pc' = "answered" /\ fetching = {}
      /\ UNCHANGED <<start, ways, queue, visited, current, fetching, nodes, edges, kept, seen>>
  BY DEF Lineage!AnswerCommand, Lineage!Quiet
<1>2. Queued' = Queued
  BY <1>1 DEF Queued
<1> QED
  BY <1>1, <1>2 DEF Explored

(* A step of the command, or of another traversal.                          *)
LEMMA ReportStep ==
  TablesInv /\ ReportInv /\ [Lineage!Next]_lineageVars => ReportInv'
<1> SUFFICES ASSUME TablesInv, ReportInv, [Lineage!Next]_lineageVars PROVE ReportInv'
  OBVIOUS
<1>1. CASE Lineage!ChangeCatalog
  <2>1. /\ kept' \subseteq kept /\ seen \subseteq seen'
        /\ UNCHANGED <<pc, start, ways, queue, visited, current, fetching, nodes, edges>>
    BY <1>1 DEF Lineage!ChangeCatalog, Lineage!readVars
  <2>2. Explored => Explored'
    BY <2>1, ReportStays
  <2> QED
    BY <2>1, <2>2 DEF ReportInv
<1>2. CASE UNCHANGED lineageVars
  <2>1. UNCHANGED <<pc, start, ways, queue, visited, current, fetching, nodes, edges, kept, seen>>
    BY <1>2 DEF lineageVars
  <2>2. Explored => Explored'
    BY <2>1, ReportStays
  <2> QED
    BY <2>1, <2>2 DEF ReportInv
<1>3. ASSUME Explored' PROVE ReportInv'
  BY <1>3 DEF ReportInv
<1>4. pc \in {"visit", "expand", "fetch", "edges"} => Explored
  BY DEF ReportInv
<1>5. ASSUME NEW a \in Assets, Lineage!BeginStorage(a) PROVE ReportInv'
  BY <1>5 DEF Lineage!BeginStorage, ReportInv
<1>6. ASSUME NEW a \in Assets, NEW flags \in SUBSET {"up", "down"},
             Lineage!BeginCommand(a, flags)
      PROVE  ReportInv'
  BY <1>3, <1>6, ReportBegins
<1>7. CASE Lineage!VisitStorage
  BY <1>7 DEF Lineage!VisitStorage, ReportInv
<1>8. CASE Lineage!AnswerStorage
  BY <1>8 DEF Lineage!AnswerStorage, ReportInv, TablesInv
<1>9. CASE Lineage!Skip
  BY <1>3, <1>4, <1>9, ReportSkips DEF Lineage!Skip
<1>10. CASE Lineage!Visit
  BY <1>3, <1>4, <1>10, ReportVisits DEF Lineage!Visit
<1>11. CASE Lineage!Expand
  BY <1>3, <1>4, <1>11, ReportExpands DEF Lineage!Expand
<1>12. ASSUME NEW a \in Assets, Lineage!Fetch(a) PROVE ReportInv'
  BY <1>3, <1>4, <1>12, ReportFetches DEF Lineage!Fetch
<1>13. CASE Lineage!BeginEdges
  BY <1>3, <1>4, <1>13, ReportBeginsEdges DEF Lineage!BeginEdges
<1>14. ASSUME NEW a \in Assets, Lineage!AddEdges(a) PROVE ReportInv'
  BY <1>3, <1>4, <1>14, ReportAddsEdges DEF Lineage!AddEdges
<1>15. CASE Lineage!AnswerCommand
  BY <1>3, <1>4, <1>15, ReportAnswers DEF Lineage!AnswerCommand
<1>16. CASE Lineage!Forget
  BY <1>16 DEF Lineage!Forget, ReportInv
<1> QED
  BY <1>1, <1>2, <1>5, <1>6, <1>7, <1>8, <1>9, <1>10, <1>11, <1>12, <1>13, <1>14, <1>15,
     <1>16 DEF Lineage!Next

(* The traversals keep their invariant, from any tables there may be.       *)
LEMMA LineageHolds == Spec => []LineageInv
<1>1. Init => LineageInv
  <2> SUFFICES ASSUME Init PROVE LineageInv
    OBVIOUS
  <2>1. /\ deps \in InitialDeps /\ assets = InitialAssets /\ pc = "idle" /\ ways = {}
        /\ edges = <<>> /\ lineage = {} /\ nodes = {}
    BY DEF Init, Lineage!Init
  <2> QED
    BY <2>1, LineageAssumption
       DEF LineageInv, TablesInv, WalkInv, ReportInv, Lineage!Dependency
<1>2. LineageInv /\ [Next]_vars => LineageInv'
  BY CatalogSteps, TablesStep, WalkStep, ReportStep DEF LineageInv
<1> QED
  BY <1>1, <1>2, PTL DEF Spec

(* The walk of the storage met what is near by dependencies that stayed,    *)
(* by induction on the distance.                                            *)
LEMMA WalkedNear ==
  ASSUME TablesInv, Walked, pc # "idle", queue = <<>>
  PROVE  Lineage!LineageComplete
<1>1. PICK depth \in [visited -> Nat] : WalkedAt(depth)
  BY DEF Walked
<1>2. /\ start \in Assets /\ kept \in SUBSET Lineage!Dependency
      /\ lineage \in SUBSET Lineage!Dependency /\ lineage \subseteq seen /\ MaxDepth \in Nat
  BY LineageAssumption DEF TablesInv, Walked
<1>3. Waiting = {}
  BY DEF Waiting, Queued, Lineage!ToSet
<1>4. ASSUME NEW x \in visited, NEW d \in kept, depth[x] < MaxDepth, Lineage!Touches(d, x)
      PROVE  /\ d \in lineage
             /\ \A y \in {d.up, d.down} : y \in visited /\ depth[y] <= depth[x] + 1
  BY <1>1, <1>3, <1>4 DEF WalkedAt
<1> DEFINE near == Lineage!Near(kept, start)  returned == Lineage!Near(lineage, start)
           met(n) == \A y \in near[n] : y \in visited /\ depth[y] <= n
           missed == {n \in Nat : n <= MaxDepth /\ ~ met(n)}
<1>5. near[0] = {start} /\ \A n \in Nat : near[n + 1] = Around(kept, near[n])
  BY <1>2, NearStep
<1>6. /\ \A n \in Nat : returned[n + 1] = Around(lineage, returned[n])
      /\ \A n \in Nat : n <= MaxDepth => returned[n] \subseteq returned[MaxDepth]
  BY <1>2, NearStep, NearGrows
<1>7. start \in visited /\ depth[start] = 0
  BY <1>1 DEF WalkedAt
<1>8. \A x \in visited : x \in returned[depth[x]]
  BY <1>1 DEF WalkedAt
<1> HIDE DEF near, returned
<1>9. missed = {}
  <2> SUFFICES ASSUME missed # {} PROVE FALSE
    OBVIOUS
  <2>1. PICK n \in missed : \A m \in missed : n <= m
    BY LeastNumber
  <2>2. n # 0
    <3>1. ~ met(n)
      BY <2>1
    <3>2. near[0] = {start}
      BY <1>5
    <3> QED
      BY <1>7, <3>1, <3>2
  <2>3. n - 1 \in Nat /\ n - 1 \notin missed /\ n - 1 < MaxDepth /\ n - 1 + 1 = n
    BY <1>2, <2>1, <2>2
  <2>4. met(n - 1) /\ near[n] = Around(kept, near[n - 1])
    <3>1. n - 1 <= MaxDepth
      BY <1>2, <2>3
    <3>2. met(n - 1)
      BY <2>3, <3>1
    <3>3. near[n - 1 + 1] = Around(kept, near[n - 1])
      BY <1>5, <2>3
    <3> QED
      BY <2>3, <3>2, <3>3
  <2>5. ASSUME NEW y \in near[n] PROVE y \in visited /\ depth[y] <= n
    <3>1. CASE y \in near[n - 1]
      BY <2>3, <2>4, <3>1
    <3>2. CASE \E d \in kept : /\ y \in {d.up, d.down}
                               /\ {d.up, d.down} \cap near[n - 1] # {}
      <4>1. PICK d \in kept, x \in near[n - 1] : y \in {d.up, d.down} /\ x \in {d.up, d.down}
        BY <3>2
      <4>2. x \in visited /\ depth[x] \in Nat /\ depth[x] <= n - 1 /\ Lineage!Touches(d, x)
        BY <2>4, <4>1 DEF Lineage!Touches
      <4>3. y \in visited /\ depth[y] <= depth[x] + 1
        BY <1>2, <1>4, <2>3, <4>1, <4>2
      <4> QED
        BY <2>3, <4>2, <4>3
    <3> QED
      BY <2>4, <2>5, <3>1, <3>2 DEF Around
  <2> QED
    BY <2>1, <2>5
<1>10. ASSUME MaxDepth > 0, NEW d \in kept, {d.up, d.down} \cap near[MaxDepth - 1] # {}
       PROVE  d \in lineage
  <2>1. met(MaxDepth - 1)
    BY <1>2, <1>9, <1>10
  <2>2. PICK x \in {d.up, d.down} : x \in visited /\ depth[x] <= MaxDepth - 1
    BY <1>10, <2>1
  <2>3. depth[x] < MaxDepth /\ Lineage!Touches(d, x)
    BY <1>2, <2>2 DEF Lineage!Touches
  <2> QED
    BY <1>4, <2>2, <2>3
<1>11. ASSUME NEW d \in lineage PROVE d.up \in returned[MaxDepth]
  <2>1. PICK x \in visited : depth[x] < MaxDepth /\ Lineage!Touches(d, x)
    BY <1>1 DEF WalkedAt
  <2>2. depth[x] + 1 \in Nat /\ depth[x] + 1 <= MaxDepth
    BY <1>2, <2>1
  <2>3. d.up \in Around(lineage, returned[depth[x]])
    BY <1>8, <2>1 DEF Around, Lineage!Touches
  <2> QED
    BY <1>6, <2>2, <2>3
<1> QED
  BY <1>2, <1>10, <1>11 DEF Lineage!LineageComplete, near, returned

(* get_asset_lineage misses no dependency that was there all along within   *)
(* its depth, and returns none that was never there or is not connected,    *)
(* whatever others do to the tables between its queries: for any tables,    *)
(* depth and number of changes.                                             *)
THEOREM LineageIsComplete == Spec => []LineageComplete
<1>1. LineageInv => LineageComplete
  <2> SUFFICES ASSUME LineageInv PROVE LineageComplete
    OBVIOUS
  <2>1. CASE pc = "answered" /\ ways = {}
    BY <2>1, WalkedNear DEF LineageInv, WalkInv, LineageComplete
  <2>2. CASE ~ (pc = "answered" /\ ways = {})
    BY <2>2 DEF LineageComplete, Lineage!LineageComplete
  <2> QED
    BY <2>1, <2>2
<1> QED
  BY <1>1, LineageHolds, PTL

(* `servo lineage' reports every ancestor and descendant that was one all   *)
(* along, no deeper than it is, and none that never was, whatever others    *)
(* do to the tables between its queries: for any tables and directions.     *)
THEOREM ReportsAreRight == Spec => []ReportRight
<1>1. LineageInv => ReportRight
  <2> SUFFICES ASSUME LineageInv, pc = "answered", ways # {}, NEW way \in ways,
                      NEW n \in Lineage!Depths
               PROVE  /\ Lineage!Met(Lineage!Pairs(kept), way, start)[n]
                            \subseteq Lineage!Met(DOMAIN edges, way, start)[n]
                      /\ Lineage!Met(DOMAIN edges, way, start)[n]
                            \subseteq Lineage!Met(Lineage!Pairs(seen), way, start)[n]
    BY DEF ReportRight, Lineage!ReportRight
  <2>1. TablesInv /\ Explored
    BY DEF LineageInv, ReportInv
  <2>2. /\ start \in Assets /\ kept \subseteq Lineage!Dependency
        /\ seen \subseteq Lineage!Dependency /\ way \in {"up", "down"}
    BY <2>1 DEF TablesInv
  <2>3. /\ Lineage!Pairs(kept) \in SUBSET (Assets \X Assets)
        /\ Lineage!Pairs(seen) \in SUBSET (Assets \X Assets)
        /\ DOMAIN edges \in SUBSET (Assets \X Assets)
        /\ DOMAIN edges \subseteq Lineage!Pairs(seen)
    BY <2>1, <2>2 DEF Explored, Lineage!Pairs, Lineage!Dependency
  <2>4. n \in Nat
    <3>1. Cardinality(Assets) \in Nat
      BY LineageAssumption, FS_CardinalityType
    <3> QED
      BY <3>1 DEF Lineage!Depths, Lineage!Cardinality, Cardinality
  <2>5. /\ start \in visited /\ Queued = {} /\ fetching = {}
        /\ \A x \in visited : /\ Ends(Followed(x, ways, kept)) \subseteq visited
                              /\ Lineage!Pairs(Followed(x, ways, kept)) \subseteq DOMAIN edges
    <3>1. Queued = {}
      BY <2>1 DEF Explored, Queued, Lineage!ToSet
    <3> QED
      BY <2>1, <3>1 DEF Explored
  <2>6. ASSUME NEW p \in Lineage!Pairs(kept)
        PROVE  /\ way = "up" /\ p[2] \in visited => p \in DOMAIN edges /\ p[1] \in visited
               /\ way = "down" /\ p[1] \in visited => p \in DOMAIN edges /\ p[2] \in visited
    <3>1. PICK d \in kept : p = <<d.up, d.down>>
      BY DEF Lineage!Pairs
    <3>2. ASSUME NEW x \in visited, d \in Followed(x, ways, kept)
          PROVE  p \in DOMAIN edges /\ d.up \in visited /\ d.down \in visited
      BY <2>5, <3>1, <3>2 DEF Ends, Lineage!Pairs
    <3>3. CASE way = "up" /\ d.down \in visited
      BY <3>1, <3>2, <3>3 DEF Followed
    <3>4. CASE way = "down" /\ d.up \in visited
      BY <3>1, <3>2, <3>4 DEF Followed
    <3> QED
      BY <3>1, <3>3, <3>4
  <2> DEFINE early == Lineage!Pairs(kept)  drawn == DOMAIN edges  late == Lineage!Pairs(seen)
  <2>7. /\ {early, drawn, late} \subseteq SUBSET (Assets \X Assets)
        /\ \A p \in early : way = "up" /\ p[2] \in visited => p \in drawn /\ p[1] \in visited
        /\ \A p \in early : way = "down" /\ p[1] \in visited => p \in drawn /\ p[2] \in visited
        /\ \A p \in drawn : p \in late /\ p[1] \in Assets /\ p[2] \in Assets
    <3>1. /\ \A p \in early : way = "up" /\ p[2] \in visited => p \in drawn /\ p[1] \in visited
          /\ \A p \in early : way = "down" /\ p[1] \in visited => p \in drawn /\ p[2] \in visited
      BY <2>6
    <3>2. {early, drawn, late} \subseteq SUBSET (Assets \X Assets) /\ drawn \subseteq late
      BY <2>3
    <3> HIDE DEF early, drawn, late
    <3>3. \A p \in drawn : p \in Assets \X Assets
      BY <3>2
    <3> QED
      BY <3>1, <3>2, <3>3
  <2> HIDE DEF early, drawn, late
  <2>8. Lineage!Met(early, way, start)[n] \subseteq Lineage!Met(drawn, way, start)[n]
    BY <2>2, <2>4, <2>5, <2>7, MetWithin
  <2>9. Lineage!Met(drawn, way, start)[n] \subseteq Lineage!Met(late, way, start)[n]
    BY <2>2, <2>4, <2>7, MetWithin
  <2> QED
    BY <2>8, <2>9 DEF early, drawn, late
<1> QED
  BY <1>1, LineageHolds, PTL

-----------------------------------------------------------------------------
(* The lists that are joined, one after the other.                          *)
LEMMA Flattened ==
  ASSUME NEW S, NEW lists \in Seq(Seq(S))
  PROVE  /\ Quality!FlattenSeq(lists) \in Seq(S)
         /\ \A x : x \in Lineage!ToSet(Quality!FlattenSeq(lists))
                      <=> \E k \in DOMAIN lists : x \in Lineage!ToSet(lists[k])
<1> DEFINE n == Len(lists)  V == Seq(S)
           Defines(g) == g = [i \in 1 .. n |-> IF i = 1 THEN lists[i] ELSE g[i - 1] \o lists[i]]
<1>1. n \in Nat /\ DOMAIN lists = 1 .. n /\ \A k \in 1 .. n : lists[k] \in V
  OBVIOUS
<1>2. CASE n = 0
  <2>1. lists = <<>> /\ Quality!FlattenSeq(lists) = lists
    BY <1>2 DEF Quality!FlattenSeq
  <2>2. <<>> \in Seq(S) /\ Lineage!ToSet(<<>>) = {} /\ DOMAIN lists = {}
    BY <1>1, <1>2 DEF Lineage!ToSet
  <2> QED
    BY <2>1, <2>2
<1>3. CASE n # 0
  <2> DEFINE G == [k \in Nat |-> [s \in V |-> IF k \in 1 .. n THEN s \o lists[k] ELSE s]]
  <2>1. <<>> \in V /\ \A s \in V, t \in V : s \o t \in V
    OBVIOUS
  <2>2. \A t \in V : <<>> \o t = t
    OBVIOUS
  <2> HIDE DEF V, n
  <2>3. Steps(G, V)
    BY <1>1, <2>1 DEF Steps
  <2>4. PICK f : Follows(f, <<>>, G, V)
    <3> HIDE DEF G
    <3> QED
      BY <2>1, <2>3, Recursion
  <2>5. f \in [Nat -> V] /\ f[0] = <<>> /\ \A k \in Nat : f[k + 1] = G[k + 1][f[k]]
    BY <2>4 DEF Follows
  <2>6. ASSUME NEW k \in 1 .. n PROVE k - 1 \in Nat /\ f[k] = f[k - 1] \o lists[k]
    <3>1. k - 1 \in Nat /\ k - 1 + 1 = k /\ k \in Nat
      BY <1>1
    <3>2. f[k] = G[k][f[k - 1]] /\ f[k - 1] \in V
      BY <2>5, <3>1
    <3> QED
      BY <3>1, <3>2
  <2> DEFINE h == [i \in 1 .. n |-> f[i]]
  <2>7. Defines(h)
    <3>1. \A i \in 1 .. n : i # 1 => i - 1 \in 1 .. n
      BY <1>1
    <3>2. ASSUME NEW i \in 1 .. n
          PROVE  f[i] = IF i = 1 THEN lists[i] ELSE h[i - 1] \o lists[i]
      <4>1. CASE i = 1
        <5>1. f[1] = f[0] \o lists[1] /\ lists[1] \in V
          BY <1>1, <2>6, <4>1
        <5> QED
          BY <2>2, <2>5, <4>1, <5>1
      <4>2. CASE i # 1
        BY <2>6, <3>1, <4>2
      <4> QED
        BY <4>1, <4>2
    <3> QED
      BY <3>2
  <2> DEFINE flat == CHOOSE g : Defines(g)
  <2> HIDE DEF h
  <2>8. Quality!FlattenSeq(lists) = flat[n]
    BY <1>3 DEF Quality!FlattenSeq, n
  <2>9. Defines(flat)
    BY <2>7
  <2> HIDE DEF flat
  <2>10. \A i \in 1 .. n : flat[i] = IF i = 1 THEN lists[i] ELSE flat[i - 1] \o lists[i]
    BY <2>9
  <2> DEFINE Good(i) ==
               /\ flat[i] \in Seq(S)
               /\ \A x : x \in Lineage!ToSet(flat[i])
                            <=> \E k \in 1 .. i : x \in Lineage!ToSet(lists[k])
             bad == {i \in 1 .. n : ~ Good(i)}
  <2>11. bad = {}
    <3> SUFFICES ASSUME bad # {} PROVE FALSE
      OBVIOUS
    <3>0. bad \subseteq Nat
      BY <1>1
    <3>1. PICK i \in bad : \A j \in bad : i <= j
      BY <3>0, LeastNumber
    <3>2. i \in 1 .. n /\ i \in Nat
      BY <1>1
    <3>3. CASE i = 1
      <4>1. flat[1] = lists[1] /\ 1 .. 1 = {1} /\ lists[1] \in Seq(S)
        BY <1>1, <2>10, <3>2, <3>3 DEF V
      <4> QED
        BY <3>3, <4>1
    <3>4. CASE i # 1
      <4>1. i - 1 \in 1 .. n /\ i - 1 \notin bad /\ 1 .. i = 1 .. i - 1 \cup {i}
        <5>1. i - 1 \in 1 .. n /\ ~ (i <= i - 1)
          BY <1>1, <3>2, <3>4
        <5>2. \A k \in 1 .. i : k \in 1 .. i - 1 \/ k = i
          BY <3>2
        <5>3. \A k \in 1 .. i - 1 : k \in 1 .. i
          BY <3>2
        <5>4. i - 1 \notin bad
          BY <3>1, <5>1
        <5>5. 1 .. i = 1 .. i - 1 \cup {i}
          BY <3>2, <5>2, <5>3
        <5> QED
          BY <5>1, <5>4, <5>5
      <4>2. Good(i - 1) /\ flat[i] = flat[i - 1] \o lists[i] /\ lists[i] \in Seq(S)
        BY <1>1, <2>10, <3>2, <3>4, <4>1 DEF V
      <4>3. /\ flat[i] \in Seq(S)
            /\ Lineage!ToSet(flat[i]) = Lineage!ToSet(flat[i - 1]) \cup Lineage!ToSet(lists[i])
        BY <4>2, QueueJoins
      <4>4. Good(i)
        BY <4>1, <4>2, <4>3
      <4> QED
        BY <4>4
    <3> QED
      BY <3>3, <3>4
  <2>12. n \in 1 .. n
    BY <1>1, <1>3
  <2> QED
    BY <1>1, <2>8, <2>11, <2>12
<1> QED
  BY <1>2, <1>3

(* The rows that fail, in order.                                            *)
LEMMA RowsInOrder ==
  ASSUME NEW n \in Nat, NEW F \in SUBSET (1 .. n)
  PROVE  /\ Quality!InOrder(F, n) \in Seq(1 .. n)
         /\ Lineage!ToSet(Quality!InOrder(F, n)) = F
         /\ Quality!InOrder(F, n) = <<>> <=> F = {}
<1> DEFINE lists == [i \in 1 .. n |-> IF i \in F THEN <<i>> ELSE <<>>]
           bad == Quality!InOrder(F, n)
<1>1. \A i \in 1 .. n : <<i>> \in Seq(1 .. n) /\ Lineage!ToSet(<<i>>) = {i}
  BY DEF Lineage!ToSet
<1>2. <<>> \in Seq(1 .. n) /\ Lineage!ToSet(<<>>) = {}
  BY DEF Lineage!ToSet
<1>3. lists \in Seq(Seq(1 .. n)) /\ DOMAIN lists = 1 .. n
  <2>1. lists \in [1 .. n -> Seq(1 .. n)]
    BY <1>1, <1>2
  <2> HIDE DEF lists
  <2> QED
    BY <2>1
<1>4. \A i \in 1 .. n : Lineage!ToSet(lists[i]) = IF i \in F THEN {i} ELSE {}
  BY <1>1, <1>2
<1>5. bad = Quality!FlattenSeq(lists)
  BY DEF Quality!InOrder
<1> HIDE DEF lists, bad
<1>6. bad \in Seq(1 .. n) /\ \A x : x \in Lineage!ToSet(bad) <=> x \in F
  <2>1. /\ bad \in Seq(1 .. n)
        /\ \A x : x \in Lineage!ToSet(bad)
                     <=> \E k \in 1 .. n : x \in Lineage!ToSet(lists[k])
    BY <1>3, <1>5, Flattened
  <2> QED
    BY <1>4, <2>1
<1>7. bad # <<>> => bad[1] \in Lineage!ToSet(bad)
  <2>1. bad # <<>> => 1 \in DOMAIN bad
    BY <1>6
  <2> QED
    BY <2>1 DEF Lineage!ToSet
<1> QED
  BY <1>2, <1>6, <1>7 DEF bad

-----------------------------------------------------------------------------
(* The checks.                                                              *)

\* Rows of an asset, and what the checks see of them.
IsTable(n) == n \in Nat /\ rows \in [1 .. n -> Quality!Rows]
Data == Quality!FromRows(rows)

\* A result tells the truth about what holds of the rows, and its samples are
\* some of the n rows.
Tells(r, n, holds, runs) ==
    /\ Quality!OutcomeOf(r) = "passed" => holds
    /\ Quality!OutcomeOf(r) = "failed" => ~ holds
    /\ Quality!OutcomeOf(r) = "skipped" => ~ runs
    /\ Len(r.samples) <= MaxFailedSamples
    /\ r.samples # <<>> => \E m \in r.failed : Len(r.samples) <= m
    /\ Quality!ToSet(r.samples) \subseteq 1 .. n

(* Every column gives every row a value: null where the row has none.       *)
LEMMA Cells ==
  ASSUME NEW n, IsTable(n)
  PROVE  /\ Data.row_count = n /\ Len(rows) = n /\ DOMAIN rows = 1 .. n
         /\ DOMAIN Data.columns = Quality!AllColumns(rows)
         /\ \A c : Quality!HasColumn(Data, c) <=> c \in Quality!AllColumns(rows)
         /\ \A c \in Quality!AllColumns(rows) : DOMAIN Data.columns[c] = 1 .. n
         /\ \A c \in Quality!AllColumns(rows) : Len(Data.columns[c]) = n
         /\ \A c \in Quality!AllColumns(rows), i \in 1 .. n :
               /\ Data.columns[c][i] \in Quality!Values
               /\ Quality!IsSet(rows[i], c) <=> Data.columns[c][i] # Quality!Null
               /\ Quality!IsSet(rows[i], c) => Data.columns[c][i] = rows[i][c]
         /\ \A c : \A i \in 1 .. n : Quality!IsSet(rows[i], c) => c \in Quality!AllColumns(rows)
<1>1. n \in Nat /\ DOMAIN rows = 1 .. n /\ Len(rows) = n
  BY DEF IsTable
<1> DEFINE C == Quality!AllColumns(rows)
           cells(c) == [i \in 1 .. n |-> IF c \in DOMAIN rows[i] THEN rows[i][c]
                                                               ELSE Quality!Null]
<1>2. /\ Data.columns = [c \in C |-> cells(c)] /\ Data.row_count = n
  BY <1>1 DEF Data, Quality!FromRows
<1>3. DOMAIN Data.columns = C /\ \A c \in C : Data.columns[c] = cells(c)
  BY <1>2
<1>4. ASSUME NEW i \in 1 .. n, NEW c \in DOMAIN rows[i]
      PROVE  rows[i][c] \in Quality!Values /\ c \in C
  <2>1. PICK S \in SUBSET Columns : rows[i] \in [S -> Quality!Values]
    BY DEF IsTable, Quality!Rows
  <2> QED
    BY <1>1, <2>1 DEF Quality!AllColumns
<1>5. Quality!Null \in Quality!Values
  BY DEF Quality!Values
<1> HIDE DEF C
<1>6. ASSUME NEW c \in C, NEW i \in 1 .. n
      PROVE  /\ cells(c)[i] \in Quality!Values
             /\ Quality!IsSet(rows[i], c) <=> cells(c)[i] # Quality!Null
             /\ Quality!IsSet(rows[i], c) => cells(c)[i] = rows[i][c]
  BY <1>4, <1>5 DEF Quality!IsSet
<1>7. ASSUME NEW c \in C PROVE DOMAIN cells(c) = 1 .. n /\ Len(cells(c)) = n
  BY <1>1
<1>8. ASSUME NEW c, NEW i \in 1 .. n, Quality!IsSet(rows[i], c) PROVE c \in C
  BY <1>4, <1>8 DEF Quality!IsSet
<1> HIDE DEF cells
<1> QED
  BY <1>1, <1>2, <1>3, <1>6, <1>7, <1>8 DEF C, Quality!HasColumn

(* The first m elements of a sequence.                                      *)
LEMMA FirstOnes ==
  ASSUME NEW S, NEW s \in Seq(S), NEW m \in Nat, m <= Len(s)
  PROVE  /\ Len(SubSeq(s, 1, m)) = m /\ DOMAIN SubSeq(s, 1, m) = 1 .. m
         /\ \A i \in 1 .. m : SubSeq(s, 1, m)[i] \in S
  OBVIOUS

(* Rows found fail the check, and the first of them are its samples.        *)
LEMMA Reporting ==
  ASSUME QualityAssumption, NEW n, IsTable(n), NEW bad \in Seq(1 .. n), NEW holds, NEW runs,
         bad = <<>> <=> holds
  PROVE  Tells(Quality!Report(bad, Data), n, holds, runs)
<1>1. Data.row_count = n /\ n \in Nat /\ MaxFailedSamples \in Nat
  BY Cells, QualityAssumption DEF IsTable
<1>2. CASE bad = <<>>
  <2>1. Quality!Report(bad, Data) = [passed |-> TRUE, failed |-> {0}, total |-> {n},
                                      message |-> FALSE, samples |-> <<>>]
    BY <1>1, <1>2 DEF Quality!Report, Quality!Passed, Quality!Result
  <2> QED
    BY <1>1, <1>2, <2>1 DEF Tells, Quality!OutcomeOf, Quality!ToSet
<1>3. CASE bad # <<>>
  <2> DEFINE m == IF Len(bad) < MaxFailedSamples THEN Len(bad) ELSE MaxFailedSamples
             s == SubSeq(bad, 1, m)
  <2>1. Quality!Report(bad, Data) = [passed |-> FALSE, failed |-> {Len(bad)}, total |-> {n},
                                      message |-> TRUE, samples |-> s]
    BY <1>1, <1>3 DEF Quality!Report, Quality!FailedWithSamples, Quality!Result
  <2>2. Len(bad) \in Nat /\ m \in Nat /\ m <= Len(bad) /\ m <= MaxFailedSamples
    BY <1>1
  <2> HIDE DEF m
  <2>3. Len(s) = m /\ DOMAIN s = 1 .. m /\ \A i \in 1 .. m : s[i] \in 1 .. n
    BY <2>2, FirstOnes
  <2>4. Quality!ToSet(s) \subseteq 1 .. n
    BY <2>3 DEF Quality!ToSet
  <2> HIDE DEF s
  <2> QED
    BY <1>3, <2>1, <2>2, <2>3, <2>4 DEF Tells, Quality!OutcomeOf
<1> QED
  BY <1>2, <1>3

(* A check that cannot run is skipped.                                      *)
LEMMA Skipping ==
  ASSUME QualityAssumption, NEW n \in Nat, NEW holds, NEW runs, ~ runs
  PROVE  Tells(Quality!CannotRun, n, holds, runs)
<1>1. MaxFailedSamples \in Nat
  BY QualityAssumption
<1> QED
  BY <1>1 DEF Tells, Quality!CannotRun, Quality!Result, Quality!OutcomeOf, Quality!ToSet

(* A result without samples.                                                *)
LEMMA Counting ==
  ASSUME QualityAssumption, NEW n \in Nat, NEW k \in Nat, NEW holds, NEW runs, NEW note \in BOOLEAN
  PROVE  /\ holds => Tells(Quality!Passed(n), n, holds, runs)
         /\ ~ holds => Tells(Quality!Failed(k, n), n, holds, runs)
         /\ holds => Tells(Quality!Result(TRUE, {0}, {n}, note, <<>>), n, holds, runs)
<1>1. MaxFailedSamples \in Nat
  BY QualityAssumption
<1> QED
  BY <1>1 DEF Tells, Quality!Passed, Quality!Failed, Quality!Result, Quality!OutcomeOf,
     Quality!ToSet

(* The rows of a column with a wrong value are found.                       *)
LEMMA ColumnTells ==
  ASSUME QualityAssumption, NEW n, IsTable(n), NEW c \in Quality!AllColumns(rows), NEW Wrong,
         Quality!Null \notin Wrong, NEW holds, NEW runs,
         holds <=> \A i \in 1 .. n : Quality!IsSet(rows[i], c) => rows[i][c] \notin Wrong
  PROVE  Tells(Quality!Report(
                 Quality!InOrder({i \in DOMAIN Data.columns[c] : Data.columns[c][i] \in Wrong},
                                 Len(Data.columns[c])), Data), n, holds, runs)
<1> DEFINE F == {i \in DOMAIN Data.columns[c] : Data.columns[c][i] \in Wrong}
<1>1. /\ n \in Nat /\ DOMAIN Data.columns[c] = 1 .. n /\ Len(Data.columns[c]) = n
  BY Cells DEF IsTable
<1>2. F \in SUBSET (1 .. n) /\ (F = {} <=> \A i \in 1 .. n : Data.columns[c][i] \notin Wrong)
  BY <1>1
<1>3. ASSUME NEW i \in 1 .. n
      PROVE  Data.columns[c][i] \notin Wrong
                <=> (Quality!IsSet(rows[i], c) => rows[i][c] \notin Wrong)
  BY Cells
<1> HIDE DEF F
<1>4. F = {} <=> holds
  BY <1>2, <1>3
<1>5. /\ Quality!InOrder(F, n) \in Seq(1 .. n)
      /\ Quality!InOrder(F, n) = <<>> <=> F = {}
  BY <1>1, <1>2, RowsInOrder
<1>6. Tells(Quality!Report(Quality!InOrder(F, n), Data), n, holds, runs)
  BY <1>4, <1>5, Reporting
<1> QED
  BY <1>1, <1>6 DEF F

(* A number outside the bounds, or what is no number, is out of range.      *)
LEMMA InRangeTells ==
  ASSUME QualityAssumption, NEW n, IsTable(n), check \in Quality!CheckType,
         check.type = "in_range"
  PROVE  Tells(Quality!ValidateInRange(check.column, check.min, check.max, Data), n,
               Quality!Holds, Quality!Runnable)
<1> DEFINE c == check.column
           Outside(v) ==
             CASE v[1] = "num" -> (\E m \in check.min : v[2] < m) \/ (\E m \in check.max : v[2] > m)
               [] v = Quality!Null -> FALSE
               [] OTHER -> TRUE
           Inside(v) == v[1] = "num" /\ (\A m \in check.min : m <= v[2])
                                     /\ (\A m \in check.max : v[2] <= m)
           Wrong == {v \in Quality!Values : Outside(v)}
<1>1. check.min \subseteq Int /\ check.max \subseteq Int
  BY QualityAssumption DEF Quality!CheckType, Quality!Bounds
<1>2. Quality!Runnable <=> c \in Quality!AllColumns(rows)
  BY DEF Quality!Runnable, Quality!Needed
<1>3. Quality!Holds <=> \A i \in 1 .. n : Quality!IsSet(rows[i], c) => Inside(rows[i][c])
  BY Cells DEF Quality!Holds, Quality!EachSet
<1>4. CASE c \notin Quality!AllColumns(rows)
  BY <1>2, <1>4, Cells, Skipping DEF Quality!ValidateInRange, IsTable
<1>5. CASE c \in Quality!AllColumns(rows)
  <2>1. ASSUME NEW v \in Quality!Values
        PROVE  ~ Outside(v) <=> v = Quality!Null \/ Inside(v)
    BY <1>1, QualityAssumption DEF Quality!Values, Quality!Null
  <2>2. ~ Outside(Quality!Null)
    BY DEF Quality!Null
  <2>3. Quality!ValidateInRange(check.column, check.min, check.max, Data)
          = Quality!Report(Quality!InOrder({i \in DOMAIN Data.columns[c] : Outside(Data.columns[c][i])},
                                           Len(Data.columns[c])), Data)
    BY <1>5, Cells DEF Quality!ValidateInRange, Quality!FailingRows
  <2> HIDE DEF Outside, Inside
  <2>4. {i \in DOMAIN Data.columns[c] : Outside(Data.columns[c][i])}
           = {i \in DOMAIN Data.columns[c] : Data.columns[c][i] \in Wrong}
    BY <1>5, Cells
  <2>5. Quality!Null \notin Wrong
    BY <2>2
  <2>6. Quality!Holds <=> \A i \in 1 .. n : Quality!IsSet(rows[i], c) => rows[i][c] \notin Wrong
    BY <1>3, <1>5, <2>1, Cells DEF Quality!IsSet
  <2> HIDE DEF Wrong
  <2> QED
    BY <1>5, <2>3, <2>4, <2>5, <2>6, ColumnTells
<1> QED
  BY <1>4, <1>5

(* A value that is no string, or one the pattern does not match, fails.     *)
LEMMA RegexTells ==
  ASSUME QualityAssumption, NEW n, IsTable(n), check \in Quality!CheckType,
         check.type = "regex"
  PROVE  Tells(Quality!ValidateRegex(check.column, check.valid, check.matches, Data), n,
               Quality!Holds, Quality!Runnable)
<1> DEFINE c == check.column
           NoMatch(v) == CASE v[1] = "str" -> v[2] \notin check.matches
                           [] v = Quality!Null -> FALSE
                           [] OTHER -> TRUE
           Matching(v) == v[1] = "str" /\ v[2] \in check.matches
           Wrong == {v \in Quality!Values : NoMatch(v)}
<1>2. Quality!Runnable <=> check.valid /\ c \in Quality!AllColumns(rows)
  BY DEF Quality!Runnable, Quality!Needed
<1>3. Quality!Holds <=> \A i \in 1 .. n : Quality!IsSet(rows[i], c) => Matching(rows[i][c])
  BY Cells DEF Quality!Holds, Quality!EachSet
<1>4. CASE ~ check.valid \/ c \notin Quality!AllColumns(rows)
  BY <1>2, <1>4, Cells, Skipping DEF Quality!ValidateRegex, IsTable
<1>5. CASE check.valid /\ c \in Quality!AllColumns(rows)
  <2>1. ASSUME NEW v \in Quality!Values
        PROVE  ~ NoMatch(v) <=> v = Quality!Null \/ Matching(v)
    BY DEF Quality!Values, Quality!Null
  <2>2. ~ NoMatch(Quality!Null)
    BY DEF Quality!Null
  <2>3. Quality!ValidateRegex(check.column, check.valid, check.matches, Data)
          = Quality!Report(Quality!InOrder({i \in DOMAIN Data.columns[c] : NoMatch(Data.columns[c][i])},
                                           Len(Data.columns[c])), Data)
    BY <1>5, Cells DEF Quality!ValidateRegex, Quality!FailingRows
  <2> HIDE DEF NoMatch, Matching
  <2>4. {i \in DOMAIN Data.columns[c] : NoMatch(Data.columns[c][i])}
           = {i \in DOMAIN Data.columns[c] : Data.columns[c][i] \in Wrong}
    BY <1>5, Cells
  <2>5. Quality!Null \notin Wrong
    BY <2>2
  <2>6. Quality!Holds <=> \A i \in 1 .. n : Quality!IsSet(rows[i], c) => rows[i][c] \notin Wrong
    BY <1>3, <1>5, <2>1, Cells DEF Quality!IsSet
  <2> HIDE DEF Wrong
  <2> QED
    BY <1>5, <2>3, <2>4, <2>5, <2>6, ColumnTells
<1> QED
  BY <1>4, <1>5

(* Null passes, even if it is not among the accepted values.                *)
LEMMA AcceptedTells ==
  ASSUME QualityAssumption, NEW n, IsTable(n), check \in Quality!CheckType,
         check.type = "accepted_values"
  PROVE  Tells(Quality!ValidateAcceptedValues(check.column, check.values, Data), n,
               Quality!Holds, Quality!Runnable)
<1> DEFINE c == check.column
           Unaccepted(v) == v # Quality!Null /\ v \notin check.values
           Wrong == {v \in Quality!Values : Unaccepted(v)}
<1>2. Quality!Runnable <=> c \in Quality!AllColumns(rows)
  BY DEF Quality!Runnable, Quality!Needed
<1>3. Quality!Holds <=> \A i \in 1 .. n : Quality!IsSet(rows[i], c) => rows[i][c] \in check.values
  BY Cells DEF Quality!Holds, Quality!EachSet
<1>4. CASE c \notin Quality!AllColumns(rows)
  BY <1>2, <1>4, Cells, Skipping DEF Quality!ValidateAcceptedValues, IsTable
<1>5. CASE c \in Quality!AllColumns(rows)
  <2>3. Quality!ValidateAcceptedValues(check.column, check.values, Data)
          = Quality!Report(Quality!InOrder({i \in DOMAIN Data.columns[c] : Unaccepted(Data.columns[c][i])},
                                           Len(Data.columns[c])), Data)
    BY <1>5, Cells DEF Quality!ValidateAcceptedValues, Quality!FailingRows
  <2>4. {i \in DOMAIN Data.columns[c] : Unaccepted(Data.columns[c][i])}
           = {i \in DOMAIN Data.columns[c] : Data.columns[c][i] \in Wrong}
    <3> HIDE DEF Unaccepted
    <3> QED
      BY <1>5, Cells
  <2>6. Quality!Holds <=> \A i \in 1 .. n : Quality!IsSet(rows[i], c) => rows[i][c] \notin Wrong
    BY <1>3, <1>5, Cells DEF Quality!IsSet
  <2>7. Quality!Null \notin Wrong
    OBVIOUS
  <2> HIDE DEF Wrong, Unaccepted
  <2> QED
    BY <1>5, <2>3, <2>4, <2>6, <2>7, ColumnTells
<1> QED
  BY <1>4, <1>5

(* Without a value to compare with the check passes.                        *)
LEMMA ReferencesTell ==
  ASSUME QualityAssumption, NEW n, IsTable(n), check \in Quality!CheckType,
         check.type = "referential_integrity"
  PROVE  Tells(Quality!ValidateReferentialIntegrity(check.column, Data), n,
               Quality!Holds, Quality!Runnable)
<1> DEFINE c == check.column  C == Quality!AllColumns(rows)
           known == Quality!ToSet(Data.columns[RefColumn]) \ {Quality!Null}
           Wrong == {v \in Quality!Values : v # Quality!Null /\ v \notin known}
           Referenced(v) ==
             \E i \in 1 .. n : Quality!IsSet(rows[i], RefColumn) /\ rows[i][RefColumn] = v
<1>1. n \in Nat /\ DOMAIN rows = 1 .. n /\ Data.row_count = n
  BY Cells DEF IsTable
<1>2. Quality!Runnable <=> c \in C
  BY DEF Quality!Runnable, Quality!Needed
<1>3. Quality!Holds
         <=> ~ Quality!Known
             \/ \A i \in 1 .. n : Quality!IsSet(rows[i], c) => Referenced(rows[i][c])
  BY <1>1 DEF Quality!Holds, Quality!EachSet
<1>4. Quality!Known <=> RefColumn \in C
  BY DEF Quality!Known, Quality!AllColumns
<1>5. CASE c \notin C
  BY <1>1, <1>2, <1>5, Cells, Skipping DEF Quality!ValidateReferentialIntegrity
<1>6. CASE c \in C /\ RefColumn \notin C
  <2>1. Quality!ValidateReferentialIntegrity(c, Data) = Quality!Result(TRUE, {0}, {n}, TRUE, <<>>)
    BY <1>1, <1>6, Cells DEF Quality!ValidateReferentialIntegrity
  <2>2. Quality!Holds
    BY <1>3, <1>4, <1>6
  <2> QED
    BY <1>1, <2>1, <2>2, Counting
<1>7. CASE c \in C /\ RefColumn \in C
  <2>1. Quality!ValidateReferentialIntegrity(c, Data)
          = Quality!Report(Quality!InOrder({i \in DOMAIN Data.columns[c] :
                             Data.columns[c][i] # Quality!Null /\ Data.columns[c][i] \notin known},
                                           Len(Data.columns[c])), Data)
    BY <1>7, Cells DEF Quality!ValidateReferentialIntegrity, Quality!FailingRows
  <2>2. ASSUME NEW v, v # Quality!Null PROVE v \in known <=> Referenced(v)
    <3>1. known = {Data.columns[RefColumn][i] : i \in 1 .. n} \ {Quality!Null}
      BY <1>7, Cells DEF Quality!ToSet
    <3> QED
      BY <1>7, <2>2, <3>1, Cells
  <2> HIDE DEF known, Referenced
  <2>3. {i \in DOMAIN Data.columns[c] :
            Data.columns[c][i] # Quality!Null /\ Data.columns[c][i] \notin known}
           = {i \in DOMAIN Data.columns[c] : Data.columns[c][i] \in Wrong}
    BY <1>7, Cells
  <2>4. Quality!Holds <=> \A i \in 1 .. n : Quality!IsSet(rows[i], c) => rows[i][c] \notin Wrong
    BY <1>3, <1>4, <1>7, <2>2, Cells DEF Quality!IsSet
  <2>5. Quality!Null \notin Wrong
    OBVIOUS
  <2> HIDE DEF Wrong
  <2> QED
    BY <1>7, <2>1, <2>3, <2>4, <2>5, ColumnTells
<1> QED
  BY <1>5, <1>6, <1>7

(* Every column is looked at in turn; a row may be counted for several.     *)
LEMMA NotNullTells ==
  ASSUME QualityAssumption, NEW n, IsTable(n), check \in Quality!CheckType,
         check.type = "not_null"
  PROVE  Tells(Quality!ValidateNotNull(check.columns, Data), n, Quality!Holds, Quality!Runnable)
<1> DEFINE cs == check.columns  C == Quality!AllColumns(rows)
           nulls(k) == {i \in DOMAIN Data.columns[cs[k]] : Data.columns[cs[k]][i] = Quality!Null}
           lists == [k \in DOMAIN cs |-> Quality!InOrder(nulls(k), Len(Data.columns[cs[k]]))]
<1>1. n \in Nat /\ DOMAIN rows = 1 .. n /\ Data.row_count = n
  BY Cells DEF IsTable
<1>2. cs \in Seq(Columns) /\ DOMAIN cs = 1 .. Len(cs) /\ Len(cs) \in Nat
  <2>1. cs \in Quality!ColumnLists
    BY DEF Quality!CheckType
  <2>2. CASE cs = <<>>
    BY <2>2
  <2>3. CASE \E c \in Columns : cs = <<c>>
    BY <2>3
  <2>4. CASE \E c, d \in Columns : cs = <<c, d>>
    BY <2>4
  <2> QED
    BY <2>1, <2>2, <2>3, <2>4 DEF Quality!ColumnLists
<1>3. Quality!ToSet(cs) = {cs[k] : k \in DOMAIN cs}
  BY DEF Quality!ToSet
<1>4. Quality!Runnable <=> \A k \in DOMAIN cs : cs[k] \in C
  BY <1>3 DEF Quality!Runnable, Quality!Needed
<1>5. Quality!Holds <=> \A i \in 1 .. n, k \in DOMAIN cs : Quality!IsSet(rows[i], cs[k])
  BY <1>1, <1>3 DEF Quality!Holds
<1>6. CASE \E k \in DOMAIN cs : cs[k] \notin C
  BY <1>1, <1>4, <1>6, Cells, Skipping DEF Quality!ValidateNotNull
<1>7. CASE \A k \in DOMAIN cs : cs[k] \in C
  <2> DEFINE bad == Quality!FlattenSeq(lists)
  <2>1. Quality!ValidateNotNull(cs, Data) = Quality!Report(bad, Data)
    BY <1>7, Cells DEF Quality!ValidateNotNull, Quality!FailingRows
  <2>2. ASSUME NEW k \in DOMAIN cs
        PROVE  /\ lists[k] \in Seq(1 .. n) /\ Lineage!ToSet(lists[k]) = nulls(k)
               /\ nulls(k) = {} <=> \A i \in 1 .. n : Quality!IsSet(rows[i], cs[k])
    <3>1. DOMAIN Data.columns[cs[k]] = 1 .. n /\ Len(Data.columns[cs[k]]) = n
      BY <1>7, Cells
    <3>2. nulls(k) \in SUBSET (1 .. n)
      BY <3>1
    <3>3. nulls(k) = {} <=> \A i \in 1 .. n : Quality!IsSet(rows[i], cs[k])
      BY <1>7, <3>1, Cells
    <3> HIDE DEF nulls
    <3>4. /\ Quality!InOrder(nulls(k), n) \in Seq(1 .. n)
          /\ Lineage!ToSet(Quality!InOrder(nulls(k), n)) = nulls(k)
      BY <1>1, <3>2, RowsInOrder
    <3> QED
      BY <3>1, <3>3, <3>4
  <2> HIDE DEF nulls
  <2>3. lists \in Seq(Seq(1 .. n)) /\ DOMAIN lists = DOMAIN cs
    <3>1. lists \in [1 .. Len(cs) -> Seq(1 .. n)]
      BY <1>2, <2>2
    <3> HIDE DEF lists
    <3> QED
      BY <1>2, <3>1
  <2> HIDE DEF lists
  <2>4. /\ bad \in Seq(1 .. n)
        /\ \A x : x \in Lineage!ToSet(bad)
                     <=> \E k \in DOMAIN lists : x \in Lineage!ToSet(lists[k])
    BY <2>3, Flattened
  <2> HIDE DEF bad
  <2>5. bad = <<>> <=> Lineage!ToSet(bad) = {}
    <3>1. bad # <<>> => 1 \in DOMAIN bad
      BY <2>4
    <3> QED
      BY <3>1 DEF Lineage!ToSet
  <2>6. bad = <<>> <=> \A k \in DOMAIN cs : nulls(k) = {}
    BY <2>2, <2>3, <2>4, <2>5
  <2>7. bad = <<>> <=> Quality!Holds
    BY <1>5, <2>2, <2>6
  <2> QED
    BY <2>1, <2>4, <2>7, Reporting
<1> QED
  BY <1>6, <1>7

(* Rows that have the key of an earlier row are found.                      *)
LEMMA KeysTell ==
  ASSUME QualityAssumption, NEW n, IsTable(n), NEW key, NEW holds, NEW runs,
         holds <=> \A i, j \in 1 .. n : i # j => key[i] # key[j]
  PROVE  Tells(Quality!Report(
                 Quality!InOrder({i \in 1 .. n : \E j \in 1 .. i - 1 : key[j] = key[i]}, n), Data),
               n, holds, runs)
<1> DEFINE F == {i \in 1 .. n : \E j \in 1 .. i - 1 : key[j] = key[i]}
<1>1. n \in Nat
  BY DEF IsTable
<1>2. F = {} <=> holds
  <2>1. ASSUME NEW i \in 1 .. n, NEW j \in 1 .. i - 1 PROVE j \in 1 .. n /\ i # j
    BY <1>1
  <2>2. ASSUME NEW i \in 1 .. n, NEW j \in 1 .. n, i # j
        PROVE  i \in 1 .. j - 1 \/ j \in 1 .. i - 1
    BY <1>1, <2>2
  <2> QED
    BY <2>1, <2>2
<1>3. F \in SUBSET (1 .. n)
  OBVIOUS
<1> HIDE DEF F
<1>4. /\ Quality!InOrder(F, n) \in Seq(1 .. n)
      /\ Quality!InOrder(F, n) = <<>> <=> F = {}
  BY <1>1, <1>3, RowsInOrder
<1>5. Tells(Quality!Report(Quality!InOrder(F, n), Data), n, holds, runs)
  BY <1>2, <1>4, Reporting
<1> QED
  BY <1>5 DEF F

(* Two rows are the same in a column exactly if they have the same cell.    *)
LEMMA SameCells ==
  ASSUME NEW n, IsTable(n), NEW i \in 1 .. n, NEW j \in 1 .. n, NEW c
  PROVE  /\ c \in Quality!AllColumns(rows) =>
              (Quality!Same(rows[i], rows[j], c) <=> Data.columns[c][i] = Data.columns[c][j])
         /\ c \notin Quality!AllColumns(rows) => Quality!Same(rows[i], rows[j], c)
<1>1. CASE c \in Quality!AllColumns(rows)
  <2>1. /\ Quality!IsSet(rows[i], c) <=> Data.columns[c][i] # Quality!Null
        /\ Quality!IsSet(rows[i], c) => Data.columns[c][i] = rows[i][c]
        /\ Quality!IsSet(rows[j], c) <=> Data.columns[c][j] # Quality!Null
        /\ Quality!IsSet(rows[j], c) => Data.columns[c][j] = rows[j][c]
    BY <1>1, Cells
  <2> QED
    BY <1>1, <2>1 DEF Quality!Same
<1>2. CASE c \notin Quality!AllColumns(rows)
  <2>1. ~ Quality!IsSet(rows[i], c) /\ ~ Quality!IsSet(rows[j], c)
    BY <1>2, Cells
  <2> QED
    BY <1>2, <2>1 DEF Quality!Same
<1> QED
  BY <1>1, <1>2

(* A missing column is noticed at the first row, so never without rows.     *)
LEMMA UniqueTells ==
  ASSUME QualityAssumption, NEW n, IsTable(n), check \in Quality!CheckType,
         check.type = "unique"
  PROVE  Tells(Quality!ValidateUnique(check.columns, Data), n, Quality!Holds, Quality!Runnable)
<1> DEFINE cs == check.columns  C == Quality!AllColumns(rows)
           Key(i) == [k \in DOMAIN cs |-> Data.columns[cs[k]][i]]
           key == [i \in 1 .. n |-> Key(i)]
<1>1. n \in Nat /\ DOMAIN rows = 1 .. n /\ Data.row_count = n
  BY Cells DEF IsTable
<1>2. Quality!ToSet(cs) = {cs[k] : k \in DOMAIN cs}
  BY DEF Quality!ToSet
<1>3. Quality!Runnable <=> cs # <<>> /\ \A k \in DOMAIN cs : cs[k] \in C
  BY <1>2 DEF Quality!Runnable, Quality!Needed
<1>4. Quality!Holds <=> \A i, j \in 1 .. n :
         i # j => \E k \in DOMAIN cs : ~ Quality!Same(rows[i], rows[j], cs[k])
  BY <1>1, <1>2 DEF Quality!Holds, Quality!Distinct
<1>5. CASE cs = <<>> \/ (n > 0 /\ \E k \in DOMAIN cs : cs[k] \notin C)
  BY <1>1, <1>3, <1>5, Cells, Skipping DEF Quality!ValidateUnique
<1>6. CASE cs # <<>> /\ (n > 0 => \A k \in DOMAIN cs : cs[k] \in C)
  <2>1. Quality!ValidateUnique(cs, Data)
          = Quality!Report(Quality!InOrder({i \in 1 .. n : \E j \in 1 .. i - 1 : Key(j) = Key(i)}, n), Data)
    BY <1>1, <1>6, Cells DEF Quality!ValidateUnique, Quality!Repeated
  <2>2. ASSUME NEW i \in 1 .. n, NEW j \in 1 .. n
        PROVE  key[i] = key[j] <=> \A k \in DOMAIN cs : Quality!Same(rows[i], rows[j], cs[k])
    <3>1. \A k \in DOMAIN cs : cs[k] \in C
      BY <1>1, <1>6
    <3>2. Key(i) = Key(j) <=> \A k \in DOMAIN cs : Data.columns[cs[k]][i] = Data.columns[cs[k]][j]
      OBVIOUS
    <3>3. \A k \in DOMAIN cs : Quality!Same(rows[i], rows[j], cs[k])
                                 <=> Data.columns[cs[k]][i] = Data.columns[cs[k]][j]
      BY <3>1, SameCells
    <3> HIDE DEF Key
    <3> QED
      BY <3>2, <3>3
  <2> HIDE DEF Key
  <2>3. {i \in 1 .. n : \E j \in 1 .. i - 1 : Key(j) = Key(i)}
           = {i \in 1 .. n : \E j \in 1 .. i - 1 : key[j] = key[i]}
    <3>1. ASSUME NEW i \in 1 .. n, NEW j \in 1 .. i - 1
          PROVE  key[j] = Key(j) /\ key[i] = Key(i)
      BY <1>1
    <3> HIDE DEF key
    <3> QED
      BY <3>1
  <2> HIDE DEF key
  <2>4. Quality!Holds <=> \A i, j \in 1 .. n : i # j => key[i] # key[j]
    BY <1>4, <2>2
  <2> QED
    BY <2>1, <2>3, <2>4, KeysTell
<1> QED
  BY <1>1, <1>5, <1>6

(* Columns that no row has are left out of the key, where all rows agree.   *)
LEMMA DuplicatesTell ==
  ASSUME QualityAssumption, NEW n, IsTable(n), check \in Quality!CheckType,
         check.type = "no_duplicate_rows"
  PROVE  Tells(Quality!ValidateNoDuplicateRows(check.all, check.columns, Data), n,
               Quality!Holds, Quality!Runnable)
<1> DEFINE C == Quality!AllColumns(rows)
           names == IF check.all THEN C ELSE Quality!ToSet(check.columns)
           Key(i) == [c \in names \cap C |-> Data.columns[c][i]]
           key == [i \in 1 .. n |-> Key(i)]
<1>1. n \in Nat /\ DOMAIN rows = 1 .. n /\ Data.row_count = n /\ DOMAIN Data.columns = C
  BY Cells DEF IsTable
<1>2. Quality!Holds <=> names = {} \/ \A i, j \in 1 .. n :
         i # j => \E c \in names : ~ Quality!Same(rows[i], rows[j], c)
  BY <1>1 DEF Quality!Holds, Quality!Distinct
<1>3. CASE names = {}
  <2>1. Quality!ValidateNoDuplicateRows(check.all, check.columns, Data) = Quality!Passed(n)
    BY <1>1, <1>3 DEF Quality!ValidateNoDuplicateRows
  <2> QED
    BY <1>1, <1>2, <1>3, <2>1, Counting
<1>4. CASE names # {}
  <2>1. Quality!ValidateNoDuplicateRows(check.all, check.columns, Data)
          = Quality!Report(Quality!InOrder({i \in 1 .. n : \E j \in 1 .. i - 1 : Key(j) = Key(i)}, n), Data)
    BY <1>1, <1>4 DEF Quality!ValidateNoDuplicateRows, Quality!Repeated
  <2> HIDE DEF names
  <2>2. ASSUME NEW i \in 1 .. n, NEW j \in 1 .. n
        PROVE  key[i] = key[j] <=> \A c \in names : Quality!Same(rows[i], rows[j], c)
    <3>1. Key(i) = Key(j) <=> \A c \in names \cap C : Data.columns[c][i] = Data.columns[c][j]
      OBVIOUS
    <3>2. \A c \in names \cap C : Quality!Same(rows[i], rows[j], c)
                                    <=> Data.columns[c][i] = Data.columns[c][j]
      BY SameCells
    <3>3. \A c \in names \ C : Quality!Same(rows[i], rows[j], c)
      BY SameCells
    <3> HIDE DEF Key
    <3> QED
      BY <3>1, <3>2, <3>3
  <2> HIDE DEF Key
  <2>3. {i \in 1 .. n : \E j \in 1 .. i - 1 : Key(j) = Key(i)}
           = {i \in 1 .. n : \E j \in 1 .. i - 1 : key[j] = key[i]}
    <3>1. ASSUME NEW i \in 1 .. n, NEW j \in 1 .. i - 1
          PROVE  key[j] = Key(j) /\ key[i] = Key(i)
      BY <1>1
    <3> HIDE DEF key
    <3> QED
      BY <3>1
  <2> HIDE DEF key
  <2>4. Quality!Holds <=> \A i, j \in 1 .. n : i # j => key[i] # key[j]
    BY <1>2, <1>4, <2>2
  <2> QED
    BY <2>1, <2>3, <2>4, KeysTell
<1> QED
  BY <1>3, <1>4

(* The number of rows is compared with the bounds.                          *)
LEMMA CountTells ==
  ASSUME QualityAssumption, NEW n, IsTable(n), check \in Quality!CheckType,
         check.type = "row_count"
  PROVE  Tells(Quality!ValidateRowCount(check.min, check.max, Data), n,
               Quality!Holds, Quality!Runnable)
<1>1. n \in Nat /\ Len(rows) = n /\ Data.row_count = n
  BY Cells DEF IsTable
<1>2. check.min \subseteq Int /\ check.max \subseteq Int
  BY QualityAssumption DEF Quality!CheckType, Quality!Bounds
<1> DEFINE out == (\E m \in check.min : n < m) \/ (\E m \in check.max : n > m)
<1>3. Quality!Holds <=> ~ out
  BY <1>1, <1>2 DEF Quality!Holds
<1>4. Quality!ValidateRowCount(check.min, check.max, Data)
        = IF out THEN Quality!Failed(0, n) ELSE Quality!Passed(n)
  BY <1>1 DEF Quality!ValidateRowCount
<1> HIDE DEF out
<1> QED
  BY <1>1, <1>3, <1>4, Counting

(* Missing and unexpected columns are errors, counted apart.                *)
LEMMA SchemaTells ==
  ASSUME QualityAssumption, NEW n, IsTable(n), check \in Quality!CheckType,
         check.type = "schema_match"
  PROVE  Tells(Quality!ValidateSchemaMatch(check.expected, check.extra, Data), n,
               Quality!Holds, Quality!Runnable)
<1>1. n \in Nat /\ Data.row_count = n /\ DOMAIN Data.columns = Quality!AllColumns(rows)
  BY Cells DEF IsTable
<1> DEFINE missing == check.expected \subseteq Quality!AllColumns(rows)
           extra == check.extra \/ Quality!AllColumns(rows) \subseteq check.expected
           errors == (IF missing THEN 0 ELSE 1) + (IF extra THEN 0 ELSE 1)
<1>2. Quality!Holds <=> missing /\ extra
  BY DEF Quality!Holds
<1>3. Quality!ValidateSchemaMatch(check.expected, check.extra, Data)
        = IF errors = 0 THEN Quality!Passed(n) ELSE Quality!Failed(errors, n)
  BY <1>1 DEF Quality!ValidateSchemaMatch
<1> HIDE DEF missing, extra
<1>4. errors \in Nat /\ (errors = 0 <=> missing /\ extra)
  OBVIOUS
<1> HIDE DEF errors
<1> QED
  BY <1>1, <1>2, <1>3, <1>4, Counting

(* Whatever the check, its result is true of the rows.                      *)
LEMMA AllTell ==
  ASSUME QualityAssumption, NEW n, IsTable(n), check \in Quality!CheckType
  PROVE  Tells(Quality!ValidateCheck(check, Data), n, Quality!Holds, Quality!Runnable)
<1>1. check.type \in {"not_null", "unique", "in_range", "regex", "row_count", "accepted_values",
                      "no_duplicate_rows", "referential_integrity", "schema_match",
                      "freshness", "custom", "unparsable"}
  BY DEF Quality!CheckType
<1>2. CASE check.type = "not_null"
  BY <1>2, NotNullTells DEF Quality!ValidateCheck
<1>3. CASE check.type = "unique"
  BY <1>3, UniqueTells DEF Quality!ValidateCheck
<1>4. CASE check.type = "in_range"
  BY <1>4, InRangeTells DEF Quality!ValidateCheck
<1>5. CASE check.type = "regex"
  BY <1>5, RegexTells DEF Quality!ValidateCheck
<1>6. CASE check.type = "row_count"
  BY <1>6, CountTells DEF Quality!ValidateCheck
<1>7. CASE check.type = "accepted_values"
  BY <1>7, AcceptedTells DEF Quality!ValidateCheck
<1>8. CASE check.type = "no_duplicate_rows"
  BY <1>8, DuplicatesTell DEF Quality!ValidateCheck
<1>9. CASE check.type = "referential_integrity"
  BY <1>9, ReferencesTell DEF Quality!ValidateCheck
<1>10. CASE check.type = "schema_match"
  BY <1>10, SchemaTells DEF Quality!ValidateCheck
<1>11. CASE check.type \in {"freshness", "custom", "unparsable"}
  <2>1. Quality!ValidateCheck(check, Data) = Quality!CannotRun
    BY <1>11 DEF Quality!ValidateCheck
  <2>2. ~ Quality!Runnable /\ n \in Nat
    BY <1>11 DEF Quality!Runnable, IsTable
  <2> QED
    BY <2>1, <2>2, Skipping
<1> QED
  BY <1>1, <1>2, <1>3, <1>4, <1>5, <1>6, <1>7, <1>8, <1>9, <1>10, <1>11

\* What is stored is the result of the check on the rows.
Stored ==
    \/ check = Quality!NoCheck
    \/ /\ \E n : IsTable(n)
       /\ check \in Quality!CheckType
       /\ LET r == Quality!ValidateCheck(check, Data)
          IN  verdict = [outcome |-> Quality!OutcomeOf(r), failed |-> r.failed,
                         total |-> r.total, samples |-> r.samples]

(* What the worker stores of a check is the truth about the rows the asset  *)
(* produced, however sparse and mixed they are, for every check type but    *)
(* those without a validation, every number of rows and every cap on the    *)
(* samples.                                                                 *)
THEOREM VerdictsAreRight == Spec => []VerdictRight
<1>1. Init => Stored
  BY DEF Init, Quality!Init, Stored
<1>2. Stored /\ [Quality!Next]_qualityVars => Stored'
  <2> SUFFICES ASSUME Stored, [Quality!Next]_qualityVars PROVE Stored'
    OBVIOUS
  <2>1. CASE Quality!ExecuteCheck
    <3>1. PICK n \in 0 .. MaxRows : rows' \in [1 .. n -> Quality!Rows]
      BY <2>1 DEF Quality!ExecuteCheck
    <3>2. IsTable(n)'
      BY <3>1, QualityAssumption DEF IsTable
    <3> QED
      BY <2>1, <3>2 DEF Quality!ExecuteCheck, Stored, Data
  <2>2. CASE Quality!NextAsset
    BY <2>2 DEF Quality!NextAsset, Stored
  <2>3. CASE UNCHANGED qualityVars
    BY <2>3 DEF qualityVars, Stored, IsTable, Data
  <2> QED
    BY <2>1, <2>2, <2>3 DEF Quality!Next
<1>3. Stored => VerdictRight
  <2> SUFFICES ASSUME Stored, check # Quality!NoCheck PROVE VerdictRight
    BY DEF VerdictRight, Quality!VerdictRight
  <2>1. PICK n : IsTable(n)
    BY DEF Stored
  <2> DEFINE r == Quality!ValidateCheck(check, Data)
  <2>2. /\ verdict.outcome = Quality!OutcomeOf(r) /\ verdict.failed = r.failed
        /\ verdict.samples = r.samples /\ check \in Quality!CheckType
    BY DEF Stored
  <2>3. Tells(r, n, Quality!Holds, Quality!Runnable) /\ DOMAIN rows = 1 .. n
    BY <2>1, <2>2, AllTell, QualityAssumption, Cells
  <2> HIDE DEF r
  <2> QED
    BY <2>2, <2>3 DEF Tells, VerdictRight, Quality!VerdictRight
<1> QED
  BY <1>1, <1>2, <1>3, CatalogSteps, PTL DEF Spec

=============================================================================
