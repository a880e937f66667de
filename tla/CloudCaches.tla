----------------------------- MODULE CloudCaches -----------------------------
(***************************************************************************)
(* The three caches that stand before remote answers: access tokens        *)
(* (auth.rs), the keys that sign OIDC tokens (oidc.rs) and health checks   *)
(* (health.rs).  They are used alike: a caller takes the entry if it is    *)
(* fresh, and else asks on its own, without waiting for others that ask,   *)
(* and writes what it got.  They differ in when an entry is fresh and in   *)
(* what a failure does.                                                    *)
(*                                                                         *)
(* The answer of the remote is its state when it answers: the keys that    *)
(* are published, "up" if it is healthy; an access token is only as old as *)
(* the answer.                                                             *)
(***************************************************************************)
EXTENDS Naturals, FiniteSets

CONSTANTS Askers,      \* concurrent callers
          Keys,        \* kid values
          Ttl,         \* JWKS_TTL, ttl, or the life of an access token
          Margin,      \* the 300 seconds an access token is dropped early
          MaxDelay,    \* the timeout of the client that asks
          MaxTime

VARIABLES kind,        \* which of the caches
          clock,
          remote,      \* what is true at the remote
          cache,       \* the entry, a set with at most one member
          asker,       \* each caller's place, what it wants and what it got
          gone         \* history: for each caller what was not true since it asked

vars == <<kind, clock, remote, cache, asker, gone>>

Kinds == {"token", "keys", "health"}
Facts(k) == CASE k = "keys" -> Keys [] k = "health" -> {"up"} [] OTHER -> {}

NoEntry == [value |-> {}, asOf |-> 0, stored |-> 0]
Idle == [at |-> "idle", want |-> "none", entry |-> NoEntry]

Init ==
    /\ kind \in Kinds
    /\ clock = 0
    /\ remote \in SUBSET Facts(kind)
    /\ cache = {}
    /\ asker = [a \in Askers |-> Idle]
    /\ gone = [a \in Askers |-> {}]

(***************************************************************************)
(* A token comes with the life it has left and is kept for less than that  *)
(* by the margin; saturating_sub.                                          *)
(***************************************************************************)
TokenLife == IF Ttl > Margin THEN Ttl - Margin ELSE 0

\* AccessToken::is_expired.
TokenFresh(e) == clock < e.stored + TokenLife

\* Mutant: a key that is not among the cached ones is not asked for.
KeysFreshByAge(e, kid) == clock - e.stored <= Ttl

\* JwksCache::is_expired and find_key.
KeysFresh(e, kid) == clock - e.stored <= Ttl /\ kid \in e.value

\* is_cache_valid.
HealthFresh(e) == clock - e.stored < Ttl

(***************************************************************************)
(* The cache first: a caller is given the entry if it is fresh, else asks. *)
(***************************************************************************)
Lookup(a, want, fresh) ==
    /\ asker[a].at = "idle"
    /\ asker' = [asker EXCEPT ![a] =
          IF fresh = {}
          THEN [Idle EXCEPT !.at = "asking", !.want = want]
          ELSE [at |-> "given", want |-> want, entry |-> CHOOSE e \in fresh : TRUE]]
    /\ gone' = [gone EXCEPT ![a] = Facts(kind) \ remote]
    /\ UNCHANGED <<kind, clock, remote, cache>>

GetAccessToken(a) ==
    kind = "token" /\ Lookup(a, "none", {e \in cache : TokenFresh(e)})

GetJwks(a) ==
    /\ kind = "keys"
    /\ \E kid \in Keys : Lookup(a, kid, {e \in cache : KeysFresh(e, kid)})

CheckHealth(a) ==
    kind = "health" /\ Lookup(a, "none", {e \in cache : HealthFresh(e)})

\* The remote answers with what is true then; the answer travels.
RemoteAnswers(a) ==
    /\ asker[a].at = "asking"
    /\ asker' = [asker EXCEPT ![a].at = "answered",
                              ![a].entry = [NoEntry EXCEPT !.value = remote, !.asOf = clock]]
    /\ UNCHANGED <<kind, clock, remote, cache, gone>>

(***************************************************************************)
(* The answer is cached, from now on, and given to the caller.             *)
(***************************************************************************)
Keep(a, e) ==
    /\ cache' = {e}
    /\ asker' = [asker EXCEPT ![a].at = "given", ![a].entry = e]
    /\ UNCHANGED <<kind, clock, remote, gone>>

Answered(a, k) == kind = k /\ asker[a].at = "answered"
AnswerTo(a) == [asker[a].entry EXCEPT !.stored = clock]

FetchToken(a) == Answered(a, "token") /\ Keep(a, AnswerTo(a))
FetchAndCacheJwks(a) == Answered(a, "keys") /\ Keep(a, AnswerTo(a))
HealthChecked(a) == Answered(a, "health") /\ Keep(a, AnswerTo(a))

Unanswered(a) == asker[a].at \in {"asking", "answered"}

\* A health check that fails or times out is cached, as not healthy.
HealthCheckFails(a) ==
    /\ kind = "health" /\ Unanswered(a)
    /\ Keep(a, [value |-> {}, asOf |-> clock, stored |-> clock])

\* A token or keys that cannot be had: the caller gets an error.
FetchFails(a) ==
    /\ kind # "health" /\ Unanswered(a)
    /\ asker' = [asker EXCEPT ![a].at = "failed"]
    /\ UNCHANGED <<kind, clock, remote, cache, gone>>

\* The caller goes on with what it was given.
Leave(a) ==
    /\ asker[a].at \in {"given", "failed"}
    /\ asker' = [asker EXCEPT ![a] = Idle]
    /\ gone' = [gone EXCEPT ![a] = {}]
    /\ UNCHANGED <<kind, clock, remote, cache>>

\* Keys are published and withdrawn, the remote fails and recovers.
RemoteChanges ==
    /\ \E f \in Facts(kind) :
          remote' = IF f \in remote THEN remote \ {f} ELSE remote \cup {f}
    /\ gone' = [a \in Askers |-> IF asker[a].at = "idle" THEN {}
                                 ELSE gone[a] \cup (Facts(kind) \ remote')]
    /\ UNCHANGED <<kind, clock, cache, asker>>

(***************************************************************************)
(* Time passes.  What was given is used at once, and no answer travels     *)
(* longer than the client waits.                                           *)
(***************************************************************************)
Tick ==
    /\ clock < MaxTime
    /\ \A a \in Askers :
          /\ asker[a].at # "given"
          /\ asker[a].at = "answered" => clock - asker[a].entry.asOf < MaxDelay
    /\ clock' = clock + 1
    /\ UNCHANGED <<kind, remote, cache, asker, gone>>

Next ==
    \/ RemoteChanges \/ Tick
    \/ \E a \in Askers :
          \/ GetAccessToken(a) \/ GetJwks(a) \/ CheckHealth(a)
          \/ RemoteAnswers(a) \/ FetchToken(a) \/ FetchAndCacheJwks(a)
          \/ HealthChecked(a) \/ HealthCheckFails(a) \/ FetchFails(a)
          \/ Leave(a)

Spec == Init /\ [][Next]_vars

-----------------------------------------------------------------------------
(***************************************************************************)
(* Whoever asks at once and whichever answer is written last: an access    *)
(* token that is given out is still alive; keys and health given out were  *)
(* true no longer ago than the cache keeps them and an answer travels; and *)
(* a key is missing from what is given only if it was not published all    *)
(* the time since it was asked for.                                        *)
(***************************************************************************)
CacheSound ==
    \A a \in Askers :
        LET e == asker[a].entry
        IN  asker[a].at = "given" =>
                CASE kind = "token"  -> clock < e.asOf + Ttl
                  [] kind = "health" -> clock < e.asOf + Ttl + MaxDelay
                  [] kind = "keys"   ->
                        /\ clock <= e.asOf + Ttl + MaxDelay
                        /\ asker[a].want \in e.value \cup gone[a]
=============================================================================
