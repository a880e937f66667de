--------------------------- MODULE SigningSecrets ---------------------------
(***************************************************************************)
(* The secrets that sign tasks and their rotation: the worker's provider   *)
(* caches versions of the secret (secrets.rs, secrets_provider.rs), every  *)
(* request refreshes a stale cache on its own before its signature is      *)
(* verified (handler.rs), and an operator adds and disables versions.      *)
(* A secret is named by its version; a task by the version that signed it. *)
(***************************************************************************)
EXTENDS Naturals, FiniteSets, Sequences, SequencesExt

CONSTANTS Requests,      \* requests handled at a time
          MaxVersion,    \* versions the operator may add
          Weak,          \* versions that validate_secret refuses
          MayFail        \* whether a call to the secret manager may fail

Startup == "startup"     \* initialize, run once before the worker serves
Processes == Requests \cup {Startup}

VARIABLES newest, disabled,   \* the secret manager: versions 1..newest
          valid_secrets,      \* the cache of the provider
          stale,              \* REFRESH_INTERVAL is over since the refresh
          pc, latest,         \* each process, and the version it fetched
          signature,          \* the version that signed its task
          known, basis,       \* history: what was disabled when the refresh of
                              \* a process began, of the one that filled the cache
          failed              \* history: a call to the secret manager failed

vars == <<newest, disabled, valid_secrets, stale, pc, latest, signature, known,
          basis, failed>>

Versions == 1 .. MaxVersion
manager == <<newest, disabled>>
Up == pc[Startup] = "accepted"

Init ==
    /\ newest \in Versions
    /\ disabled = {}
    /\ valid_secrets = <<>>
    /\ stale = TRUE
    /\ pc = [p \in Processes |-> IF p = Startup THEN "latest" ELSE "idle"]
    /\ latest = [p \in Processes |-> 0]
    /\ signature = [p \in Processes |-> 0]
    /\ known = [p \in Processes |-> {}]
    /\ basis = {}
    /\ failed = FALSE

Goto(p, place) == pc' = [pc EXCEPT ![p] = place]

(***************************************************************************)
(* The request of a task arrives.  get_valid_secrets refreshes first if    *)
(* the last refresh is too long ago.                                       *)
(***************************************************************************)
Receive(r) ==
    /\ Up /\ pc[r] = "idle"
    /\ \E v \in 1 .. newest : signature' = [signature EXCEPT ![r] = v]
    /\ Goto(r, IF stale THEN "latest" ELSE "verify")
    /\ known' = [known EXCEPT ![r] = disabled]
    /\ UNCHANGED <<manager, valid_secrets, stale, latest, basis, failed>>

Fetchable(v) == v <= newest /\ v \notin disabled

\* validate_secret.
Good(v) == v \notin Weak

\* A failed refresh ends the start of the worker; a request goes on with
\* what is cached.
RefreshFails(p) == Goto(p, IF p = Startup THEN "refused" ELSE "verify")

CallFails == MayFail /\ failed' = TRUE

(***************************************************************************)
(* refresh_secrets: "latest", whose quality must be good.                  *)
(***************************************************************************)
FetchLatest(p) ==
    /\ pc[p] = "latest"
    /\ \/ CallFails /\ RefreshFails(p) /\ UNCHANGED latest
       \/ /\ IF Fetchable(newest) /\ Good(newest)
             THEN Goto(p, "previous") /\ latest' = [latest EXCEPT ![p] = newest]
             ELSE RefreshFails(p) /\ UNCHANGED latest
          /\ UNCHANGED failed
    /\ UNCHANGED <<manager, valid_secrets, stale, signature, known, basis>>

\* Mutant: what was cached stays beside what was fetched.
KeepOld(fetched) == fetched \o valid_secrets

\* What the cache is replaced with.
Replacement(fetched) == fetched

(***************************************************************************)
(* refresh_secrets, the rest: version "1" beside it, if that can be had,   *)
(* is another one and good; then the cache is replaced.                    *)
(***************************************************************************)
FetchPrevious(p) ==
    LET good == Fetchable(1) /\ latest[p] # 1 /\ Good(1)
    IN  /\ pc[p] = "previous"
        /\ \/ /\ valid_secrets' = Replacement(IF good THEN <<latest[p], 1>>
                                                      ELSE <<latest[p]>>)
              /\ UNCHANGED failed
           \/ /\ CallFails
              /\ valid_secrets' = Replacement(<<latest[p]>>)
        /\ stale' = FALSE
        /\ basis' = known[p]
        /\ Goto(p, IF p = Startup THEN "accepted" ELSE "verify")
        /\ UNCHANGED <<manager, latest, signature, known>>

\* verify_signature, with one of the secrets.
Verifies(r, secret) == signature[r] = secret

(***************************************************************************)
(* execute_handler: any of the valid secrets may have signed the task.     *)
(***************************************************************************)
Verify(r) ==
    /\ pc[r] = "verify"
    /\ Goto(r, IF \E secret \in ToSet(valid_secrets) : Verifies(r, secret) THEN "accepted" ELSE "refused")
    /\ UNCHANGED <<manager, valid_secrets, stale, latest, signature, known, basis, failed>>

Answer(r) ==
    /\ r # Startup /\ pc[r] \in {"accepted", "refused"}
    /\ Goto(r, "idle")
    /\ latest' = [latest EXCEPT ![r] = 0]
    /\ signature' = [signature EXCEPT ![r] = 0]
    /\ known' = [known EXCEPT ![r] = {}]
    /\ UNCHANGED <<manager, valid_secrets, stale, basis, failed>>

GrowsStale ==
    /\ stale' = TRUE
    /\ UNCHANGED <<manager, valid_secrets, pc, latest, signature, known, basis, failed>>

AddVersion ==
    /\ newest < MaxVersion
    /\ newest' = newest + 1
    /\ UNCHANGED <<disabled, valid_secrets, stale, pc, latest, signature, known, basis, failed>>

DisableVersion ==
    /\ \E v \in 1 .. newest : disabled' = disabled \cup {v}
    /\ UNCHANGED <<newest, valid_secrets, stale, pc, latest, signature, known, basis, failed>>

Next ==
    \/ GrowsStale \/ AddVersion \/ DisableVersion
    \/ \E p \in Processes :
          Receive(p) \/ FetchLatest(p) \/ FetchPrevious(p) \/ Verify(p) \/ Answer(p)

Spec == Init /\ [][Next]_vars

-----------------------------------------------------------------------------
(***************************************************************************)
(* A worker that serves always has a secret to verify with, whatever       *)
(* fails, and never a weak one; and a secret that was disabled before the  *)
(* refresh that filled the cache began is not among them, however the      *)
(* refreshes of other requests overlapped.                                 *)
(***************************************************************************)
SecretsSound ==
    /\ Up => valid_secrets # <<>>
    /\ ToSet(valid_secrets) \cap Weak = {}
    /\ ToSet(valid_secrets) \cap basis = {}
=============================================================================
