---------------------------- MODULE WorkerService ----------------------------
(***************************************************************************)
(* The worker process and its door: main.rs starts and stops it,           *)
(* handler.rs admits the requests of Cloud Tasks and Cloud Scheduler and   *)
(* spawns what they ask for before it answers.  A caller that does not get *)
(* a 2xx sends the request again.                                          *)
(*                                                                         *)
(* Of a request only its form counts: which endpoint it is for, whether    *)
(* its token is good, which bytes its signature covers, what its body is.  *)
(***************************************************************************)
EXTENDS Naturals, FiniteSets

CONSTANTS Tasks,       \* requests, each of which may be sent many times
          BurstSize,   \* what a tenant may ask for at once
          MaxFaults    \* bound: kills, lost answers, calls that fail

VARIABLES form,        \* what each request is
          place,       \* where each request is
          worker,      \* the process: a step of main, or "down"
          budget,      \* what the limiter of the tenant still lets through
          spawned,     \* history: how often each request was spawned
          lost,        \* history: answers that did not arrive
          spent,       \* history: how often the limiter let each one through
          faults

vars == <<form, place, worker, budget, spawned, lost, spent, faults>>
history == <<spawned, lost, spent>>

(***************************************************************************)
(* What CloudTasksQueue::enqueue sends.  It signs the JSON and hands the   *)
(* base64 of it to the API: the body that arrives is the one or the other, *)
(* as Cloud Tasks decodes it or not.                                       *)
(***************************************************************************)
Enqueued ==
    [endpoint : {"execute"}, token : {TRUE}, signed : {"json"}, body : {"json", "base64"}]

\* What the worker's own tests send: base64, and the signature is over that.
Contract ==
    [endpoint : {"execute"}, token : {TRUE}, signed : {"base64"}, body : {"base64"}]

Scheduled ==
    [endpoint : {"schedule"}, token : BOOLEAN, signed : {"nothing"}, body : {"json", "other"}]

Unverified ==
    [endpoint : {"execute"}, token : BOOLEAN, signed : {"nothing"}, body : {"base64"}]
      \cup [endpoint : {"execute"}, token : {FALSE}, signed : {"base64"}, body : {"base64"}]

Forms == Enqueued \cup Contract \cup Scheduled \cup Unverified

\* The steps of main before it serves.
Starting == {"secrets", "storage", "oidc"}

\* Requests the worker works on, and answers under way.
InFlight == {"token", "signature", "admit"}
Answers == {"200", "400", "401", "408", "429"}

Init ==
    /\ form \in [Tasks -> Forms]
    /\ place = [t \in Tasks |-> "queued"]
    /\ worker = "secrets"
    /\ budget = BurstSize
    /\ spawned = [t \in Tasks |-> 0]
    /\ lost = [t \in Tasks |-> 0]
    /\ spent = [t \in Tasks |-> 0]
    /\ faults = 0

Fault == faults < MaxFaults /\ faults' = faults + 1

-----------------------------------------------------------------------------
(* The process.                                                             *)

StepAfter(s) == CASE s = "secrets" -> "storage" [] s = "storage" -> "oidc" [] OTHER -> "serving"

\* main: the next part is initialised; the limiters are made last, and empty.
Start ==
    /\ worker \in Starting
    /\ worker' = StepAfter(worker)
    /\ budget' = BurstSize
    /\ UNCHANGED <<form, place, history, faults>>

\* SecretsProvider::new, PostgresStorage::new or initialize_validator fails.
StartFails ==
    /\ worker \in Starting /\ Fault
    /\ worker' = "down"
    /\ UNCHANGED <<form, place, budget, history>>

Restart ==
    /\ worker = "down"
    /\ worker' = "secrets"
    /\ UNCHANGED <<form, place, budget, history, faults>>

\* SIGTERM: with_graceful_shutdown takes no request any more.
ShutdownSignal ==
    /\ worker = "serving" /\ Fault
    /\ worker' = "draining"
    /\ UNCHANGED <<form, place, budget, history>>

\* The requests are answered: main returns, and what it spawned is dropped
\* (Abandon of ExecutionLifecycle).
Exit ==
    /\ worker = "draining"
    /\ \A t \in Tasks : place[t] \notin InFlight
    /\ worker' = "down"
    /\ UNCHANGED <<form, place, budget, history, faults>>

\* The process is killed: its requests are not answered.
Kill ==
    /\ worker \in {"serving", "draining"} /\ Fault
    /\ worker' = "down"
    /\ place' = [t \in Tasks |-> IF place[t] \in InFlight THEN "queued" ELSE place[t]]
    /\ UNCHANGED <<form, budget, history>>

-----------------------------------------------------------------------------
(* A request.                                                               *)

Goto(t, where) == place' = [place EXCEPT ![t] = where]

Receive(t) ==
    /\ worker = "serving" /\ place[t] = "queued"
    /\ Goto(t, "token")
    /\ UNCHANGED <<form, worker, budget, history, faults>>

(***************************************************************************)
(* validate_token, an await; the keys it needs may not be had.             *)
(***************************************************************************)
ValidateToken(t) ==
    /\ place[t] = "token"
    /\ \/ /\ Goto(t, IF ~form[t].token THEN "401"
                    ELSE IF form[t].endpoint = "execute" THEN "signature" ELSE "admit")
          /\ UNCHANGED faults
       \/ Goto(t, "401") /\ Fault
    /\ UNCHANGED <<form, worker, budget, history>>

\* get_all_valid_secrets, an await, and a signature over the body as it came.
ValidateSignature(t) ==
    /\ place[t] = "signature"
    /\ Goto(t, IF form[t].signed = form[t].body THEN "admit" ELSE "401")
    /\ UNCHANGED <<form, worker, budget, history, faults>>

\* STANDARD.decode of the body, or the identifier in the path and the payload.
Readable(f) == IF f.endpoint = "execute" THEN f.body = "base64" ELSE f.body = "json"

Spawn(t) ==
    /\ spawned' = [spawned EXCEPT ![t] = @ + 1]
    /\ Goto(t, "200")

\* Mutant: the limiter is asked before the body is looked at.
AdmitLimitFirst(t) ==
    /\ place[t] = "admit"
    /\ IF budget = 0
       THEN Goto(t, "429") /\ UNCHANGED <<budget, spawned, spent>>
       ELSE /\ budget' = budget - 1
            /\ spent' = [spent EXCEPT ![t] = @ + 1]
            /\ IF Readable(form[t]) THEN Spawn(t) ELSE Goto(t, "400") /\ UNCHANGED spawned
    /\ UNCHANGED <<form, worker, lost, faults>>

(***************************************************************************)
(* The rest of execute_handler and scheduler_execute_handler, without an   *)
(* await: the payload, check_tenant, tokio::spawn.                         *)
(***************************************************************************)
Admit(t) ==
    /\ place[t] = "admit"
    /\ \/ /\ ~Readable(form[t])
          /\ Goto(t, "400")
          /\ UNCHANGED <<budget, spawned, spent>>
       \/ /\ Readable(form[t]) /\ budget = 0
          /\ Goto(t, "429")
          /\ UNCHANGED <<budget, spawned, spent>>
       \/ /\ Readable(form[t]) /\ budget > 0
          /\ budget' = budget - 1
          /\ spent' = [spent EXCEPT ![t] = @ + 1]
          /\ Spawn(t)
    /\ UNCHANGED <<form, worker, lost, faults>>

\* The TimeoutLayer drops a handler that waits.
TimesOut(t) ==
    /\ place[t] \in {"token", "signature"} /\ Fault
    /\ Goto(t, "408")
    /\ UNCHANGED <<form, worker, budget, history>>

\* Mutant: a request that is told to wait is not sent again.
AnswerArrivesOnce(t) ==
    /\ place[t] \in Answers
    /\ Goto(t, CASE place[t] = "200" -> "done" [] place[t] = "429" -> "dropped" [] OTHER -> "queued")
    /\ UNCHANGED <<form, worker, budget, history, faults>>

\* into_response: only what was spawned is answered with a 2xx.
AnswerArrives(t) ==
    /\ place[t] \in Answers
    /\ Goto(t, IF place[t] = "200" THEN "done" ELSE "queued")
    /\ UNCHANGED <<form, worker, budget, history, faults>>

AnswerLost(t) ==
    /\ place[t] \in Answers /\ Fault
    /\ Goto(t, "queued")
    /\ lost' = [lost EXCEPT ![t] = @ + 1]
    /\ UNCHANGED <<form, worker, budget, spawned, spent>>

Refill ==
    /\ worker \in {"serving", "draining"} /\ budget < BurstSize
    /\ budget' = budget + 1
    /\ UNCHANGED <<form, place, worker, history, faults>>

-----------------------------------------------------------------------------
Process == Start \/ Restart \/ Exit
Handle(t) == Receive(t) \/ ValidateToken(t) \/ ValidateSignature(t) \/ Admit(t)

Next ==
    \/ Process \/ StartFails \/ ShutdownSignal \/ Kill \/ Refill
    \/ \E t \in Tasks :
          Handle(t) \/ TimesOut(t) \/ AnswerArrives(t) \/ AnswerLost(t)

Spec == Init /\ [][Next]_vars

(***************************************************************************)
(* The platform restarts a worker that is down, the callers send again,    *)
(* the limiter refills; nothing is assumed of the bounded faults.          *)
(***************************************************************************)
Fairness ==
    /\ WF_vars(Process) /\ WF_vars(Refill)
    /\ \A t \in Tasks : WF_vars(Handle(t)) /\ WF_vars(AnswerArrives(t))

FairSpec == Spec /\ Fairness

-----------------------------------------------------------------------------
Genuine(f) == f.token /\ (f.endpoint = "execute" => f.signed = f.body) /\ Readable(f)

(***************************************************************************)
(* Whatever is refused, lost, sent again or cut off by a restart: only     *)
(* what is genuine is ever started, and started again only when an answer  *)
(* was lost; a request the caller regards as done was started; and no      *)
(* tenant's quota is spent by a request that is not started.               *)
(***************************************************************************)
AdmissionSound ==
    \A t \in Tasks :
        /\ spawned[t] > 0 => Genuine(form[t])
        /\ spawned[t] <= 1 + lost[t]
        /\ place[t] = "done" => spawned[t] > 0
        /\ spent[t] = spawned[t]

(***************************************************************************)
(* A genuine request is started in the end, past every refusal for its     *)
(* rate, timeout, kill, shutdown and failed start.                         *)
(***************************************************************************)
GenuineServed == \A t \in Tasks : Genuine(form[t]) ~> place[t] = "done"

(***************************************************************************)
(* "Worker receives this and decodes it": a task that the queue made and   *)
(* signed, with a good token, is not answered 400 or 401 where no call     *)
(* failed, whether Cloud Tasks decodes the body or not.                    *)
(***************************************************************************)
EnqueuedAccepted ==
    \A t \in Tasks :
        form[t] \in Enqueued /\ faults = 0 => place[t] \notin {"400", "401"}
=============================================================================
