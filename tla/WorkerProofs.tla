----------------------------- MODULE WorkerProofs -----------------------------
(***************************************************************************)
(* The door of the worker and the attempts at one partition, for every     *)
(* number of requests, executors and retries.                              *)
(***************************************************************************)
EXTENDS MCPlanning, TLAPS

(* Every step is a step of the door and of the attempts, or leaves them as  *)
(* they are.                                                                *)
LEMMA WorkerSteps ==
  [Next]_vars => [Door!Next]_doorVars /\ [Attempts!Next]_attemptVars
  BY DEF Next, Plan, Locally, AtDoor, Attempting, vars, planningVars, registryVars,
         compilerVars, mappingVars, retryVars, etaVars, localVars, doorVars, attemptVars

-----------------------------------------------------------------------------
(* The door.                                                                *)

DoorPlaces == {"queued", "token", "signature", "admit", "200", "400", "401", "408",
               "429", "done"}

DoorType ==
    /\ whereabouts \in [Tasks -> DoorPlaces]
    /\ spawned \in [Tasks -> Nat] /\ lost \in [Tasks -> Nat]
    /\ spent \in [Tasks -> Nat]

\* What is past the token has a good one, what is past the signature a good
\* signature: no later step looks again.
Checked(t) ==
    /\ whereabouts[t] \in {"signature", "admit"} => form[t].token
    /\ whereabouts[t] = "admit" /\ form[t].endpoint = "execute"
          => form[t].signed = form[t].body

\* A request that is spawned is answered with a 200, until that is lost.
Accounted(t) ==
    /\ spawned[t] > 0 => Door!Genuine(form[t])
    /\ spawned[t] <= lost[t] + (IF whereabouts[t] \in {"200", "done"} THEN 1 ELSE 0)
    /\ whereabouts[t] \in {"200", "done"} => spawned[t] > 0
    /\ spent[t] = spawned[t]

DoorInv == DoorType /\ \A t \in Tasks : Checked(t) /\ Accounted(t)

(* A step of one request does not touch the others.                         *)
LEMMA DoorStep == DoorInv /\ [Door!Next]_doorVars => DoorInv'
<1> SUFFICES ASSUME DoorInv, [Door!Next]_doorVars PROVE DoorInv'
  OBVIOUS
<1> USE DEF DoorInv, DoorType, DoorPlaces, Checked, Accounted, Door!history, Door!Goto
<1>1. CASE \/ Door!Process \/ Door!StartFails \/ Door!ShutdownSignal \/ Door!Refill
           \/ UNCHANGED doorVars
  BY <1>1 DEF Door!Process, Door!Start, Door!Restart, Door!Exit, Door!StartFails,
              Door!ShutdownSignal, Door!Refill, doorVars
<1>2. CASE Door!Kill
  BY <1>2 DEF Door!Kill, Door!InFlight
<1>3. ASSUME NEW t \in Tasks, Door!Receive(t) PROVE DoorInv'
  BY <1>3 DEF Door!Receive
<1>4. ASSUME NEW t \in Tasks, Door!ValidateToken(t) PROVE DoorInv'
  <2>1. /\ UNCHANGED <<form, spawned, lost, spent>> /\ whereabouts[t] = "token"
        /\ \E where \in {"401", "signature", "admit"} :
              /\ whereabouts' = [whereabouts EXCEPT ![t] = where]
              /\ where # "401" => form[t].token
              /\ where = "admit" => form[t].endpoint # "execute"
    <3>1. /\ UNCHANGED <<form, spawned, lost, spent>> /\ whereabouts[t] = "token"
          /\ \/ ~form[t].token /\ whereabouts' = [whereabouts EXCEPT ![t] = "401"]
             \/ /\ form[t].token /\ form[t].endpoint = "execute"
                /\ whereabouts' = [whereabouts EXCEPT ![t] = "signature"]
             \/ /\ form[t].token /\ form[t].endpoint # "execute"
                /\ whereabouts' = [whereabouts EXCEPT ![t] = "admit"]
             \/ whereabouts' = [whereabouts EXCEPT ![t] = "401"]
      BY <1>4 DEF Door!ValidateToken
    <3> QED
      BY <3>1
  <2> QED
    BY <2>1
<1>5. ASSUME NEW t \in Tasks, Door!ValidateSignature(t) PROVE DoorInv'
  BY <1>5 DEF Door!ValidateSignature
<1>6. ASSUME NEW t \in Tasks, Door!Admit(t) PROVE DoorInv'
  <2>1. whereabouts[t] = "admit" /\ UNCHANGED <<form, lost>>
    BY <1>6 DEF Door!Admit
  <2>2. CASE /\ UNCHANGED <<spawned, spent>>
             /\ \E where \in {"400", "429"} :
                   whereabouts' = [whereabouts EXCEPT ![t] = where]
    BY <2>1, <2>2
  <2>3. CASE /\ Door!Readable(form[t])
             /\ spawned' = [spawned EXCEPT ![t] = @ + 1]
             /\ spent' = [spent EXCEPT ![t] = @ + 1]
             /\ whereabouts' = [whereabouts EXCEPT ![t] = "200"]
    <3>1. Door!Genuine(form[t])
      BY <2>1, <2>3 DEF Door!Genuine
    <3>2. DoorType'
      BY <2>1, <2>3
    <3>3. Checked(t)' /\ Accounted(t)'
      BY <2>1, <2>3, <3>1
    <3>4. \A u \in Tasks \ {t} : Checked(u)' /\ Accounted(u)'
      BY <2>1, <2>3
    <3> QED
      BY <3>2, <3>3, <3>4
  <2> QED
    BY <1>6, <2>2, <2>3 DEF Door!Admit, Door!Spawn
<1>7. ASSUME NEW t \in Tasks, Door!TimesOut(t) PROVE DoorInv'
  BY <1>7 DEF Door!TimesOut
<1>8. ASSUME NEW t \in Tasks, Door!AnswerArrives(t) PROVE DoorInv'
  BY <1>8 DEF Door!AnswerArrives, Door!Answers
<1>9. ASSUME NEW t \in Tasks, Door!AnswerLost(t) PROVE DoorInv'
  BY <1>9 DEF Door!AnswerLost, Door!Answers
<1> QED
  BY <1>1, <1>2, <1>3, <1>4, <1>5, <1>6, <1>7, <1>8, <1>9 DEF Door!Next, Door!Handle

(* Only what is genuine is started, more than once only after a lost        *)
(* answer; what its caller regards as done was started; and only what is    *)
(* started costs the tenant: past any number of refusals, kills, lost       *)
(* answers and restarts.                                                    *)
THEOREM AdmissionIsSound == Spec => []AdmissionSound
<1>1. Init => DoorInv
  BY DEF Init, Door!Init, DoorInv, DoorType, DoorPlaces, Checked, Accounted
<1>2. DoorInv /\ [Next]_vars => DoorInv'
  BY WorkerSteps, DoorStep
<1>3. DoorInv => AdmissionSound
  BY DEF DoorInv, DoorType, Accounted, AdmissionSound, Door!AdmissionSound
<1> QED
  BY <1>1, <1>2, <1>3, PTL DEF Spec

-----------------------------------------------------------------------------
(* The attempts at one partition.                                           *)

ExecutorPlaces == {"claim", "lookup", "start", "enqueue", "poll", "record"}

AttemptType ==
    /\ attempt_count \in Attempts!Executions
    /\ step \in [Executors -> ExecutorPlaces]
    /\ claimed \in [Executors -> Attempts!Executions]
    /\ ending \in [Executors -> {"none", "ok", "error"}]
    /\ DOMAIN execution = Attempts!Executions
    /\ tasks \subseteq 1 .. MaxRetries

\* An executor that works on the partition holds its row, alone and for the
\* latest attempt.
Holds(e) == rowState = "running" /\ claimed[e] = attempt_count /\ attempt_count > 0

Holding ==
    /\ rowState = "pending" => attempt_count = 0
    /\ \A e \in Executors : step[e] # "claim" => Holds(e)
    /\ \A e, f \in Executors : step[e] # "claim" /\ step[f] # "claim" => e = f

\* Nothing can still be done for an attempt, or nobody waited for the end.
Over(x) ==
    execution[x] \in {"absent", "succeeded", "failed", "cancelled"} \/ x \in givenUp

\* Every attempt is over but the one that is under way, which has no execution
\* before it is started, and is over when it is recorded.
OneUnderWay ==
    /\ \A x \in 1 .. MaxRetries : x > attempt_count => execution[x] = "absent"
    /\ \A x \in 1 .. MaxRetries : x < attempt_count => Over(x)
    /\ attempt_count > 0 /\ (\A e \in Executors : step[e] \in {"claim", "record"})
          => Over(attempt_count)
    /\ \A e \in Executors :
          step[e] \in {"lookup", "start"} => execution[attempt_count] = "absent"

\* A success is delivered work, and is recorded of the attempt that had it.
Delivering ==
    /\ \A x \in 1 .. MaxRetries : execution[x] = "succeeded" => x \in delivered
    /\ \A e \in Executors :
          step[e] = "record" /\ ending[e] = "ok" => execution[attempt_count] = "succeeded"
    /\ rowState = "completed"
          => attempt_count \in delivered /\ execution_id = {attempt_count}

\* What was started by hand has no task, so nothing but a cancel ends it.
ByHandOnly ==
    /\ execution[Attempts!ByHand] \in {"absent", "pending", "cancelled"}
    /\ operator \in Attempts!Final => execution[Attempts!ByHand] = operator

AttemptInv == AttemptType /\ Holding /\ OneUnderWay /\ Delivering /\ ByHandOnly

(* An executor that is at work holds the row and is the only one.           *)
LEMMA Alone ==
  ASSUME AttemptInv, NEW e \in Executors, step[e] # "claim"
  PROVE  /\ rowState = "running" /\ claimed[e] = attempt_count
         /\ attempt_count \in 1 .. MaxRetries
         /\ \A f \in Executors \ {e} : step[f] = "claim"
  BY PlanningAssumption
  DEF AttemptInv, AttemptType, Holding, Holds, Attempts!Executions

(* A step that moves the executor alone keeps the row's holder.             *)
LEMMA HoldingKept ==
  ASSUME AttemptInv, NEW e \in Executors, step[e] # "claim",
         NEW where \in ExecutorPlaces, step' = [step EXCEPT ![e] = where],
         UNCHANGED <<rowState, attempt_count, claimed>>
  PROVE  Holding'
<1>1. /\ rowState = "running" /\ claimed[e] = attempt_count
      /\ attempt_count \in 1 .. MaxRetries
      /\ \A f \in Executors \ {e} : step[f] = "claim"
  BY Alone
<1>2. \A f \in Executors \ {e} : step'[f] = "claim"
  BY <1>1 DEF AttemptInv, AttemptType
<1> QED
  BY <1>1, <1>2 DEF Holding, Holds

(* What is over stays over, however its execution is moved on.              *)
LEMMA OverStays ==
  ASSUME NEW x, Over(x), execution'[x] = execution[x], givenUp \subseteq givenUp'
  PROVE  Over(x)'
  BY DEF Over

(* The executor finds the workflow or not; nothing is started yet.          *)
LEMMA FindWorkflowStep ==
  ASSUME AttemptInv, NEW e \in Executors, Attempts!FindWorkflow(e)
  PROVE  AttemptInv'
<1>1. PICK where \in {"start", "record"} :
         /\ step[e] = "lookup" /\ step' = [step EXCEPT ![e] = where]
         /\ \/ ending' = ending /\ where = "start"
            \/ ending' = [ending EXCEPT ![e] = "error"] /\ where = "record"
  BY DEF Attempts!FindWorkflow, Attempts!Goto, Attempts!EndsAs
<1>2. UNCHANGED <<rowState, attempt_count, execution_id, claimed, execution, tasks,
                  operator, delivered, givenUp>>
  BY DEF Attempts!FindWorkflow, Attempts!partitionVars
<1>3. /\ attempt_count \in 1 .. MaxRetries
      /\ \A f \in Executors \ {e} : step[f] = "claim"
      /\ rowState = "running"
  BY <1>1, Alone
<1>4. step \in [Executors -> ExecutorPlaces] /\ ending \in [Executors -> {"none", "ok", "error"}]
  BY DEF AttemptInv, AttemptType
<1>5. AttemptType'
  BY <1>1, <1>2 DEF AttemptInv, AttemptType, ExecutorPlaces
<1>6. Holding'
  BY <1>1, <1>2, HoldingKept DEF ExecutorPlaces
<1>7. OneUnderWay'
  <2>1. execution[attempt_count] = "absent" /\ Over(attempt_count)
    BY <1>1 DEF AttemptInv, OneUnderWay, Over
  <2>2. \A x : Over(x) => Over(x)'
    BY <1>2 DEF Over
  <2> QED
    BY <1>2, <2>1, <2>2 DEF AttemptInv, OneUnderWay
<1>8. Delivering'
  <2>1. \A f \in Executors : step'[f] = "record" => ending'[f] # "ok"
    BY <1>1, <1>3, <1>4
  <2> QED
    BY <1>2, <2>1 DEF AttemptInv, Delivering
<1>9. ByHandOnly'
  BY <1>2 DEF AttemptInv, ByHandOnly
<1> QED
  BY <1>5, <1>6, <1>7, <1>8, <1>9 DEF AttemptInv

(* The execution of the latest attempt is created; nobody else has one.     *)
LEMMA StartExecutionStep ==
  ASSUME AttemptInv, NEW e \in Executors, Attempts!StartExecution(e)
  PROVE  AttemptInv'
<1>1. step[e] = "start"
  BY DEF Attempts!StartExecution
<1>2. /\ rowState = "running" /\ claimed[e] = attempt_count
      /\ attempt_count \in 1 .. MaxRetries
      /\ \A f \in Executors \ {e} : step[f] = "claim"
  BY <1>1, Alone
<1>3. execution[attempt_count] = "absent"
  BY <1>1 DEF AttemptInv, OneUnderWay
<1>4. /\ execution' = [execution EXCEPT ![attempt_count] = "pending"]
      /\ step' = [step EXCEPT ![e] = "enqueue"]
      /\ UNCHANGED <<rowState, attempt_count, execution_id, claimed, ending, tasks,
                     operator, delivered, givenUp>>
  BY <1>2, <1>3 DEF Attempts!StartExecution, Attempts!IdempotencyKey,
       Attempts!SetExecution, Attempts!Goto, Attempts!partitionVars
<1>5. /\ step \in [Executors -> ExecutorPlaces] /\ DOMAIN execution = Attempts!Executions
      /\ \A x \in 1 .. MaxRetries : x # attempt_count => execution'[x] = execution[x]
      /\ execution'[attempt_count] = "pending" /\ execution'[0] = execution[0]
  BY <1>2, <1>4, PlanningAssumption DEF AttemptInv, AttemptType, Attempts!Executions
<1>6. AttemptType'
  BY <1>4 DEF AttemptInv, AttemptType, ExecutorPlaces
<1>7. Holding'
  BY <1>1, <1>4, HoldingKept DEF ExecutorPlaces
<1>8. OneUnderWay'
  <2>1. \A x \in 1 .. MaxRetries : x < attempt_count => Over(x)'
    <3> TAKE x \in 1 .. MaxRetries
    <3> HAVE x < attempt_count
    <3>1. Over(x) /\ execution'[x] = execution[x] /\ givenUp' = givenUp
      BY <1>2, <1>4, <1>5 DEF AttemptInv, OneUnderWay
    <3> QED
      BY <3>1, OverStays
  <2>2. \A x \in 1 .. MaxRetries : x > attempt_count => execution'[x] = "absent"
    BY <1>2, <1>5 DEF AttemptInv, OneUnderWay
  <2>3. step'[e] = "enqueue" /\ \A f \in Executors \ {e} : step'[f] = "claim"
    BY <1>2, <1>4, <1>5
  <2> QED
    BY <1>4, <2>1, <2>2, <2>3 DEF OneUnderWay
<1>9. Delivering'
  <2>1. \A f \in Executors : step'[f] # "record"
    BY <1>2, <1>4, <1>5
  <2>2. rowState' # "completed"
    BY <1>2, <1>4
  <2>3. \A x \in 1 .. MaxRetries : execution'[x] = "succeeded" => x \in delivered'
    BY <1>4, <1>5 DEF AttemptInv, Delivering
  <2> QED
    BY <2>1, <2>2, <2>3 DEF Delivering
<1>10. ByHandOnly'
  BY <1>4, <1>5 DEF AttemptInv, ByHandOnly, Attempts!ByHand
<1> QED
  BY <1>6, <1>7, <1>8, <1>9, <1>10 DEF AttemptInv

(* The task is made, or the attempt is given up.                            *)
LEMMA EnqueueStep ==
  ASSUME AttemptInv, NEW e \in Executors, Attempts!Enqueue(e)
  PROVE  AttemptInv'
<1>1. step[e] = "enqueue"
  BY DEF Attempts!Enqueue
<1>2. /\ rowState = "running" /\ claimed[e] = attempt_count
      /\ attempt_count \in 1 .. MaxRetries
      /\ \A f \in Executors \ {e} : step[f] = "claim"
  BY <1>1, Alone
<1>3. /\ UNCHANGED <<rowState, attempt_count, execution_id, claimed, execution, operator,
                     delivered>>
      /\ tasks' \in {tasks, tasks \cup {attempt_count}}
      /\ \/ /\ step' = [step EXCEPT ![e] = "poll"]
            /\ UNCHANGED <<ending, givenUp>>
         \/ /\ step' = [step EXCEPT ![e] = "record"]
            /\ ending' = [ending EXCEPT ![e] = "error"]
            /\ givenUp' = givenUp \cup {attempt_count}
  BY <1>2 DEF Attempts!Enqueue, Attempts!partitionVars, Attempts!IdempotencyKey,
       Attempts!EndsAs, Attempts!Goto
<1>4. step \in [Executors -> ExecutorPlaces] /\ ending \in [Executors -> {"none", "ok", "error"}]
  BY DEF AttemptInv, AttemptType
<1>5. AttemptType'
  BY <1>2, <1>3 DEF AttemptInv, AttemptType, ExecutorPlaces
<1>6. Holding'
  BY <1>1, <1>3, HoldingKept DEF ExecutorPlaces
<1>7. \/ step'[e] = "poll"
      \/ step'[e] = "record" /\ ending'[e] = "error" /\ attempt_count \in givenUp'
  BY <1>3, <1>4
<1>8. \A f \in Executors \ {e} : step'[f] = "claim"
  BY <1>2, <1>3, <1>4
<1>9. OneUnderWay'
  <2>1. \A x : Over(x) => Over(x)'
    BY <1>3 DEF Over
  <2>2. step'[e] = "record" => Over(attempt_count)'
    BY <1>3, <1>7 DEF Over
  <2> QED
    BY <1>3, <1>7, <1>8, <2>1, <2>2 DEF AttemptInv, OneUnderWay
<1>10. Delivering'
  BY <1>2, <1>3, <1>7, <1>8 DEF AttemptInv, Delivering
<1>11. ByHandOnly'
  BY <1>3 DEF AttemptInv, ByHandOnly
<1> QED
  BY <1>5, <1>6, <1>9, <1>10, <1>11 DEF AttemptInv

(* An execution moves on; one whose state is final does not.                *)
LEMMA ExecutionMoves ==
  ASSUME AttemptInv, NEW x \in Attempts!Executions,
         Attempts!Run(x) \/ Attempts!FinishRun(x) \/ Attempts!CancelExecution(x)
  PROVE  AttemptInv'
<1>1. PICK s \in {"running", "succeeded", "failed", "timeout", "cancelled"} :
         /\ execution' = [execution EXCEPT ![x] = s]
         /\ s = "running" => x \in tasks
         /\ s \in {"succeeded", "failed", "timeout"} => execution[x] = "running"
         /\ s = "succeeded" => x \in delivered'
  BY DEF Attempts!Run, Attempts!FinishRun, Attempts!CancelExecution, Attempts!SetExecution
<1>2. /\ execution[x] \notin {"absent", "succeeded", "failed", "cancelled"}
      /\ delivered \subseteq delivered'
      /\ UNCHANGED <<rowState, attempt_count, execution_id, step, claimed, ending, tasks,
                     operator, givenUp>>
  BY DEF Attempts!Run, Attempts!FinishRun, Attempts!CancelExecution,
       Attempts!partitionVars, Attempts!executorVars
<1>3. /\ execution'[x] = s /\ DOMAIN execution' = Attempts!Executions
      /\ \A y \in Attempts!Executions \ {x} : execution'[y] = execution[y]
  BY <1>1 DEF AttemptInv, AttemptType
<1>4. AttemptType' /\ Holding'
  BY <1>2, <1>3 DEF AttemptInv, AttemptType, Holding, Holds
<1>5. /\ \A y \in Attempts!Executions :
            execution[y] \in {"absent", "succeeded", "failed", "cancelled"}
               => execution'[y] = execution[y]
      /\ \A y \in Attempts!Executions : Over(y) => Over(y)'
      /\ 1 .. MaxRetries \subseteq Attempts!Executions
      /\ attempt_count \in Attempts!Executions
  BY <1>2, <1>3, PlanningAssumption DEF AttemptInv, AttemptType, Over, Attempts!Executions
<1>6. OneUnderWay'
  BY <1>2, <1>5 DEF AttemptInv, OneUnderWay
<1>7. Delivering'
  BY <1>1, <1>2, <1>3, <1>5 DEF AttemptInv, Delivering
<1>8. ByHandOnly'
  <2>1. CASE x # Attempts!ByHand
    <3>1. execution'[Attempts!ByHand] = execution[Attempts!ByHand]
      BY <1>3, <2>1, PlanningAssumption DEF Attempts!ByHand, Attempts!Executions
    <3> QED
      BY <1>2, <3>1 DEF AttemptInv, ByHandOnly
  <2>2. CASE x = Attempts!ByHand
    <3>1. execution[x] = "pending" /\ x \notin tasks
      BY <1>2, <2>2 DEF AttemptInv, AttemptType, ByHandOnly, Attempts!ByHand
    <3>2. s = "cancelled" /\ operator' \notin Attempts!Final
      BY <1>1, <1>2, <2>2, <3>1 DEF AttemptInv, ByHandOnly, Attempts!Final
    <3> QED
      BY <1>3, <2>2, <3>2 DEF ByHandOnly
  <2> QED
    BY <2>1, <2>2
<1> QED
  BY <1>4, <1>6, <1>7, <1>8 DEF AttemptInv

(* A claim makes a new attempt, a wait ends, an outcome is recorded.        *)
LEMMA RowStep ==
  ASSUME AttemptInv, NEW e \in Executors,
         \/ Attempts!Claim(e) \/ Attempts!Poll(e)
         \/ Attempts!WaitEnds(e) \/ Attempts!Record(e)
  PROVE  AttemptInv'
<1> USE PlanningAssumption
    DEF AttemptInv, AttemptType, ExecutorPlaces, Holds, Holding, Over, OneUnderWay,
        Delivering, ByHandOnly, Attempts!Executions, Attempts!ByHand, Attempts!Final,
        Attempts!Goto, Attempts!EndsAs, Attempts!IdempotencyKey
<1>1. CASE Attempts!Claim(e)
  BY <1>1 DEF Attempts!Claim
<1>2. CASE Attempts!Poll(e)
  BY <1>2 DEF Attempts!Poll, Attempts!partitionVars
<1>3. CASE Attempts!WaitEnds(e)
  BY <1>3 DEF Attempts!WaitEnds, Attempts!partitionVars
<1>4. CASE Attempts!Record(e)
  BY <1>4 DEF Attempts!Record
<1> QED
  BY <1>1, <1>2, <1>3, <1>4

(* What the operator does moves nothing but the execution made by hand.     *)
LEMMA OperatorStep ==
  ASSUME AttemptInv,
         \/ Attempts!RunByHand \/ Attempts!PollStatus \/ Attempts!StopPolling
         \/ Attempts!CreateWorkflow \/ UNCHANGED attemptVars
  PROVE  AttemptInv'
<1>1. /\ UNCHANGED <<rowState, attempt_count, execution_id, step, claimed, ending, tasks,
                     delivered, givenUp>>
      /\ execution' \in {execution, [execution EXCEPT ![0] = "pending"]}
  BY DEF Attempts!RunByHand, Attempts!PollStatus, Attempts!StopPolling,
         Attempts!CreateWorkflow, attemptVars, Attempts!partitionVars,
         Attempts!executorVars, Attempts!SetExecution, Attempts!ByHand
<1>2. \A x \in 1 .. MaxRetries : execution'[x] = execution[x]
  BY <1>1, PlanningAssumption DEF AttemptInv, AttemptType, Attempts!Executions
<1>3. attempt_count > 0 => attempt_count \in 1 .. MaxRetries
  BY PlanningAssumption DEF AttemptInv, AttemptType, Attempts!Executions
<1>4. AttemptType' /\ Holding'
  BY <1>1 DEF AttemptInv, AttemptType, Holding, Holds
<1>5. \A x \in 1 .. MaxRetries : Over(x) => Over(x)'
  BY <1>1, <1>2 DEF Over
<1>6. \A e \in Executors : step[e] # "claim" => attempt_count \in 1 .. MaxRetries
  BY Alone
<1>7. OneUnderWay'
  BY <1>1, <1>2, <1>3, <1>5, <1>6 DEF AttemptInv, OneUnderWay
<1>8. Delivering'
  BY <1>1, <1>2, <1>6 DEF AttemptInv, Delivering
<1>9. ByHandOnly'
  <2>1. CASE Attempts!RunByHand
    <3>1. execution'[0] = "pending" /\ operator' \in {"polling", "started"}
      BY <2>1, PlanningAssumption
      DEF Attempts!RunByHand, Attempts!SetExecution, Attempts!ByHand,
          AttemptInv, AttemptType, Attempts!Executions
    <3> QED
      BY <3>1 DEF ByHandOnly, Attempts!ByHand, Attempts!Final
  <2>2. CASE Attempts!PollStatus
    BY <2>2 DEF Attempts!PollStatus, AttemptInv, ByHandOnly
  <2>3. CASE Attempts!StopPolling
    BY <2>3 DEF Attempts!StopPolling, AttemptInv, ByHandOnly, Attempts!Final
  <2>4. CASE Attempts!CreateWorkflow \/ UNCHANGED attemptVars
    BY <2>4 DEF Attempts!CreateWorkflow, attemptVars, AttemptInv, ByHandOnly
  <2> QED
    BY <2>1, <2>2, <2>3, <2>4
<1> QED
  BY <1>4, <1>7, <1>8, <1>9 DEF AttemptInv

(* No two executors work on the partition at once, and each records what    *)
(* its own execution came to.                                               *)
LEMMA AttemptStep == AttemptInv /\ [Attempts!Next]_attemptVars => AttemptInv'
<1> SUFFICES ASSUME AttemptInv, [Attempts!Next]_attemptVars PROVE AttemptInv'
  OBVIOUS
<1>1. ASSUME NEW e \in Executors, Attempts!Attempt(e) \/ Attempts!WaitEnds(e)
      PROVE  AttemptInv'
  BY <1>1, RowStep, FindWorkflowStep, StartExecutionStep, EnqueueStep DEF Attempts!Attempt
<1>2. ASSUME NEW x \in Attempts!Executions,
             Attempts!Run(x) \/ Attempts!FinishRun(x) \/ Attempts!CancelExecution(x)
      PROVE  AttemptInv'
  BY <1>2, ExecutionMoves
<1>3. CASE \/ Attempts!RunByHand \/ Attempts!PollStatus \/ Attempts!StopPolling
           \/ Attempts!CreateWorkflow \/ UNCHANGED attemptVars
  BY <1>3, OperatorStep
<1> QED
  BY <1>1, <1>2, <1>3 DEF Attempts!Next

(* A completed partition names the execution of its last attempt, whose     *)
(* work ended well; two attempts are at work at once only if the earlier    *)
(* was given up; what servo run reports stays true: for every number of     *)
(* executors and retries.                                                   *)
THEOREM AttemptsAreSound == Spec => []AttemptsSound
<1>1. Init => AttemptInv
  BY PlanningAssumption
  DEF Init, Attempts!Init, AttemptInv, AttemptType, ExecutorPlaces, Holding, OneUnderWay,
      Delivering, ByHandOnly, Attempts!Executions, Attempts!ByHand, Attempts!Final
<1>2. AttemptInv /\ [Next]_vars => AttemptInv'
  BY WorkerSteps, AttemptStep
<1>3. ASSUME AttemptInv PROVE AttemptsSound
  <2>1. rowState = "completed" => execution_id = {attempt_count} /\ execution_id \subseteq delivered
    BY <1>3 DEF AttemptInv, Delivering
  <2>2. ASSUME NEW x \in 1 .. MaxRetries, NEW y \in 1 .. MaxRetries,
               x < y, Attempts!Live(x), execution[y] # "absent"
        PROVE  x \in givenUp
    <3>1. x < attempt_count
      BY <1>3, <2>2, PlanningAssumption
      DEF AttemptInv, AttemptType, OneUnderWay, Attempts!Executions
    <3> QED
      BY <1>3, <2>2, <3>1 DEF AttemptInv, OneUnderWay, Over, Attempts!Live
  <2>3. operator \in Attempts!Final => execution[Attempts!ByHand] = operator
    BY <1>3 DEF AttemptInv, ByHandOnly
  <2> QED
    BY <2>1, <2>2, <2>3 DEF AttemptsSound, Attempts!AttemptsSound
<1> QED
  BY <1>1, <1>2, <1>3, PTL DEF Spec
=============================================================================
