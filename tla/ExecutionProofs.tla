--------------------------- MODULE ExecutionProofs ---------------------------
(***************************************************************************)
(* What holds of an execution for every number of clients, workers,        *)
(* deliveries, retries, cancellations and faults.                          *)
(***************************************************************************)
EXTENDS ExecutionLifecycle, TLAPS

\* Who is about to write the row holds a coherent copy in a state it checked.
Snapshots ==
    /\ \A w \in Workers :
         /\ pc[w] = "start" => Coherent(current[w]) /\ current[w].state = "pending"
         /\ pc[w] = "finish" => Coherent(current[w]) /\ current[w].state = "running"
    /\ cancelling =>
         /\ Coherent(toCancel)
         /\ toCancel.state \notin {"absent", "succeeded", "failed", "cancelled"}

\* Only the caller that created the row talks to the queue.
Creator ==
    /\ row.state = "absent" =>
         tasks = 0 /\ \A c \in Clients : client[c] = "idle"
    /\ tasks <= faults + 1
    /\ \A c \in Clients : client[c] = "enqueue" => tasks <= faults
    /\ \A c, d \in Clients : client[c] = "enqueue" /\ client[d] = "enqueue" => c = d

\* After one delivery there is one worker, and nobody has moved the row under it.
Alone ==
    /\ deliveries = 0 => \A w \in Workers : pc[w] = "idle"
    /\ deliveries <= 1 => \A v, w \in Workers : pc[v] # "idle" /\ pc[w] # "idle" => v = w
    /\ cancels = 0 => ~cancelling
    /\ deliveries <= 1 /\ cancels = 0 => \A w \in Workers :
         /\ pc[w] = "start" => row.state = "pending"
         /\ pc[w] = "finish" => row.state = "running"

IInv == TypeOK /\ RowCoherent /\ Snapshots /\ Creator /\ Alone

-----------------------------------------------------------------------------
(* The row written by Start and by Finish, from a copy that was checked.    *)
LEMMA StartedRow ==
    ASSUME NEW r \in Row, Coherent(r), r.state = "pending"
    PROVE  LET s == [r EXCEPT !.state = "running", !.started = TRUE]
           IN  s \in Row /\ s.state = "running" /\ Coherent(s)
BY DEF Row, Coherent, Ended

LEMMA FinishedRow ==
    ASSUME NEW r \in Row, Coherent(r), r.state = "running", NEW q \in Results
    PROVE  LET s == [r EXCEPT !.state = FinalState(q), !.completed = TRUE,
                              !.error = @ \/ q = "error"]
           IN  s \in Row /\ s.state = FinalState(q) /\ Coherent(s)
BY DEF Row, Coherent, Ended, Results, FinalState

LEMMA CancelledRow ==
    ASSUME NEW r \in Row, Coherent(r), r.state \notin {"succeeded", "failed", "cancelled"}
    PROVE  LET s == [r EXCEPT !.state = "cancelled", !.completed = TRUE]
           IN  s \in Row /\ s.state = "cancelled" /\ Coherent(s)
BY DEF Row, Coherent, Ended

LEMMA FinalStates == \A q \in Results : FinalState(q) \in {"succeeded", "timeout", "failed"}
BY DEF Results, FinalState

LEMMA BlankRow == \A s \in {"absent", "pending"} :
    Blank(s) \in Row /\ Blank(s).state = s /\ Coherent(Blank(s))
BY DEF Blank, Row, Coherent, Ended

LEMMA InitIInv == Init => IInv
<1> SUFFICES ASSUME Init PROVE IInv
  OBVIOUS
<1>1. TypeOK
  <2>1. Blank("absent") \in Row /\ "ok" \in Results /\ 1 \in 1 .. MaxRetries
    BY ExecutionAssumption, BlankRow DEF Results
  <2>2. /\ deliveries \in 0 .. MaxDeliveries /\ cancels \in 0 .. MaxCancels
        /\ faults \in 0 .. MaxFaults
    BY ExecutionAssumption DEF Init
  <2> QED
    BY <2>1, <2>2 DEF Init, TypeOK
<1>2. RowCoherent /\ Snapshots /\ Creator /\ Alone
  BY ExecutionAssumption, BlankRow DEF Init, RowCoherent, Snapshots, Creator, Alone
<1> QED
  BY <1>1, <1>2 DEF IInv

-----------------------------------------------------------------------------
(* A step that leaves the row, the clients and the queue's task count alone *)
(* keeps what is said of them.                                              *)
LEMMA CreatorFrame ==
    ASSUME TypeOK, TypeOK', Creator, UNCHANGED <<tasks, client>>,
           faults' \in {faults, faults + 1}, row'.state = "absent" => row.state = "absent"
    PROVE  Creator'
<1>1. tasks' = tasks /\ client' = client /\ tasks \in Nat /\ faults \in Nat /\ faults' \in Nat
  BY ExecutionAssumption DEF TypeOK
<1>2. tasks <= faults + 1
  BY DEF Creator
<1>3. tasks' <= faults' + 1
  <2>1. CASE faults' = faults
    BY <1>1, <1>2, <2>1
  <2>2. CASE faults' = faults + 1
    BY <1>1, <1>2, <2>2
  <2> QED
    BY <2>1, <2>2
<1>4. \A c \in Clients : client[c] = "enqueue" => tasks' <= faults'
  BY <1>1 DEF Creator
<1> QED
  BY <1>1, <1>3, <1>4 DEF Creator

(* A step that leaves row, workers and deliveries alone.                    *)
LEMMA WorkerFrame ==
    ASSUME RowCoherent, Snapshots, Alone, UNCHANGED <<row, pc, current, deliveries, operatorVars>>
    PROVE  RowCoherent' /\ Snapshots' /\ Alone'
BY DEF RowCoherent, Snapshots, Alone, operatorVars

(* A worker that gives up, or moves on to a step that writes nothing.       *)
LEMMA QuietMove ==
    ASSUME TypeOK, RowCoherent, Snapshots, Alone, NEW w \in Workers, pc[w] # "idle",
           NEW l \in {"idle", "work", "record"}, pc' = [pc EXCEPT ![w] = l],
           UNCHANGED <<row, deliveries, operatorVars>>,
           \A v \in Workers \ {w} : current'[v] = current[v]
    PROVE  RowCoherent' /\ Snapshots' /\ Alone'
<1>1. \A v \in Workers : pc'[v] = IF v = w THEN l ELSE pc[v]
  BY DEF TypeOK
<1> QED
  BY <1>1 DEF RowCoherent, Snapshots, Alone, operatorVars

(* Reading the row: the copy is the row.                                    *)
LEMMA ReadMove ==
    ASSUME TypeOK, RowCoherent, Snapshots, Alone, NEW w \in Workers, pc[w] # "idle",
           NEW l \in {"start", "finish"},
           row.state = (IF l = "start" THEN "pending" ELSE "running"),
           pc' = [pc EXCEPT ![w] = l], current' = [current EXCEPT ![w] = row],
           UNCHANGED <<row, deliveries, operatorVars>>
    PROVE  RowCoherent' /\ Snapshots' /\ Alone'
<1>1. \A v \in Workers : pc'[v] = IF v = w THEN l ELSE pc[v]
  BY DEF TypeOK
<1>2. \A v \in Workers : current'[v] = IF v = w THEN row ELSE current[v]
  BY DEF TypeOK
<1> QED
  BY <1>1, <1>2 DEF RowCoherent, Snapshots, Alone, operatorVars

(* Writing the row: alone, this worker is the only one that could have had  *)
(* expectations about it.                                                   *)
LEMMA WriteMove ==
    ASSUME TypeOK, RowCoherent, Snapshots, Alone, NEW w \in Workers, pc[w] # "idle",
           NEW l \in {"idle", "work", "record"}, pc' = [pc EXCEPT ![w] = l],
           Coherent(row'), UNCHANGED <<deliveries, operatorVars>>,
           \A v \in Workers \ {w} : current'[v] = current[v]
    PROVE  RowCoherent' /\ Snapshots' /\ Alone'
<1>1. \A v \in Workers : pc'[v] = IF v = w THEN l ELSE pc[v]
  BY DEF TypeOK
<1> QED
  BY <1>1 DEF RowCoherent, Snapshots, Alone, operatorVars

-----------------------------------------------------------------------------
LEMMA ClientStepIInv ==
    ASSUME IInv, NEW c \in Clients,
           \/ ClientStep(c)
           \/ \E retryable, created \in BOOLEAN : CreateTaskFails(c, retryable, created)
    PROVE  IInv'
<1> USE ExecutionAssumption DEF IInv, queueVars, clientVars, workerVars, operatorVars
<1>1. CASE StartCreates(c)
  <2>1. TypeOK'
    BY <1>1, BlankRow DEF StartCreates, TypeOK
  <2>2. Creator'
    BY <1>1, BlankRow DEF StartCreates, Creator, TypeOK
  <2>3. RowCoherent' /\ Snapshots' /\ Alone'
    BY <1>1, BlankRow DEF StartCreates, RowCoherent, Snapshots, Alone
  <2> QED
    BY <2>1, <2>2, <2>3
<1>2. CASE StartFindsExisting(c)
  <2>1. TypeOK'
    BY <1>2 DEF StartFindsExisting, TypeOK
  <2>2. Creator'
    BY <1>2 DEF StartFindsExisting, Creator
  <2>3. RowCoherent' /\ Snapshots' /\ Alone'
    BY <1>2, WorkerFrame DEF StartFindsExisting
  <2> QED
    BY <2>1, <2>2, <2>3
<1>3. CASE CreateTask(c)
  <2>1. TypeOK'
    BY <1>3 DEF CreateTask, Answer, TypeOK
  <2>2. Creator'
    BY <1>3 DEF CreateTask, Answer, Creator, TypeOK
  <2>3. RowCoherent' /\ Snapshots' /\ Alone'
    BY <1>3, WorkerFrame DEF CreateTask
  <2> QED
    BY <2>1, <2>2, <2>3
<1>4. ASSUME NEW retryable \in BOOLEAN, NEW created \in BOOLEAN,
             CreateTaskFails(c, retryable, created)
      PROVE  IInv'
  <2>1. /\ tasks' \in {tasks, tasks + 1}
        /\ faults' = faults + 1 /\ faults' \in 0 .. MaxFaults
        /\ UNCHANGED <<row, deliveries, accepted, workerVars, operatorVars>>
    BY <1>4 DEF CreateTaskFails, Fault, TypeOK
  <2>2. /\ client[c] = "enqueue"
        /\ client' \in [Clients -> {"idle", "enqueue"}]
        /\ \A d \in Clients : client'[d] = "enqueue" => client[d] = "enqueue"
        /\ attempt' \in [Clients -> 1 .. MaxRetries]
    <3>1. CASE retryable /\ TriesLeft(c)
      BY <1>4, <3>1 DEF CreateTaskFails, TriesLeft, TypeOK
    <3>2. CASE ~(retryable /\ TriesLeft(c))
      BY <1>4, <3>2 DEF CreateTaskFails, Answer, TypeOK
    <3> QED
      BY <3>1, <3>2
  <2>3. TypeOK'
    BY <2>1, <2>2 DEF TypeOK
  <2>4. Creator'
    BY <2>1, <2>2 DEF Creator, TypeOK
  <2>5. RowCoherent' /\ Snapshots' /\ Alone'
    BY <2>1, WorkerFrame
  <2> QED
    BY <2>3, <2>4, <2>5
<1> QED
  BY <1>1, <1>2, <1>3, <1>4 DEF ClientStep

LEMMA WorkerStepIInv ==
    ASSUME IInv, NEW w \in Workers, Deliver(w) \/ WorkerStep(w) \/ Abandon(w)
    PROVE  IInv'
<1> USE ExecutionAssumption DEF IInv, queueVars, clientVars, workerVars, operatorVars
<1>1. CASE Deliver(w)
  <2>1. TypeOK'
    BY <1>1 DEF Deliver, TypeOK
  <2>2. Creator'
    BY <1>1, <2>1, CreatorFrame DEF Deliver, TypeOK
  <2>3. RowCoherent' /\ Snapshots' /\ Alone'
    <3>1. /\ pc[w] = "idle" /\ deliveries' = deliveries + 1
          /\ UNCHANGED <<row, current, operatorVars>>
          /\ \A v \in Workers : pc'[v] = IF v = w THEN "read" ELSE pc[v]
      BY <1>1 DEF Deliver, TypeOK
    <3>2. RowCoherent' /\ Snapshots'
      BY <3>1 DEF RowCoherent, Snapshots
    <3>3. deliveries \in Nat /\ (deliveries' <= 1 => deliveries = 0)
      BY <3>1 DEF TypeOK
    <3>4. Alone'
      <4>1. deliveries' # 0
        BY <3>1, <3>3
      <4>2. deliveries' <= 1 => \A v \in Workers : pc[v] = "idle"
        BY <3>3 DEF Alone
      <4>3. deliveries' <= 1 => \A v \in Workers : pc'[v] = IF v = w THEN "read" ELSE "idle"
        BY <3>1, <4>2
      <4>4. cancels' = 0 => ~cancelling'
        BY <3>1 DEF Alone
      <4> QED
        BY <4>1, <4>3, <4>4 DEF Alone
    <3> QED
      BY <3>2, <3>4
  <2> QED
    BY <2>1, <2>2, <2>3
<1>2. ASSUME Forget(w), pc[w] # "idle", UNCHANGED <<row, queueVars, accepted, clientVars, operatorVars>>,
             faults' \in {faults, faults + 1} /\ faults' \in 0 .. MaxFaults
      PROVE  IInv'
  <2>1. TypeOK'
    BY <1>2, BlankRow DEF Forget, TypeOK, Results
  <2>2. Creator'
    BY <1>2, <2>1, CreatorFrame DEF TypeOK
  <2>3. RowCoherent' /\ Snapshots' /\ Alone'
    BY <1>2, QuietMove DEF Forget, TypeOK
  <2> QED
    BY <2>1, <2>2, <2>3
<1>3. ASSUME NEW l \in {"start", "finish"},
             row.state = (IF l = "start" THEN "pending" ELSE "running"), pc[w] # "idle", pc' = [pc EXCEPT ![w] = l],
             current' = [current EXCEPT ![w] = row],
             UNCHANGED <<row, queueVars, accepted, clientVars, result, operatorVars, faults>>
      PROVE  IInv'
  <2>1. TypeOK'
    BY <1>3 DEF TypeOK
  <2>2. Creator'
    BY <1>3, <2>1, CreatorFrame DEF TypeOK
  <2>3. RowCoherent' /\ Snapshots' /\ Alone'
    BY <1>3, ReadMove
  <2> QED
    BY <2>1, <2>2, <2>3
<1>4. CASE ReadPending(w)
  <2>1. CASE row.state = "pending"
    <3>1. /\ pc[w] # "idle" /\ pc' = [pc EXCEPT ![w] = "start"]
          /\ current' = [current EXCEPT ![w] = row]
          /\ UNCHANGED <<row, queueVars, accepted, clientVars, result, operatorVars, faults>>
      BY <1>4, <2>1 DEF ReadPending
    <3> QED
      BY <2>1, <3>1, <1>3
  <2>2. CASE row.state # "pending"
    BY <1>4, <2>2, <1>2 DEF ReadPending, TypeOK
  <2> QED
    BY <2>1, <2>2
<1>5. CASE ReadRunning(w)
  <2>1. CASE row.state = "running"
    BY <1>5, <2>1, <1>3 DEF ReadRunning, MayRecord
  <2>2. CASE row.state # "running"
    BY <1>5, <2>2, <1>2 DEF ReadRunning, MayRecord, TypeOK
  <2> QED
    BY <2>1, <2>2
<1>6. CASE Start(w)
  <2>1. row' \in Row /\ row'.state = "running" /\ Coherent(row')
    BY <1>6, StartedRow DEF Start, Snapshots, TypeOK
  <2>2. TypeOK'
    BY <1>6, <2>1 DEF Start, TypeOK
  <2>3. Creator'
    BY <1>6, <2>1, <2>2, CreatorFrame DEF Start, TypeOK
  <2>4. RowCoherent' /\ Snapshots' /\ Alone'
    BY <1>6, <2>1, WriteMove DEF Start
  <2> QED
    BY <2>2, <2>3, <2>4
<1>7. ASSUME NEW r \in Results, Work(w, r) PROVE IInv'
  <2>1. TypeOK'
    BY <1>7 DEF Work, TypeOK
  <2>2. Creator'
    BY <1>7, <2>1, CreatorFrame DEF Work, TypeOK
  <2>3. RowCoherent' /\ Snapshots' /\ Alone'
    BY <1>7, QuietMove DEF Work
  <2> QED
    BY <2>1, <2>2, <2>3
<1>8. CASE Finish(w)
  <2>1. result[w] \in Results /\ current[w] \in Row
    BY DEF TypeOK
  <2>2. row' \in Row /\ row'.state = FinalState(result[w]) /\ Coherent(row')
    BY <1>8, <2>1, FinishedRow DEF Finish, Snapshots
  <2>3. row'.state # "absent"
    BY <2>1, <2>2, FinalStates
  <2>4. \E l \in {"idle", "record"} :
          /\ pc' = [pc EXCEPT ![w] = l]
          /\ result' \in [Workers -> Results]
          /\ current' \in [Workers -> Row]
          /\ \A v \in Workers \ {w} : current'[v] = current[v]
    <3>1. CASE result[w] = "timeout"
      BY <1>8, <3>1 DEF Finish, TypeOK, Results
    <3>2. CASE result[w] # "timeout"
      BY <1>8, <3>2, BlankRow DEF Finish, Forget, TypeOK, Results
    <3> QED
      BY <3>1, <3>2
  <2>5. TypeOK'
    BY <1>8, <2>2, <2>4 DEF Finish, TypeOK
  <2>6. Creator'
    BY <1>8, <2>3, <2>5, CreatorFrame DEF Finish, TypeOK
  <2>7. RowCoherent' /\ Snapshots' /\ Alone'
    BY <1>8, <2>2, <2>4, WriteMove DEF Finish
  <2> QED
    BY <2>5, <2>6, <2>7
<1>9. CASE Abandon(w)
  BY <1>9, <1>2 DEF Abandon, Fault, TypeOK
<1> QED
  BY <1>1, <1>4, <1>5, <1>6, <1>7, <1>8, <1>9 DEF WorkerStep

LEMMA OperatorStepIInv ==
    ASSUME IInv, ReadToCancel \/ WriteCancelled
    PROVE  IInv'
<1> USE ExecutionAssumption DEF IInv, queueVars, clientVars, workerVars
<1>1. CASE ReadToCancel
  <2>1. cancels' = cancels + 1 /\ cancels' \in 0 .. MaxCancels /\ cancels' # 0
    BY <1>1 DEF ReadToCancel, TypeOK
  <2>2. TypeOK'
    BY <1>1, <2>1 DEF ReadToCancel, TypeOK
  <2>3. Creator'
    BY <1>1, <2>2, CreatorFrame DEF ReadToCancel
  <2>4. RowCoherent' /\ Snapshots'
    BY <1>1 DEF ReadToCancel, RowCoherent, Snapshots
  <2>5. Alone'
    BY <1>1, <2>1 DEF ReadToCancel, Alone
  <2> QED
    BY <2>2, <2>3, <2>4, <2>5
<1>2. CASE WriteCancelled
  <2>1. row' \in Row /\ row'.state = "cancelled" /\ Coherent(row')
    BY <1>2, CancelledRow DEF WriteCancelled, Snapshots, TypeOK
  <2>2. TypeOK'
    BY <1>2, <2>1, BlankRow DEF WriteCancelled, TypeOK
  <2>3. Creator'
    BY <1>2, <2>1, <2>2, CreatorFrame DEF WriteCancelled
  <2>4. RowCoherent' /\ Snapshots'
    BY <1>2, <2>1 DEF WriteCancelled, RowCoherent, Snapshots
  <2>5. Alone'
    BY <1>2 DEF WriteCancelled, Alone
  <2> QED
    BY <2>2, <2>3, <2>4, <2>5
<1> QED
  BY <1>1, <1>2

LEMMA StepIInv == IInv /\ [Next]_vars => IInv'
<1> SUFFICES ASSUME IInv, [Next]_vars PROVE IInv'
  OBVIOUS
<1>1. CASE UNCHANGED vars
  BY <1>1 DEF IInv, vars, queueVars, clientVars, workerVars, operatorVars, TypeOK, RowCoherent,
              Snapshots, Creator, Alone
<1>2. CASE Next
  BY <1>2, ClientStepIInv, WorkerStepIInv, OperatorStepIInv DEF Next
<1> QED
  BY <1>1, <1>2

(* The invariant holds of every behaviour, of all three protocols at once.  *)
THEOREM Invariant == Spec => []IInv
BY InitIInv, StepIInv, PTL DEF Spec

-----------------------------------------------------------------------------
(* Row, queue and locals have their types: no caller tries more than        *)
(* MAX_RETRIES times.                                                       *)
THEOREM TypeCorrect == Spec => []TypeOK
<1>1. IInv => TypeOK
  BY DEF IInv
<1> QED
  BY <1>1, Invariant, PTL

(* The columns of the row agree whatever copies the workers write back.     *)
THEOREM RowsAreCoherent == Spec => []RowCoherent
<1>1. IInv => RowCoherent
  BY DEF IInv
<1> QED
  BY <1>1, Invariant, PTL

(* Any number of racing and retrying callers create one task, and one more  *)
(* at most for each lost answer of the API.                                 *)
THEOREM TasksAccountedFor == Spec => []OneTaskPerExecution
<1>1. IInv => OneTaskPerExecution
  BY DEF IInv, Creator, TypeOK, OneTaskPerExecution
<1> QED
  BY <1>1, Invariant, PTL

(* With a single delivery and no cancellation every write of the row is a   *)
(* step of the abstract state machine.                                      *)
THEOREM ImplementsStates == Spec => SingleDeliveryIsLegal
<1>1. IInv /\ [Next]_vars =>
        [(deliveries' <= 1 /\ cancels = 0 /\ row.state # "absent")
            => (States!Next \/ UNCHANGED row)]_vars
  <2> SUFFICES ASSUME IInv, Next, deliveries' <= 1, cancels = 0, row.state # "absent"
               PROVE  States!Next \/ UNCHANGED row
    BY DEF vars
  <2> USE DEF IInv, queueVars, clientVars, workerVars, operatorVars
  <2>1. ASSUME NEW c \in Clients, ClientStep(c) PROVE UNCHANGED row
    BY <2>1 DEF ClientStep, StartCreates, StartFindsExisting, CreateTask
  <2>2. ASSUME NEW c \in Clients, NEW retryable \in BOOLEAN, NEW created \in BOOLEAN,
               CreateTaskFails(c, retryable, created)
        PROVE  UNCHANGED row
    BY <2>2 DEF CreateTaskFails
  <2>3. ASSUME NEW w \in Workers, Start(w) PROVE States!Next
    <3>1. row.state = "pending"
      BY <2>3 DEF Start, Alone
    <3>2. row'.state = "running"
      BY <2>3, StartedRow DEF Start, Snapshots, TypeOK
    <3> QED
      BY <3>1, <3>2 DEF States!Next, States!IsValidTransition, States!ExecutionState
  <2>4. ASSUME NEW w \in Workers, Finish(w) PROVE States!Next
    <3>1. row.state = "running"
      BY <2>4 DEF Finish, Alone
    <3>2. result[w] \in Results /\ current[w] \in Row
      BY DEF TypeOK
    <3>3. row'.state = FinalState(result[w])
      BY <2>4, <3>2, FinishedRow DEF Finish, Snapshots
    <3> QED
      BY <3>1, <3>2, <3>3, FinalStates
         DEF States!Next, States!IsValidTransition, States!ExecutionState, States!Ended
  <2>5. ASSUME NEW w \in Workers, Deliver(w) \/ ReadPending(w) \/ ReadRunning(w) \/ Abandon(w)
               \/ \E r \in Results : Work(w, r)
        PROVE  UNCHANGED row
    BY <2>5 DEF Deliver, ReadPending, ReadRunning, Abandon, Work
  <2>6. ASSUME ReadToCancel \/ WriteCancelled PROVE UNCHANGED row
    BY <2>6 DEF ReadToCancel, WriteCancelled, Alone
  <2> QED
    BY <2>1, <2>2, <2>3, <2>4, <2>5, <2>6 DEF Next, WorkerStep
<1> QED
  BY <1>1, Invariant, PTL DEF Spec, SingleDeliveryIsLegal
=============================================================================
