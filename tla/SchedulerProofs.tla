--------------------------- MODULE SchedulerProofs ---------------------------
(***************************************************************************)
(* Proofs about Scheduler, for any number of workers, tasks, tokens and     *)
(* kinds of task: type correctness, the inductive invariant IInv, and from  *)
(* it the promises to the owner of a task.                                  *)
(***************************************************************************)
EXTENDS Scheduler, FiniteSetTheorems, TLAPS

USE WorkersAssumption, CapacityAssumption, TasksAssumption, TokensAssumption,
    InputsAssumption

(* The worker looked at by take_task is a worker.                           *)
LEMMA VictimIsWorker ==
  ASSUME NEW w \in Workers, offset \in [Workers -> Workers]
  PROVE  Victim(w) \in Workers
<1>1. \A a \in Nat, n \in Nat \ {0} : a % n \in 0..(n - 1)
  OBVIOUS
<1>2. NumWorkers \in Nat \ {0}
  BY DEF NumWorkers
<1>3. w + offset[w] \in Nat
  BY <1>2 DEF Workers
<1> QED
  BY <1>1, <1>2, <1>3 DEF Victim, Workers

(* Worker 0 exists, and the worker after one that is not the last.          *)
LEMMA WorkerNumbers ==
  /\ NumWorkers \in Nat /\ 0 \in Workers
  /\ \A i \in Workers : i + 1 < NumWorkers => i + 1 \in Workers
BY DEF Workers, NumWorkers

(* A set of tasks has a natural number of elements.                         *)
LEMMA TaskSetsFinite ==
  ASSUME NEW S, S \subseteq Tasks
  PROVE  IsFiniteSet(S) /\ Cardinality(S) \in Nat
BY FS_Subset, FS_CardinalityType

(* The kinds of task callers submit are Task structs, and so is the default.*)
LEMMA KindsAreTasks == DefaultTask \in Task /\ TaskKinds \subseteq Task
BY DEF DefaultTask, Task, CoreClass, Priority

LEMMA InitTypeOK == Init => TypeOK
<1> SUFFICES ASSUME Init PROVE TypeOK
  OBVIOUS
<1> USE DEF Init
<1>1. InputTypes
  BY DEF InputTypes, ThermalState
<1>2. CallTypes
  <2>1. call \in [at : CallAt, task : Tasks \cup {NoTask}, critical : BOOLEAN,
                  next : 0..(NumWorkers + 1), best : 0..NumWorkers, size : Nat]
    BY DEF NoCall, NoWorker, NumWorkers, CallAt
  <2> QED
    BY <2>1, KindsAreTasks DEF CallTypes
<1>3. WorkerTypes
  BY DEF WorkerTypes, WorkerAt, Workers, NumWorkers
<1>4. ShutdownTypes
  <2>1. stop \in BOOLEAN
    OBVIOUS
  <2>2. shut \in ShutdownAt /\ drainAt \in 0..NumWorkers /\ pending \subseteq Tasks
    BY DEF ShutdownAt, NumWorkers
  <2> QED
    BY <2>1, <2>2 DEF ShutdownTypes
<1>5. OutcomeTypes
  BY DEF OutcomeTypes, ZeroStats
<1> QED
  BY <1>1, <1>2, <1>3, <1>4, <1>5 DEF TypeOK

-----------------------------------------------------------------------------
(* Which part of the state each thread leaves alone.                        *)

Submission == \/ \E t \in Tasks, k \in TaskKinds : SubmitRefuse(t, k) \/ SubmitNumber(t, k)
              \/ SubmitStep
CallerStep == \/ \E s \in ThermalInputs : SetThermalState(s)
              \/ \E c \in Tokens : Cancel(c)
              \/ Tick

LEMMA NextCases ==
  ASSUME [Next]_vars
  PROVE  \/ Submission \/ (\E w \in Workers : WorkerStep(w)) \/ ShutdownBegin
         \/ ShutdownStep \/ CallerStep \/ UNCHANGED vars
BY DEF Next, Submission, CallerStep

LEMMA SubmissionFrame ==
  Submission => UNCHANGED <<inputVars, hand, offset, shutdownVars, outcomeVars>>
<1>1. ASSUME NEW t \in Tasks, NEW k \in TaskKinds, SubmitRefuse(t, k) \/ SubmitNumber(t, k)
      PROVE  UNCHANGED <<inputVars, hand, offset, shutdownVars, outcomeVars>>
  BY <1>1 DEF SubmitRefuse, SubmitNumber, workerVars
<1>2. SubmitStep => UNCHANGED <<inputVars, hand, offset, shutdownVars, outcomeVars>>
  BY DEF SubmitStep, SubmitLoadThermal, SubmitScan, SubmitNoWorker, SubmitBackpressure,
         SubmitPush, SubmitAccept, workerVars
<1> QED
  BY <1>1, <1>2 DEF Submission

LEMMA WorkerFrame ==
  ASSUME NEW w \in Workers
  PROVE  WorkerStep(w) => UNCHANGED <<inputVars, callVars, shutdownVars>>
BY DEF WorkerStep, WorkerStart, TakeTask, TakeNothing, EvaluatePredicate, Block, WaitTimeout,
       Classify, OnCancel, OnDeadlineMissed, FunctionThrows, Finish, FunctionReturns,
       CountCompleted

LEMMA ShutdownFrame ==
  ShutdownStep => UNCHANGED <<inputVars, callVars, workerVars, stop>>
BY DEF ShutdownStep, ShutdownJoin, DrainQueue, DrainTask, ShutdownEnd

LEMMA CallerFrame ==
  CallerStep => UNCHANGED <<callVars, queue, hand, offset, shutdownVars, outcomeVars, stats>>
BY DEF CallerStep, SetThermalState, Cancel, Tick, workerVars

-----------------------------------------------------------------------------
(* Type correctness.                                                        *)

LEMMA InputTypesStep == TypeOK /\ [Next]_vars => InputTypes'
<1> SUFFICES ASSUME TypeOK, [Next]_vars PROVE InputTypes'
  OBVIOUS
<1> USE DEF TypeOK, InputTypes, inputVars
<1>1. CASE CallerStep
  BY <1>1 DEF CallerStep, SetThermalState, Cancel, Tick
<1>2. CASE UNCHANGED inputVars
  BY <1>2
<1> QED
  BY <1>1, <1>2, NextCases, SubmissionFrame, WorkerFrame, ShutdownFrame DEF vars, ShutdownBegin

LEMMA CallTypesStep == TypeOK /\ CallInv /\ [Next]_vars => CallTypes'
<1> SUFFICES ASSUME TypeOK, CallInv, [Next]_vars PROVE CallTypes'
  OBVIOUS
<1> USE DEF TypeOK, CallTypes
<1>1. ASSUME NEW t \in Tasks, NEW k \in TaskKinds, SubmitRefuse(t, k) PROVE CallTypes'
  <2>1. Refusal(k) \in SubmitStatus \cup {None}
    BY DEF Refusal, SubmitStatus
  <2> QED
    BY <1>1, <2>1, KindsAreTasks DEF SubmitRefuse
<1>2. ASSUME NEW t \in Tasks, NEW k \in TaskKinds, SubmitNumber(t, k) PROVE CallTypes'
  <2>1. call' = [at |-> "scan", task |-> t, critical |-> FALSE, next |-> 0,
                 best |-> NumWorkers, size |-> 0]
    BY <1>2 DEF SubmitNumber, NoCall, NoWorker
  <2>2. NumWorkers \in Nat
    BY DEF NumWorkers
  <2>3. call' \in [at : CallAt, task : Tasks \cup {NoTask}, critical : BOOLEAN,
                   next : 0..(NumWorkers + 1), best : 0..NumWorkers, size : Nat]
    BY <2>1, <2>2 DEF CallAt
  <2> QED
    BY <1>2, <2>3, KindsAreTasks DEF SubmitNumber
<1>3. CASE SubmitLoadThermal
  <2> DEFINE critical == (thermal = "Critical")
  <2>1. critical \in BOOLEAN /\ 1 \in 0..(NumWorkers + 1)
    BY DEF NumWorkers
  <2>2. call' = [call EXCEPT !.critical = critical, !.next = 1]
    BY <1>3 DEF SubmitLoadThermal
  <2> HIDE DEF critical
  <2> QED
    BY <1>3, <2>1, <2>2 DEF SubmitLoadThermal
<1>4. CASE SubmitScan
  <2> DEFINE w == call.next - 1
             size == Cardinality(queue[w])
  <2>1. w \in Workers /\ w \in 0..NumWorkers /\ call.next + 1 \in 0..(NumWorkers + 1)
    BY <1>4 DEF SubmitScan, Workers, NumWorkers
  <2>2. size \in Nat
    BY <2>1, TaskSetsFinite DEF WorkerTypes
  <2>3. \/ call' = [call EXCEPT !.next = @ + 1, !.best = w, !.size = size]
        \/ call' = [call EXCEPT !.next = @ + 1]
    BY <1>4 DEF SubmitScan
  <2> HIDE DEF w, size
  <2> QED
    BY <1>4, <2>1, <2>2, <2>3 DEF SubmitScan
<1>5. CASE SubmitNoWorker \/ SubmitBackpressure \/ SubmitAccept
  <2>1. NoCall \in [at : CallAt, task : Tasks \cup {NoTask}, critical : BOOLEAN,
                    next : 0..(NumWorkers + 1), best : 0..NumWorkers, size : Nat]
    BY DEF NoCall, NoWorker, NumWorkers, CallAt
  <2> QED
    BY <1>5, <2>1 DEF SubmitNoWorker, SubmitBackpressure, SubmitAccept, SubmitStatus
<1>6. CASE SubmitPush
  BY <1>6 DEF SubmitPush, CallAt
<1>7. CASE UNCHANGED callVars
  BY <1>7 DEF callVars
<1> QED
  BY <1>1, <1>2, <1>3, <1>4, <1>5, <1>6, <1>7, NextCases, WorkerFrame, ShutdownFrame, CallerFrame
  DEF Submission, SubmitStep, ShutdownBegin, vars

LEMMA WorkerTypesStep == TypeOK /\ CallInv /\ [Next]_vars => WorkerTypes'
<1> SUFFICES ASSUME TypeOK, CallInv, [Next]_vars PROVE WorkerTypes'
  OBVIOUS
<1> USE DEF TypeOK, WorkerTypes, NotifyAll, WorkerAt
<1>1. ASSUME NEW t \in Tasks, NEW k \in TaskKinds, SubmitRefuse(t, k) \/ SubmitNumber(t, k)
      PROVE  WorkerTypes'
  BY <1>1 DEF SubmitRefuse, SubmitNumber, workerVars
<1>2. CASE SubmitLoadThermal \/ SubmitScan \/ SubmitNoWorker \/ SubmitBackpressure
  BY <1>2 DEF SubmitLoadThermal, SubmitScan, SubmitNoWorker, SubmitBackpressure, workerVars
<1>3. CASE SubmitPush
  <2>1. call.task \in Tasks
    BY <1>3 DEF SubmitPush, CallInv
  <2> QED
    BY <1>3, <2>1 DEF SubmitPush, workerVars
<1>4. CASE SubmitAccept
  BY <1>4 DEF SubmitAccept
<1>5. ASSUME NEW w \in Workers, WorkerStep(w) PROVE WorkerTypes'
  <2>1. CASE WorkerStart(w)
    BY <2>1 DEF WorkerStart
  <2>2. ASSUME NEW t \in Tasks, TakeTask(w, t) PROVE WorkerTypes'
    BY <2>2, WorkerNumbers DEF TakeTask
  <2>3. CASE TakeNothing(w)
    <3>1. offset[w] \in Workers
      OBVIOUS
    <3> QED
      BY <2>3, <3>1, WorkerNumbers DEF TakeNothing
  <2>4. CASE EvaluatePredicate(w)
    BY <2>4 DEF EvaluatePredicate
  <2>5. CASE Block(w) \/ WaitTimeout(w)
    BY <2>5 DEF Block, WaitTimeout
  <2>6. CASE Classify(w)
    BY <2>6 DEF Classify
  <2>7. CASE OnCancel(w) \/ OnDeadlineMissed(w) \/ FunctionThrows(w)
    BY <2>7 DEF OnCancel, OnDeadlineMissed, FunctionThrows, Finish
  <2>8. CASE FunctionReturns(w) \/ CountCompleted(w)
    BY <2>8 DEF FunctionReturns, CountCompleted
  <2> QED
    BY <1>5, <2>1, <2>2, <2>3, <2>4, <2>5, <2>6, <2>7, <2>8 DEF WorkerStep
<1>6. CASE ShutdownBegin
  BY <1>6 DEF ShutdownBegin
<1>7. CASE ShutdownStep
  BY <1>7 DEF ShutdownStep, ShutdownJoin, DrainQueue, DrainTask, ShutdownEnd, workerVars
<1>8. CASE CallerStep
  BY <1>8 DEF CallerStep, SetThermalState, Cancel, Tick, workerVars
<1>9. CASE UNCHANGED vars
  BY <1>9 DEF vars, workerVars
<1> QED
  BY <1>1, <1>2, <1>3, <1>4, <1>5, <1>6, <1>7, <1>8, <1>9, NextCases DEF Submission, SubmitStep

LEMMA ShutdownTypesStep == TypeOK /\ [Next]_vars => ShutdownTypes'
<1> SUFFICES ASSUME TypeOK, [Next]_vars PROVE ShutdownTypes'
  OBVIOUS
<1> USE DEF TypeOK, ShutdownTypes, ShutdownAt
<1>1. CASE ShutdownBegin
  BY <1>1 DEF ShutdownBegin
<1>2. CASE ShutdownStep
  <2>1. CASE DrainQueue
    <3>1. drainAt \in Workers /\ drainAt + 1 \in 0..NumWorkers
      BY <2>1 DEF DrainQueue, Workers, NumWorkers
    <3> QED
      BY <2>1, <3>1 DEF DrainQueue, WorkerTypes
  <2>2. CASE ShutdownJoin \/ (\E t \in Tasks : DrainTask(t)) \/ ShutdownEnd
    BY <2>2 DEF ShutdownJoin, DrainTask, ShutdownEnd
  <2> QED
    BY <1>2, <2>1, <2>2 DEF ShutdownStep
<1>3. CASE UNCHANGED shutdownVars
  BY <1>3 DEF shutdownVars
<1> QED
  BY <1>1, <1>2, <1>3, NextCases, SubmissionFrame, WorkerFrame, CallerFrame DEF vars

LEMMA OutcomeTypesStep == TypeOK /\ [Next]_vars => OutcomeTypes'
<1> SUFFICES ASSUME TypeOK, [Next]_vars PROVE OutcomeTypes'
  OBVIOUS
<1> USE DEF TypeOK, OutcomeTypes
<1>1. ASSUME NEW c \in Counter, Bump(c) PROVE stats' \in [Counter -> Nat]
  BY <1>1 DEF Bump
<1>2. ASSUME NEW t, NEW r \in TaskResult, Tell(t, r)
      PROVE  outcome' \in [Tasks -> TaskResult \cup {None}] /\ told' \in [Tasks -> Nat]
  <2>1. outcome' \in [Tasks -> TaskResult \cup {None}]
    BY <1>2 DEF Tell
  <2>2. told' \in [Tasks -> Nat]
    <3>1. CASE t \in Tasks
      BY <1>2, <3>1 DEF Tell
    <3>2. CASE t \notin Tasks
      BY <1>2, <3>2 DEF Tell
    <3> QED
      BY <3>1, <3>2
  <2> QED
    BY <2>1, <2>2
<1>3. CASE Submission
  <2>1. \/ Bump("rejected") \/ Bump("submitted") \/ UNCHANGED stats
    BY <1>3 DEF Submission, SubmitRefuse, SubmitNumber, SubmitStep, SubmitLoadThermal,
                SubmitScan, SubmitNoWorker, SubmitBackpressure, SubmitPush, SubmitAccept
  <2> QED
    BY <1>1, <1>3, <2>1, SubmissionFrame DEF outcomeVars, Counter
<1>4. ASSUME NEW w \in Workers, WorkerStep(w) PROVE OutcomeTypes'
  <2>1. \/ UNCHANGED stats
        \/ \E c \in {"stolen", "cancelled", "deadline_missed", "completed"} : Bump(c)
    BY <1>4 DEF WorkerStep, WorkerStart, TakeTask, TakeNothing, EvaluatePredicate, Block,
                WaitTimeout, Classify, OnCancel, OnDeadlineMissed, FunctionThrows, Finish,
                FunctionReturns, CountCompleted
  <2>2. \/ UNCHANGED outcomeVars
        \/ \E r \in TaskResult : Tell(hand[w], r)
    BY <1>4 DEF WorkerStep, WorkerStart, TakeTask, TakeNothing, EvaluatePredicate, Block,
                WaitTimeout, Classify, OnCancel, OnDeadlineMissed, FunctionThrows, Finish,
                FunctionReturns, CountCompleted, TaskResult
  <2> QED
    BY <1>1, <1>2, <2>1, <2>2 DEF outcomeVars, Counter
<1>5. CASE ShutdownStep
  <2>1. \/ UNCHANGED <<outcomeVars, stats>>
        \/ Bump("cancelled") /\ \E t \in Tasks : Tell(t, "Cancelled")
    BY <1>5 DEF ShutdownStep, ShutdownJoin, DrainQueue, DrainTask, ShutdownEnd
  <2> QED
    BY <1>1, <1>2, <2>1 DEF outcomeVars, Counter, TaskResult
<1>6. CASE ShutdownBegin \/ CallerStep \/ UNCHANGED vars
  BY <1>6, CallerFrame DEF ShutdownBegin, vars, outcomeVars
<1> QED
  BY <1>3, <1>4, <1>5, <1>6, NextCases

-----------------------------------------------------------------------------
(* The rest of the inductive invariant, one lemma for each of its parts.    *)

(* What one step of a worker does to the tasks: nothing, or it takes one    *)
(* from a queue, or it ends with the one in its hand.                       *)
Outside == {"loop", "take", "idle", "blocking", "waiting", "exited"}
Inside == {"taken", "cancelled", "missed", "running"}

Wanders(w) ==
  /\ UNCHANGED <<queue, hand, outcome, told>>
  /\ \E p \in WorkerAt : /\ pc' = [pc EXCEPT ![w] = p]
                        /\ \/ pc[w] \in Outside \ {"exited"} /\ p \in Outside
                           \/ pc[w] \in Inside /\ p \in Inside
                        /\ (p = "exited" => stop)
Takes(w, t, v) ==
  /\ t \in queue[v] /\ pc[w] = "take"
  /\ queue' = [queue EXCEPT ![v] = @ \ {t}]
  /\ hand' = [hand EXCEPT ![w] = t]
  /\ pc' = [pc EXCEPT ![w] = "taken"]
  /\ UNCHANGED <<outcome, told>>
Ends(w, r) ==
  /\ pc[w] \in Inside /\ Tell(hand[w], r) /\ UNCHANGED queue
  /\ \/ hand' = [hand EXCEPT ![w] = NoTask] /\ pc' = [pc EXCEPT ![w] = "loop"]
     \/ UNCHANGED hand /\ pc' = [pc EXCEPT ![w] = "returned"]
Leaves(w) ==
  /\ pc[w] = "returned" /\ UNCHANGED <<queue, outcome, told>>
  /\ hand' = [hand EXCEPT ![w] = NoTask] /\ pc' = [pc EXCEPT ![w] = "loop"]

LEMMA WorkerEffect ==
  ASSUME TypeOK, NEW w \in Workers, WorkerStep(w)
  PROVE  \/ Wanders(w)
         \/ \E t \in Tasks, v \in Workers : Takes(w, t, v)
         \/ \E r \in TaskResult : Ends(w, r)
         \/ Leaves(w)
<1>1. CASE WorkerStart(w) \/ TakeNothing(w) \/ EvaluatePredicate(w) \/ Block(w) \/ WaitTimeout(w)
  <2>1. UNCHANGED <<queue, hand, outcome, told>> /\ pc[w] \in Outside \ {"exited"}
    BY <1>1 DEF WorkerStart, TakeNothing, EvaluatePredicate, Block, WaitTimeout, outcomeVars,
                Outside
  <2>2. \E p \in Outside : pc' = [pc EXCEPT ![w] = p] /\ (p = "exited" => stop)
    BY <1>1 DEF WorkerStart, TakeNothing, EvaluatePredicate, Block, WaitTimeout, Outside,
                TypeOK, WorkerTypes
  <2> QED
    BY <2>1, <2>2 DEF Wanders, Outside, WorkerAt
<1>2. CASE Classify(w)
  BY <1>2 DEF Wanders, Classify, outcomeVars, Inside, Outside, WorkerAt
<1>3. ASSUME NEW t \in Tasks, TakeTask(w, t)
      PROVE  \E v \in Workers : Takes(w, t, v)
  <2>1. Victim(w) \in Workers
    BY VictimIsWorker DEF TypeOK, WorkerTypes
  <2> QED
    BY <1>3, <2>1 DEF Takes, TakeTask, Takeable, outcomeVars
<1>4. CASE OnCancel(w) \/ OnDeadlineMissed(w) \/ FunctionThrows(w)
  BY <1>4 DEF Ends, OnCancel, OnDeadlineMissed, FunctionThrows, Finish, Inside, TaskResult
<1>5. CASE FunctionReturns(w)
  BY <1>5 DEF Ends, FunctionReturns, Inside, TaskResult
<1>6. CASE CountCompleted(w)
  BY <1>6 DEF Leaves, CountCompleted, outcomeVars
<1> QED
  BY <1>1, <1>2, <1>3, <1>4, <1>5, <1>6 DEF WorkerStep

LEMMA CallInvStep == IInv /\ [Next]_vars => CallInv'
<1> SUFFICES ASSUME IInv, [Next]_vars PROVE CallInv'
  OBVIOUS
<1> USE DEF IInv, CallInv
<1>1. ASSUME NEW t \in Tasks, NEW k \in TaskKinds, SubmitRefuse(t, k) PROVE CallInv'
  BY <1>1 DEF SubmitRefuse, LifecycleFree, shutdownVars, NoCall
<1>2. ASSUME NEW t \in Tasks, NEW k \in TaskKinds, SubmitNumber(t, k) PROVE CallInv'
  BY <1>2 DEF SubmitNumber, shutdownVars, NoCall, Refusal, None
<1>3. CASE SubmitLoadThermal \/ SubmitScan \/ SubmitPush
  <2>1. /\ call.at # "none" /\ call'.at # "none" /\ call'.task = call.task
        /\ UNCHANGED <<reply, stop>>
    BY <1>3 DEF SubmitLoadThermal, SubmitScan, SubmitPush, shutdownVars, TypeOK, CallTypes
  <2> QED
    BY <2>1
<1>6. CASE SubmitNoWorker \/ SubmitBackpressure \/ SubmitAccept
  BY <1>6 DEF SubmitNoWorker, SubmitBackpressure, SubmitAccept, NoCall
<1>4. CASE ShutdownBegin
  BY <1>4 DEF ShutdownBegin, LifecycleFree, callVars, NoCall
<1>5. CASE UNCHANGED <<callVars, stop>>
  BY <1>5 DEF callVars, NoCall
<1> QED
  BY <1>1, <1>2, <1>3, <1>4, <1>5, <1>6, NextCases, WorkerFrame, ShutdownFrame, CallerFrame
  DEF Submission, SubmitStep, shutdownVars, vars

LEMMA HandInvStep == IInv /\ [Next]_vars => HandInv'
<1> SUFFICES ASSUME IInv, [Next]_vars PROVE HandInv'
  OBVIOUS
<1> USE DEF IInv, HandInv, TypeOK, WorkerTypes
<1>1. CASE UNCHANGED <<pc, hand>> \/ (NotifyAll /\ UNCHANGED hand)
  BY <1>1 DEF NotifyAll
<1>2. ASSUME NEW w \in Workers, WorkerStep(w) PROVE HandInv'
  <2>1. CASE Wanders(w)
    <3>1. PICK p \in WorkerAt :
            /\ pc' = [pc EXCEPT ![w] = p]
            /\ \/ pc[w] \in Outside \ {"exited"} /\ p \in Outside
               \/ pc[w] \in Inside /\ p \in Inside
            /\ (p = "exited" => stop)
      BY <2>1 DEF Wanders
    <3>2. UNCHANGED hand
      BY <2>1 DEF Wanders
    <3> QED
      BY <3>1, <3>2 DEF Outside, Inside
  <2>2. ASSUME NEW t \in Tasks, NEW v \in Workers, Takes(w, t, v) PROVE HandInv'
    BY <2>2 DEF Takes
  <2>3. ASSUME NEW r, Ends(w, r) PROVE HandInv'
    BY <2>3 DEF Ends, Inside
  <2>4. CASE Leaves(w)
    BY <2>4 DEF Leaves
  <2> QED
    BY <1>2, <2>1, <2>2, <2>3, <2>4, WorkerEffect
<1>3. Submission \/ CallerStep \/ ShutdownBegin
        => UNCHANGED <<pc, hand>> \/ (NotifyAll /\ UNCHANGED hand)
  BY SubmissionFrame, CallerFrame
     DEF Submission, SubmitRefuse, SubmitNumber, SubmitStep, SubmitLoadThermal, SubmitScan,
         SubmitNoWorker, SubmitBackpressure, SubmitPush, SubmitAccept, CallerStep,
         SetThermalState, Cancel, Tick, ShutdownBegin, workerVars
<1> QED
  BY <1>1, <1>2, <1>3, NextCases, ShutdownFrame DEF vars, workerVars

(* A submission adds at most the task it is about to count, to one queue.   *)
LEMMA SubmissionEffect ==
  ASSUME IInv, Submission
  PROVE  /\ \A t \in Tasks : Owed(t) => Owed(t)'
         /\ \/ UNCHANGED queue
            \/ \E v \in Workers, t \in Tasks : /\ queue' = [queue EXCEPT ![v] = @ \cup {t}]
                                               /\ ~Owed(t) /\ Owed(t)' /\ ~stop
                                               /\ \A u \in Tasks \ {t} : Owed(u)' => Owed(u)
         /\ UNCHANGED queue => \A t \in Tasks : Owed(t)' => Owed(t)
         /\ UNCHANGED <<hand, outcome, told, stop, shut, drainAt, pending>>
         /\ UNCHANGED pc \/ NotifyAll
<1>1. UNCHANGED <<hand, outcome, told, stop, shut, drainAt, pending>>
  BY SubmissionFrame DEF outcomeVars, shutdownVars
<1>2. UNCHANGED pc \/ NotifyAll
  BY DEF Submission, SubmitRefuse, SubmitNumber, SubmitStep, SubmitLoadThermal, SubmitScan,
         SubmitNoWorker, SubmitBackpressure, SubmitPush, SubmitAccept, workerVars
<1> USE DEF Owed, IInv, TypeOK, CallTypes
<1>3. ASSUME NEW t \in Tasks, NEW k \in TaskKinds, SubmitRefuse(t, k)
      PROVE  UNCHANGED queue /\ \A u \in Tasks : Owed(u)' <=> Owed(u)
  <2>1. reply[t] # "Accepted" /\ Refusal(k) # "Accepted"
    BY <1>3 DEF SubmitRefuse, Refusal, None
  <2> QED
    BY <1>3, <2>1 DEF SubmitRefuse
<1>4. ASSUME NEW t \in Tasks, NEW k \in TaskKinds, SubmitNumber(t, k)
      PROVE  UNCHANGED queue /\ \A u \in Tasks : Owed(u)' <=> Owed(u)
  BY <1>4 DEF SubmitNumber, LifecycleFree, NoCall
<1>5. CASE SubmitLoadThermal \/ SubmitScan
  <2>1. UNCHANGED <<queue, reply>> /\ call.at = "scan" /\ call'.at = "scan"
    BY <1>5 DEF SubmitLoadThermal, SubmitScan
  <2> QED
    BY <1>1, <1>2, <2>1
<1>6. CASE SubmitNoWorker \/ SubmitBackpressure
  <2>1. /\ UNCHANGED queue /\ call.at = "scan" /\ call'.at = "none"
        /\ reply[call.task] = None
        /\ \E a \in {"Rejected", "Backpressure"} : reply' = [reply EXCEPT ![call.task] = a]
    BY <1>6 DEF SubmitNoWorker, SubmitBackpressure, NoCall, CallInv
  <2>2. \A u \in Tasks : Owed(u)' <=> Owed(u)
    BY <2>1 DEF None
  <2> QED
    BY <1>1, <1>2, <2>1, <2>2
<1>7. CASE SubmitPush
  <2>1. /\ call.task \in Tasks /\ reply[call.task] = None /\ ~stop
        /\ call.best \in Workers /\ call.at = "scan"
    BY <1>7 DEF SubmitPush, CallInv, NoWorker, Workers, NumWorkers
  <2>2. /\ queue' = [queue EXCEPT ![call.best] = @ \cup {call.task}]
        /\ UNCHANGED reply /\ call'.at = "count" /\ call'.task = call.task
    BY <1>7 DEF SubmitPush
  <2>3. ~Owed(call.task) /\ Owed(call.task)'
    BY <2>1, <2>2 DEF None
  <2>4. \A u \in Tasks : u # call.task => (Owed(u)' <=> Owed(u))
    BY <2>1, <2>2
  <2>5. call.task \in queue'[call.best]
    BY <2>1, <2>2 DEF WorkerTypes
  <2>6. ~UNCHANGED queue
    BY <2>1, <2>3, <2>5 DEF OwedInv, Queued
  <2> QED
    BY <1>1, <1>2, <2>1, <2>2, <2>3, <2>4, <2>6
<1>8. CASE SubmitAccept
  <2>1. /\ UNCHANGED queue /\ call.at = "count" /\ call'.at = "none" /\ call.task \in Tasks
        /\ reply' = [reply EXCEPT ![call.task] = "Accepted"]
    BY <1>8 DEF SubmitAccept, NoCall, CallInv
  <2>2. \A u \in Tasks : Owed(u)' <=> Owed(u)
    BY <2>1
  <2> QED
    BY <1>1, <1>2, <2>1, <2>2
<1> QED
  BY <1>1, <1>2, <1>3, <1>4, <1>5, <1>6, <1>7, <1>8 DEF Submission, SubmitStep

LEMMA OwedInvStep == IInv /\ [Next]_vars => OwedInv'
<1> SUFFICES ASSUME IInv, [Next]_vars PROVE OwedInv'
  OBVIOUS
<1> USE DEF IInv, OwedInv, Queued, TypeOK, WorkerTypes, OutcomeTypes, ShutdownTypes
<1>1. CASE Submission
  BY <1>1, SubmissionEffect
<1>2. ASSUME NEW w \in Workers, WorkerStep(w) PROVE OwedInv'
  <2>1. \A t \in Tasks : Owed(t)' <=> Owed(t)
    BY <1>2, WorkerFrame DEF callVars, Owed
  <2>2. UNCHANGED pending
    BY <1>2, WorkerFrame DEF shutdownVars
  <2>3. CASE Wanders(w)
    BY <2>1, <2>2, <2>3 DEF Wanders
  <2>4. ASSUME NEW t \in Tasks, NEW v \in Workers, Takes(w, t, v) PROVE OwedInv'
    BY <2>1, <2>2, <2>4 DEF Takes
  <2>5. ASSUME NEW r, Ends(w, r) PROVE OwedInv'
    <3>1. hand[w] \in Tasks
      BY <2>5 DEF Ends, Inside, HandInv
    <3> QED
      BY <2>1, <2>2, <2>5, <3>1 DEF Ends, Tell
  <2>6. CASE Leaves(w)
    BY <2>1, <2>2, <2>6 DEF Leaves
  <2> QED
    BY <1>2, <2>3, <2>4, <2>5, <2>6, WorkerEffect
<1>3. CASE ShutdownStep
  <2>1. /\ \A t \in Tasks : Owed(t)' <=> Owed(t)
        /\ UNCHANGED hand
    BY <1>3, ShutdownFrame DEF callVars, workerVars, Owed
  <2>2. CASE ShutdownJoin \/ ShutdownEnd
    BY <2>1, <2>2 DEF ShutdownJoin, ShutdownEnd, outcomeVars
  <2>3. CASE DrainQueue
    <3>1. drainAt \in Workers
      BY <2>3 DEF DrainQueue, Workers, NumWorkers
    <3> QED
      BY <2>1, <2>3, <3>1 DEF DrainQueue, outcomeVars
  <2>4. ASSUME NEW t \in Tasks, DrainTask(t) PROVE OwedInv'
    BY <2>1, <2>4 DEF DrainTask, Tell
  <2> QED
    BY <1>3, <2>2, <2>3, <2>4 DEF ShutdownStep
<1>4. CASE ShutdownBegin \/ CallerStep \/ UNCHANGED vars
  <2>1. UNCHANGED <<callVars, queue, hand, pending, told>>
    BY <1>4, CallerFrame DEF ShutdownBegin, vars, workerVars, outcomeVars, shutdownVars
  <2> QED
    BY <2>1 DEF callVars, Owed
<1> QED
  BY <1>1, <1>2, <1>3, <1>4, NextCases

LEMMA PlacesDisjointStep == IInv /\ [Next]_vars => PlacesDisjoint'
<1> SUFFICES ASSUME IInv, [Next]_vars PROVE PlacesDisjoint'
  OBVIOUS
<1> USE DEF IInv, PlacesDisjoint, TypeOK, WorkerTypes, ShutdownTypes
<1>1. CASE Submission
  BY <1>1, SubmissionEffect DEF OwedInv, Queued
<1>2. ASSUME NEW w \in Workers, WorkerStep(w) PROVE PlacesDisjoint'
  <2>1. UNCHANGED pending
    BY <1>2, WorkerFrame DEF shutdownVars
  <2>2. CASE Wanders(w)
    BY <2>1, <2>2 DEF Wanders
  <2>3. ASSUME NEW t \in Tasks, NEW v \in Workers, Takes(w, t, v) PROVE PlacesDisjoint'
    BY <2>1, <2>3 DEF Takes
  <2>4. ASSUME NEW r, Ends(w, r) PROVE PlacesDisjoint'
    BY <2>1, <2>4 DEF Ends
  <2>5. CASE Leaves(w)
    BY <2>1, <2>5 DEF Leaves
  <2> QED
    BY <1>2, <2>2, <2>3, <2>4, <2>5, WorkerEffect
<1>3. CASE ShutdownStep
  <2>1. UNCHANGED hand
    BY <1>3, ShutdownFrame DEF workerVars
  <2>2. CASE ShutdownJoin \/ ShutdownEnd
    BY <2>1, <2>2 DEF ShutdownJoin, ShutdownEnd
  <2>3. CASE DrainQueue
    <3>1. drainAt \in Workers
      BY <2>3 DEF DrainQueue, Workers, NumWorkers
    <3> QED
      BY <2>1, <2>3, <3>1 DEF DrainQueue
  <2>4. ASSUME NEW t \in Tasks, DrainTask(t) PROVE PlacesDisjoint'
    BY <2>1, <2>4 DEF DrainTask
  <2> QED
    BY <1>3, <2>2, <2>3, <2>4 DEF ShutdownStep
<1>4. CASE ShutdownBegin \/ CallerStep \/ UNCHANGED vars
  BY <1>4, CallerFrame DEF ShutdownBegin, vars, workerVars, shutdownVars
<1> QED
  BY <1>1, <1>2, <1>3, <1>4, NextCases

LEMMA PlacesUntoldStep == IInv /\ [Next]_vars => PlacesUntold'
<1> SUFFICES ASSUME IInv, [Next]_vars PROVE PlacesUntold'
  OBVIOUS
<1> USE DEF IInv, PlacesUntold, TypeOK, WorkerTypes, ShutdownTypes, OutcomeTypes
<1>1. CASE Submission
  <2>1. /\ UNCHANGED <<hand, told, pending>>
        /\ UNCHANGED pc \/ NotifyAll
        /\ \/ UNCHANGED queue
           \/ \E v \in Workers, t \in Tasks : /\ queue' = [queue EXCEPT ![v] = @ \cup {t}]
                                              /\ told[t] = 0
    BY <1>1, SubmissionEffect DEF OwedInv
  <2> QED
    BY <2>1 DEF NotifyAll
<1>2. ASSUME NEW w \in Workers, WorkerStep(w) PROVE PlacesUntold'
  <2>1. UNCHANGED pending
    BY <1>2, WorkerFrame DEF shutdownVars
  <2>2. CASE Wanders(w)
    <3>1. PICK p \in WorkerAt :
            /\ pc' = [pc EXCEPT ![w] = p]
            /\ \/ pc[w] \in Outside \ {"exited"} /\ p \in Outside
               \/ pc[w] \in Inside /\ p \in Inside
      BY <2>2 DEF Wanders
    <3>2. UNCHANGED <<queue, hand, told>>
      BY <2>2 DEF Wanders
    <3> QED
      BY <2>1, <3>1, <3>2 DEF Outside, Inside, HandInv
  <2>3. ASSUME NEW t \in Tasks, NEW v \in Workers, Takes(w, t, v) PROVE PlacesUntold'
    BY <2>1, <2>3 DEF Takes
  <2>4. ASSUME NEW r, Ends(w, r) PROVE PlacesUntold'
    <3>1. /\ hand[w] \in Tasks
          /\ told' = [told EXCEPT ![hand[w]] = @ + 1]
          /\ UNCHANGED <<queue, pending>>
      BY <2>1, <2>4 DEF Ends, Inside, HandInv, Tell
    <3>2. \A v \in Workers : hand[w] \notin queue[v] /\ hand[w] \notin pending
      BY DEF PlacesDisjoint
    <3>3. \A v \in Workers : v # w => hand[v] # hand[w] /\ hand'[v] = hand[v] /\ pc'[v] = pc[v]
      BY <2>4, <3>1 DEF Ends, PlacesDisjoint
    <3>4. hand'[w] = NoTask \/ pc'[w] = "returned"
      BY <2>4 DEF Ends
    <3> QED
      BY <3>1, <3>2, <3>3, <3>4
  <2>5. CASE Leaves(w)
    BY <2>1, <2>5 DEF Leaves
  <2> QED
    BY <1>2, <2>2, <2>3, <2>4, <2>5, WorkerEffect
<1>3. CASE ShutdownStep
  <2>1. UNCHANGED <<hand, pc>>
    BY <1>3, ShutdownFrame DEF workerVars
  <2>2. CASE ShutdownJoin \/ ShutdownEnd
    BY <2>1, <2>2 DEF ShutdownJoin, ShutdownEnd, outcomeVars
  <2>3. CASE DrainQueue
    <3>1. drainAt \in Workers
      BY <2>3 DEF DrainQueue, Workers, NumWorkers
    <3> QED
      BY <2>1, <2>3, <3>1 DEF DrainQueue, outcomeVars
  <2>4. ASSUME NEW t \in Tasks, DrainTask(t) PROVE PlacesUntold'
    BY <2>1, <2>4 DEF DrainTask, Tell, PlacesDisjoint
  <2> QED
    BY <1>3, <2>2, <2>3, <2>4 DEF ShutdownStep
<1>4. CASE ShutdownBegin \/ CallerStep \/ UNCHANGED vars
  <2>1. /\ UNCHANGED <<queue, hand, pending, told>>
        /\ UNCHANGED pc \/ NotifyAll
    BY <1>4, CallerFrame DEF ShutdownBegin, CallerStep, SetThermalState, Cancel, Tick, vars,
                             workerVars, outcomeVars, shutdownVars
  <2> QED
    BY <2>1 DEF NotifyAll
<1> QED
  BY <1>1, <1>2, <1>3, <1>4, NextCases

LEMMA ToldInvStep == IInv /\ [Next]_vars => ToldInv'
<1> SUFFICES ASSUME IInv, [Next]_vars PROVE ToldInv'
  OBVIOUS
<1> USE DEF IInv, ToldInv, TypeOK, OutcomeTypes
<1>1. ASSUME NEW t \in Tasks, NEW r \in TaskResult, told[t] = 0, Tell(t, r) PROVE ToldInv'
  BY <1>1 DEF Tell
<1>2. CASE UNCHANGED outcomeVars
  BY <1>2 DEF outcomeVars
<1>3. ASSUME NEW w \in Workers, WorkerStep(w) PROVE ToldInv'
  <2>1. ASSUME NEW r \in TaskResult, Ends(w, r) PROVE ToldInv'
    <3>1. hand[w] \in Tasks /\ told[hand[w]] = 0 /\ Tell(hand[w], r)
      BY <2>1 DEF Ends, Inside, HandInv, PlacesUntold, WorkerTypes
    <3> QED
      BY <1>1, <3>1
  <2> QED
    BY <1>2, <1>3, <2>1, WorkerEffect DEF Wanders, Takes, Leaves, outcomeVars
<1>4. CASE ShutdownStep
  <2>1. ASSUME NEW t \in Tasks, DrainTask(t) PROVE ToldInv'
    BY <1>1, <2>1 DEF DrainTask, PlacesUntold, TaskResult
  <2> QED
    BY <1>2, <1>4, <2>1 DEF ShutdownStep, ShutdownJoin, DrainQueue, ShutdownEnd
<1> QED
  BY <1>2, <1>3, <1>4, NextCases, SubmissionFrame, CallerFrame DEF ShutdownBegin, vars

LEMMA ShutdownInvStep == IInv /\ [Next]_vars => ShutdownInv'
<1> SUFFICES ASSUME IInv, [Next]_vars PROVE ShutdownInv'
  OBVIOUS
<1> USE DEF IInv, ShutdownInv, TypeOK, WorkerTypes, ShutdownTypes
<1>1. CASE Submission
  <2>1. ASSUME NEW t \in Tasks, reply'[t] = "Stopped" PROVE stop
    <3>1. ASSUME NEW u \in Tasks, NEW k \in TaskKinds, SubmitRefuse(u, k) PROVE stop
      BY <2>1, <3>1 DEF SubmitRefuse, Refusal, CallTypes
    <3>2. CASE ~\E u \in Tasks, k \in TaskKinds : SubmitRefuse(u, k)
      <4>1. \/ UNCHANGED reply
            \/ \E a \in {"Rejected", "Backpressure", "Accepted"} :
                  reply' = [reply EXCEPT ![call.task] = a]
        BY <1>1, <3>2 DEF Submission, SubmitNumber, SubmitStep, SubmitLoadThermal, SubmitScan,
                          SubmitNoWorker, SubmitBackpressure, SubmitPush, SubmitAccept
      <4>2. reply[t] = "Stopped"
        BY <2>1, <4>1 DEF CallTypes
      <4> QED
        BY <4>2
    <3> QED
      BY <3>1, <3>2
  <2>2. UNCHANGED <<stop, shut, drainAt, pending>> /\ (UNCHANGED pc \/ NotifyAll)
    BY <1>1, SubmissionEffect
  <2>3. UNCHANGED queue \/ ~stop
    BY <1>1, SubmissionEffect
  <2>4. \A w \in Workers : w < drainAt => queue'[w] = {}
    <3>1. ~stop => drainAt = 0
      OBVIOUS
    <3>2. \A w \in Workers : ~(w < 0)
      BY DEF Workers
    <3> QED
      BY <2>3, <3>1, <3>2
  <2>5. shut \in {"draining", "done"} => \A w \in Workers : pc'[w] = "exited"
    BY <2>2 DEF NotifyAll
  <2> QED
    BY <2>1, <2>2, <2>4, <2>5
<1>2. ASSUME NEW w \in Workers, WorkerStep(w) PROVE ShutdownInv'
  <2>1. UNCHANGED <<reply, stop, shut, drainAt, pending>>
    BY <1>2, WorkerFrame DEF callVars, shutdownVars
  <2>2. shut \in {"draining", "done"} => FALSE
    BY <1>2 DEF WorkerStep, WorkerStart, TakeTask, TakeNothing, EvaluatePredicate, Block,
                WaitTimeout, Classify, OnCancel, OnDeadlineMissed, FunctionThrows, FunctionReturns,
                CountCompleted
  <2>3. drainAt = 0
    BY <2>2 DEF ShutdownAt
  <2> QED
    BY <2>1, <2>2, <2>3 DEF Workers
<1>3. CASE ShutdownStep
  <2>1. UNCHANGED <<reply, stop, pc>>
    BY <1>3, ShutdownFrame DEF callVars, workerVars
  <2>2. CASE ShutdownJoin \/ ShutdownEnd
    BY <2>1, <2>2 DEF ShutdownJoin, ShutdownEnd, Workers
  <2>3. CASE DrainQueue
    <3>1. drainAt \in Workers /\ \A v \in Workers : v < drainAt + 1 => v < drainAt \/ v = drainAt
      BY <2>3, WorkerNumbers DEF DrainQueue, Workers
    <3> QED
      BY <2>1, <2>3, <3>1 DEF DrainQueue
  <2>4. ASSUME NEW t \in Tasks, DrainTask(t) PROVE ShutdownInv'
    BY <2>1, <2>4 DEF DrainTask
  <2> QED
    BY <1>3, <2>2, <2>3, <2>4 DEF ShutdownStep
<1>4. CASE ShutdownBegin
  BY <1>4 DEF ShutdownBegin, LifecycleFree, callVars, Workers
<1>5. CASE CallerStep \/ UNCHANGED vars
  <2>1. UNCHANGED <<reply, queue, stop, shut, drainAt, pending>> /\ (UNCHANGED pc \/ NotifyAll)
    BY <1>5, CallerFrame DEF CallerStep, SetThermalState, Cancel, Tick, vars, workerVars,
                             callVars, shutdownVars
  <2> QED
    BY <2>1 DEF NotifyAll
<1> QED
  BY <1>1, <1>2, <1>3, <1>4, <1>5, NextCases

LEMMA NoTaskLostStep == IInv /\ [Next]_vars => NoTaskLost'
<1> SUFFICES ASSUME IInv, [Next]_vars, NEW t \in Tasks, Owed(t)'
             PROVE  Queued(t)' \/ Held(t)' \/ t \in pending' \/ told'[t] = 1
  BY DEF NoTaskLost
<1> USE DEF IInv, NoTaskLost, Queued, Held, TypeOK, WorkerTypes, ShutdownTypes, OutcomeTypes
<1>1. CASE Submission
  <2>1. /\ UNCHANGED <<hand, told, pending>>
        /\ UNCHANGED pc \/ NotifyAll
    BY <1>1, SubmissionEffect
  <2>2. \A w \in Workers : pc[w] # "returned" => pc'[w] # "returned"
    BY <2>1 DEF NotifyAll
  <2>3. CASE UNCHANGED queue
    BY <1>1, <2>1, <2>2, <2>3, SubmissionEffect
  <2>4. ASSUME NEW v \in Workers, NEW u \in Tasks, queue' = [queue EXCEPT ![v] = @ \cup {u}],
               \A x \in Tasks \ {u} : Owed(x)' => Owed(x)
        PROVE  Queued(t)' \/ Held(t)' \/ t \in pending' \/ told'[t] = 1
    <3>1. CASE t = u
      BY <2>4, <3>1
    <3>2. CASE t # u
      BY <2>1, <2>2, <2>4, <3>2
    <3> QED
      BY <3>1, <3>2
  <2> QED
    BY <1>1, <2>3, <2>4, SubmissionEffect
<1>2. ASSUME NEW w \in Workers, WorkerStep(w)
      PROVE  Queued(t)' \/ Held(t)' \/ t \in pending' \/ told'[t] = 1
  <2>1. UNCHANGED pending /\ Owed(t)
    BY <1>2, WorkerFrame DEF shutdownVars, callVars, Owed
  <2>2. CASE Wanders(w)
    <3>1. PICK p \in WorkerAt :
            /\ pc' = [pc EXCEPT ![w] = p]
            /\ \/ pc[w] \in Outside \ {"exited"} /\ p \in Outside
               \/ pc[w] \in Inside /\ p \in Inside
      BY <2>2 DEF Wanders
    <3>2. UNCHANGED <<queue, hand, told>>
      BY <2>2 DEF Wanders
    <3>3. p # "returned"
      BY <3>1 DEF Outside, Inside
    <3> QED
      BY <2>1, <3>1, <3>2, <3>3
  <2>3. ASSUME NEW u \in Tasks, NEW v \in Workers, Takes(w, u, v)
        PROVE  Queued(t)' \/ Held(t)' \/ t \in pending' \/ told'[t] = 1
    <3>1. hand[w] = NoTask
      BY <2>3 DEF Takes, HandInv
    <3>2. CASE t = u
      BY <2>3, <3>2 DEF Takes
    <3>3. CASE t # u
      BY <2>1, <2>3, <3>1, <3>3 DEF Takes
    <3> QED
      BY <3>2, <3>3
  <2>4. ASSUME NEW r \in TaskResult, Ends(w, r)
        PROVE  Queued(t)' \/ Held(t)' \/ t \in pending' \/ told'[t] = 1
    <3>1. /\ hand[w] \in Tasks /\ told[hand[w]] = 0
          /\ told' = [told EXCEPT ![hand[w]] = @ + 1]
          /\ UNCHANGED queue
      BY <2>4 DEF Ends, Inside, HandInv, PlacesUntold, Tell
    <3>2. CASE t = hand[w]
      BY <3>1, <3>2
    <3>3. CASE t # hand[w]
      BY <2>1, <2>4, <3>1, <3>3 DEF Ends
    <3> QED
      BY <3>2, <3>3
  <2>5. CASE Leaves(w)
    BY <2>1, <2>5 DEF Leaves
  <2> QED
    BY <1>2, <2>2, <2>3, <2>4, <2>5, WorkerEffect
<1>3. CASE ShutdownStep
  <2>1. UNCHANGED <<hand, pc>> /\ Owed(t)
    BY <1>3, ShutdownFrame DEF workerVars, callVars, Owed
  <2>2. CASE ShutdownJoin \/ ShutdownEnd
    BY <2>1, <2>2 DEF ShutdownJoin, ShutdownEnd, outcomeVars
  <2>3. CASE DrainQueue
    <3>1. drainAt \in Workers
      BY <2>3 DEF DrainQueue, Workers, NumWorkers
    <3> QED
      BY <2>1, <2>3, <3>1 DEF DrainQueue, outcomeVars
  <2>4. ASSUME NEW u \in Tasks, DrainTask(u)
        PROVE  Queued(t)' \/ Held(t)' \/ t \in pending' \/ told'[t] = 1
    <3>1. told[u] = 0
      BY <2>4 DEF DrainTask, PlacesUntold
    <3> QED
      BY <2>1, <2>4, <3>1 DEF DrainTask, Tell
  <2> QED
    BY <1>3, <2>2, <2>3, <2>4 DEF ShutdownStep
<1>4. CASE ShutdownBegin \/ CallerStep \/ UNCHANGED vars
  <2>1. /\ UNCHANGED <<queue, hand, pending, told, callVars>>
        /\ UNCHANGED pc \/ NotifyAll
    BY <1>4, CallerFrame DEF ShutdownBegin, CallerStep, SetThermalState, Cancel, Tick, vars,
                             workerVars, outcomeVars, shutdownVars
  <2>2. \A w \in Workers : pc[w] # "returned" => pc'[w] # "returned"
    BY <2>1 DEF NotifyAll
  <2>3. Owed(t)
    BY <2>1 DEF callVars, Owed
  <2> QED
    BY <2>1, <2>2, <2>3
<1> QED
  BY <1>1, <1>2, <1>3, <1>4, NextCases

-----------------------------------------------------------------------------
(* The invariant holds for every instance, and with it the promises.        *)

LEMMA InitIInv == Init => IInv
<1> SUFFICES ASSUME Init PROVE IInv
  OBVIOUS
<1>1. CallInv /\ HandInv /\ OwedInv
  BY DEF Init, CallInv, NoCall, HandInv, OwedInv, Queued
<1>2. PlacesDisjoint /\ PlacesUntold /\ ToldInv
  BY DEF Init, PlacesDisjoint, PlacesUntold, ToldInv
<1>3. NoTaskLost
  BY DEF Init, NoTaskLost, Owed, NoCall, None
<1>4. ShutdownInv
  BY DEF Init, ShutdownInv, Workers, None
<1> QED
  BY <1>1, <1>2, <1>3, <1>4, InitTypeOK DEF IInv

LEMMA NextIInv == IInv /\ [Next]_vars => IInv'
BY InputTypesStep, CallTypesStep, WorkerTypesStep, ShutdownTypesStep, OutcomeTypesStep,
   CallInvStep, HandInvStep, OwedInvStep, PlacesDisjointStep, PlacesUntoldStep, ToldInvStep,
   NoTaskLostStep, ShutdownInvStep
DEF IInv, TypeOK

(* The strengthened invariant is an invariant of the dispatcher.            *)
THEOREM Invariance == Spec => []IInv
  BY InitIInv, NextIInv, PTL DEF Spec

(* Every variable stays within its type, whatever the callers and threads do.*)
THEOREM TypeCorrect == Spec => []TypeOK
<1>1. IInv => TypeOK
  BY DEF IInv
<1> QED
  BY <1>1, Invariance, PTL

(* No owner of a task hears two outcomes, nor one for a refused task.       *)
THEOREM AtMostOneOutcome == Spec => []ToldOnce
<1>1. IInv => ToldOnce
  BY DEF IInv, ToldInv, OwedInv, ToldOnce
<1> QED
  BY <1>1, Invariance, PTL

(* A task taken on is in a queue, with a worker or drained until its owner  *)
(* has heard how it ended.                                                  *)
THEOREM NoTaskIsLost == Spec => []NoTaskLost
<1>1. IInv => NoTaskLost
  BY DEF IInv
<1> QED
  BY <1>1, Invariance, PTL

(* After shutdown() every accepted task has its outcome, all queues are     *)
(* empty and all workers gone.                                              *)
THEOREM ShutdownSettlesAll == Spec => []ShutdownSettles
<1>1. IInv => ShutdownSettles
  <2> SUFFICES ASSUME IInv, shut = "done"
               PROVE  /\ \A t \in Tasks : reply[t] = "Accepted" => told[t] = 1
                      /\ \A w \in Workers : queue[w] = {} /\ pc[w] = "exited"
    BY DEF ShutdownSettles
  <2>1. \A w \in Workers : queue[w] = {} /\ pc[w] = "exited"
    BY DEF IInv, ShutdownInv, Workers, NumWorkers
  <2>2. pending = {} /\ \A w \in Workers : hand[w] = NoTask
    BY <2>1 DEF IInv, ShutdownInv, HandInv
  <2>3. \A t \in Tasks : Owed(t) => told[t] = 1
    BY <2>1, <2>2 DEF IInv, NoTaskLost, Queued, Held
  <2> QED
    BY <2>1, <2>3 DEF Owed
<1> QED
  BY <1>1, Invariance, PTL

(* After one caller has been told Stopped, nothing more is taken on.        *)
THEOREM NothingAcceptedAfterStopped == Spec => NoAcceptAfterStopped
<1>1. ASSUME IInv, [Next]_vars, NEW u \in Tasks, reply[u] = "Stopped",
             NEW t \in Tasks, ~Owed(t)
      PROVE  ~Owed(t)'
  <2>1. stop
    BY <1>1 DEF IInv, ShutdownInv
  <2>2. CASE Submission
    BY <1>1, <2>1, <2>2, SubmissionEffect
  <2>3. CASE UNCHANGED callVars
    BY <1>1, <2>3 DEF callVars, Owed
  <2> QED
    BY <1>1, <2>2, <2>3, NextCases, WorkerFrame, ShutdownFrame, CallerFrame DEF ShutdownBegin, vars
<1>2. IInv /\ [Next]_vars
        => ((\E u \in Tasks : reply[u] = "Stopped") => \A t \in Tasks : ~Owed(t) => ~Owed(t)')
  BY <1>1
<1>3. IInv /\ [Next]_vars
        => [(\E u \in Tasks : reply[u] = "Stopped") => \A t \in Tasks : ~Owed(t) => ~Owed(t)']_vars
  BY <1>2
<1> QED
  BY <1>3, Invariance, PTL DEF Spec, NoAcceptAfterStopped

-----------------------------------------------------------------------------
(* The dispatcher implements TaskService.                                   *)

LEMMA StatusUnchanged ==
  ASSUME UNCHANGED <<told, outcome>>,
         \A t \in Tasks : (Owed(t)' <=> Owed(t)) /\ (reply'[t] = None <=> reply[t] = None)
  PROVE  UNCHANGED Status
<1>1. \A t \in Tasks : StatusOf(t)' = StatusOf(t)
  BY DEF StatusOf
<1> QED
  BY <1>1 DEF Status

LEMMA StatusUpdate ==
  ASSUME NEW t \in Tasks, NEW s, StatusOf(t)' = s,
         \A u \in Tasks \ {t} : StatusOf(u)' = StatusOf(u)
  PROVE  Status' = [Status EXCEPT ![t] = s]
BY DEF Status

LEMMA StatusSettled ==
  ASSUME IInv, NEW t \in Tasks, NEW r \in TaskResult, told[t] = 0, Owed(t), Tell(t, r),
         UNCHANGED callVars, shut # "done", UNCHANGED shut
  PROVE  Service!Settle(t, r)
<1> USE DEF IInv, TypeOK, OutcomeTypes
<1>1. \A u \in Tasks : (Owed(u)' <=> Owed(u)) /\ reply'[u] = reply[u]
  BY DEF callVars, Owed
<1>2. /\ outcome' = [outcome EXCEPT ![t] = r] /\ told' = [told EXCEPT ![t] = @ + 1]
      /\ told'[t] = 1 /\ outcome'[t] = r
  BY DEF Tell
<1>3. Status[t] = "open"
  BY DEF Status, StatusOf
<1>4. Status' = [Status EXCEPT ![t] = r]
  <2>1. StatusOf(t)' = r
    BY <1>2 DEF StatusOf
  <2>2. \A u \in Tasks \ {t} : StatusOf(u)' = StatusOf(u)
    BY <1>1, <1>2 DEF StatusOf
  <2> QED
    BY <2>1, <2>2, StatusUpdate
<1>5. Phase # "closed" /\ UNCHANGED Phase
  BY DEF Phase
<1> QED
  BY <1>3, <1>4, <1>5 DEF Service!Settle

(* Every step is a step of the service or invisible to it.                  *)
LEMMA StepRefines == IInv /\ IInv' /\ [Next]_vars => [Service!ServiceNext]_(Service!svars)
<1> SUFFICES ASSUME IInv, IInv', [Next]_vars
             PROVE  Service!ServiceNext \/ UNCHANGED <<Status, Phase>>
  BY DEF Service!svars
<1> USE DEF IInv, TypeOK, CallTypes, OutcomeTypes
<1>1. ASSUME NEW t \in Tasks, NEW k \in TaskKinds, SubmitRefuse(t, k)
      PROVE  Service!Refuse(t)
  <2>1. /\ reply[t] = None /\ reply' = [reply EXCEPT ![t] = Refusal(k)]
        /\ UNCHANGED <<told, outcome, call, shut>>
    BY <1>1 DEF SubmitRefuse, outcomeVars, shutdownVars
  <2>2. Refusal(k) \in {"Stopped", "Rejected"}
    BY <1>1 DEF SubmitRefuse, Refusal
  <2>3. ~Owed(t) /\ told[t] = 0
    BY <1>1, <2>1 DEF SubmitRefuse, LifecycleFree, Owed, None, OwedInv
  <2>4. \A u \in Tasks : Owed(u)' <=> Owed(u)
    BY <2>1, <2>2, <2>3 DEF Owed, None
  <2>5. Status[t] = "new" /\ Status' = [Status EXCEPT ![t] = "refused"]
    <3>1. StatusOf(t) = "new" /\ StatusOf(t)' = "refused"
      BY <2>1, <2>2, <2>3, <2>4 DEF StatusOf, None
    <3>2. \A u \in Tasks \ {t} : StatusOf(u)' = StatusOf(u)
      BY <2>1, <2>2, <2>3, <2>4 DEF StatusOf, None
    <3> QED
      BY <3>1, <3>2, StatusUpdate DEF Status
  <2> QED
    BY <2>1, <2>5 DEF Service!Refuse, Phase
<1>2. ASSUME NEW t \in Tasks, NEW k \in TaskKinds, SubmitNumber(t, k)
      PROVE  UNCHANGED <<Status, Phase>>
  <2>1. UNCHANGED <<told, outcome, reply, shut>> /\ call.at = "none" /\ call'.at = "scan"
    BY <1>2 DEF SubmitNumber, LifecycleFree, NoCall, outcomeVars, shutdownVars
  <2> QED
    BY <2>1, StatusUnchanged DEF Owed, Phase
<1>3. CASE SubmitLoadThermal \/ SubmitScan
  <2>1. UNCHANGED <<told, outcome, reply, shut>> /\ call.at = "scan" /\ call'.at = "scan"
    BY <1>3 DEF SubmitLoadThermal, SubmitScan, outcomeVars, shutdownVars
  <2> QED
    BY <2>1, StatusUnchanged DEF Owed, Phase
<1>4. ASSUME NEW t \in Tasks, t = call.task, SubmitNoWorker \/ SubmitBackpressure
      PROVE  Service!Refuse(t)
  <2>1. /\ reply[t] = None /\ UNCHANGED <<told, outcome, shut>>
        /\ call.at = "scan" /\ call'.at = "none"
        /\ \E a \in {"Rejected", "Backpressure"} : reply' = [reply EXCEPT ![t] = a]
    BY <1>4 DEF SubmitNoWorker, SubmitBackpressure, CallInv, NoCall, outcomeVars, shutdownVars
  <2>2. ~Owed(t) /\ told[t] = 0
    BY <2>1 DEF Owed, None, OwedInv
  <2>3. \A u \in Tasks : Owed(u)' <=> Owed(u)
    BY <2>1 DEF Owed, None
  <2>4. Status[t] = "new" /\ Status' = [Status EXCEPT ![t] = "refused"]
    <3>1. StatusOf(t) = "new" /\ StatusOf(t)' = "refused"
      BY <2>1, <2>2, <2>3 DEF StatusOf, None
    <3>2. \A u \in Tasks \ {t} : StatusOf(u)' = StatusOf(u)
      BY <2>1, <2>2, <2>3 DEF StatusOf, None
    <3> QED
      BY <3>1, <3>2, StatusUpdate DEF Status
  <2> QED
    BY <2>1, <2>4 DEF Service!Refuse, Phase
<1>5. CASE SubmitPush
  <2>1. /\ call.task \in Tasks /\ reply[call.task] = None /\ UNCHANGED <<told, outcome, reply, shut>>
        /\ call.at = "scan" /\ call'.at = "count" /\ call'.task = call.task /\ ~stop
    BY <1>5 DEF SubmitPush, CallInv, outcomeVars, shutdownVars
  <2>2. ~Owed(call.task) /\ told[call.task] = 0 /\ Owed(call.task)'
    BY <2>1 DEF Owed, None, OwedInv
  <2>3. \A u \in Tasks : u # call.task => (Owed(u)' <=> Owed(u))
    BY <2>1 DEF Owed
  <2>4. Status[call.task] = "new" /\ Status' = [Status EXCEPT ![call.task] = "open"]
    <3>1. StatusOf(call.task) = "new" /\ StatusOf(call.task)' = "open"
      BY <2>1, <2>2, <2>3 DEF StatusOf, None
    <3>2. \A u \in Tasks \ {call.task} : StatusOf(u)' = StatusOf(u)
      BY <2>1, <2>2, <2>3 DEF StatusOf, None
    <3> QED
      BY <2>1, <3>1, <3>2, StatusUpdate DEF Status
  <2>5. Phase = "serving" /\ UNCHANGED Phase
    BY <2>1 DEF Phase, ShutdownInv
  <2> QED
    BY <2>1, <2>4, <2>5 DEF Service!TakeOn, Service!ServiceNext
<1>6. CASE SubmitAccept
  <2>1. /\ call.task \in Tasks /\ UNCHANGED <<told, outcome, shut>>
        /\ call.at = "count" /\ call'.at = "none"
        /\ reply' = [reply EXCEPT ![call.task] = "Accepted"]
    BY <1>6 DEF SubmitAccept, CallInv, NoCall, outcomeVars, shutdownVars
  <2>2. \A u \in Tasks : Owed(u)' <=> Owed(u)
    BY <2>1 DEF Owed
  <2>3. \A u \in Tasks : StatusOf(u)' = StatusOf(u)
    BY <2>1, <2>2 DEF StatusOf, Owed
  <2>4. UNCHANGED Status
    BY <2>3 DEF Status
  <2> QED
    BY <2>1, <2>4 DEF Phase
<1>7. ASSUME NEW w \in Workers, WorkerStep(w)
      PROVE  Service!ServiceNext \/ UNCHANGED <<Status, Phase>>
  <2>1. UNCHANGED <<callVars, shut>> /\ UNCHANGED Phase
    BY <1>7, WorkerFrame DEF shutdownVars, Phase
  <2>2. CASE UNCHANGED <<told, outcome>>
    BY <2>1, <2>2, StatusUnchanged DEF callVars, Owed
  <2>3. ASSUME NEW r \in TaskResult, Ends(w, r) PROVE Service!Settle(hand[w], r)
    <3>1. /\ hand[w] \in Tasks /\ told[hand[w]] = 0 /\ Tell(hand[w], r) /\ pc[w] # "exited"
      BY <2>3 DEF Ends, Inside, HandInv, PlacesUntold, WorkerTypes
    <3>2. Owed(hand[w]) /\ shut # "done"
      BY <3>1 DEF OwedInv, ShutdownInv
    <3> QED
      BY <2>1, <3>1, <3>2, StatusSettled
  <2>4. ASSUME NEW r \in TaskResult, Ends(w, r) PROVE hand[w] \in Tasks
    BY <2>4 DEF Ends, Inside, HandInv, WorkerTypes
  <2> QED
    BY <1>7, <2>2, <2>3, <2>4, WorkerEffect DEF Wanders, Takes, Leaves, Service!ServiceNext
<1>8. CASE ShutdownStep
  <2>1. UNCHANGED callVars /\ \A t \in Tasks : (Owed(t)' <=> Owed(t)) /\ reply'[t] = reply[t]
    BY <1>8, ShutdownFrame DEF callVars, Owed
  <2>2. CASE ShutdownJoin \/ DrainQueue
    BY <2>1, <2>2, StatusUnchanged DEF ShutdownJoin, DrainQueue, outcomeVars, Phase
  <2>3. ASSUME NEW t \in Tasks, DrainTask(t) PROVE Service!Settle(t, "Cancelled")
    BY <2>1, <2>3, StatusSettled DEF DrainTask, PlacesUntold, OwedInv, TaskResult
  <2>4. CASE ShutdownEnd
    <3>1. UNCHANGED <<told, outcome>> /\ shut = "draining" /\ shut' = "done"
      BY <2>4 DEF ShutdownEnd, outcomeVars
    <3>2. UNCHANGED Status
      BY <2>1, <3>1, StatusUnchanged
    <3>3. /\ \A v \in Workers : queue'[v] = {} /\ hand'[v] = NoTask
          /\ pending' = {}
      BY <3>1 DEF ShutdownInv, HandInv, Workers, NumWorkers
    <3>4. \A t \in Tasks : Owed(t)' => told'[t] = 1
      BY <3>3 DEF NoTaskLost, Queued, Held
    <3>5. \A t \in Tasks : Status[t] # "open"
      BY <2>1, <3>1, <3>4 DEF Status, StatusOf, ToldInv, TaskResult
    <3> QED
      BY <3>1, <3>2, <3>5 DEF Service!EndClose, Service!ServiceNext, Phase
  <2> QED
    BY <1>8, <2>2, <2>3, <2>4 DEF ShutdownStep, Service!ServiceNext, TaskResult
<1>9. CASE ShutdownBegin
  <2>1. UNCHANGED <<callVars, told, outcome>> /\ shut = "no" /\ shut' = "joining"
    BY <1>9 DEF ShutdownBegin, ShutdownInv, outcomeVars
  <2>2. UNCHANGED Status
    BY <2>1, StatusUnchanged DEF callVars, Owed
  <2> QED
    BY <2>1, <2>2 DEF Service!StartClose, Service!ServiceNext, Phase
<1>10. CASE CallerStep \/ UNCHANGED vars
  <2>1. UNCHANGED <<callVars, told, outcome, shut>>
    BY <1>10, CallerFrame DEF vars, outcomeVars, shutdownVars
  <2>2. UNCHANGED Status
    BY <2>1, StatusUnchanged DEF callVars, Owed
  <2> QED
    BY <2>1, <2>2 DEF Phase
<1>11. SubmitNoWorker \/ SubmitBackpressure => call.task \in Tasks
  BY DEF SubmitNoWorker, SubmitBackpressure, CallInv
<1> QED
  BY <1>1, <1>2, <1>3, <1>4, <1>5, <1>6, <1>7, <1>8, <1>9, <1>10, <1>11, NextCases
  DEF Submission, SubmitStep, Service!ServiceNext

(* Clients see a TaskService, however many workers and queues there are.    *)
THEOREM ImplementsTaskService == Spec => RefinesTaskService
<1>1. Init => Service!ServiceInit
  BY DEF Init, Service!ServiceInit, Status, StatusOf, Phase, Owed, NoCall, None
<1> QED
  BY <1>1, StepRefines, Invariance, PTL DEF Spec, RefinesTaskService, Service!ServiceSpec
-----------------------------------------------------------------------------
(* The counters: what one step adds to a counter it adds to the outcomes told *)
(* or the replies given, or takes from the workers between the two.           *)
Bit(b) == IF b THEN 1 ELSE 0

Is(a, b) == IF a = b THEN 1 ELSE 0

WithOutcome(r) == {t \in Tasks : outcome[t] = r}
Answered(S) == {t \in Tasks : reply[t] \in S}
AtPoint(p) == {w \in Workers : pc[w] = p}

Counted == {"cancelled", "missed", "returned"}
Refusals == {"Backpressure", "Stopped", "Rejected"}

RepliesCounted == /\ stats.submitted = Cardinality(Answered({"Accepted"}))
                  /\ stats.rejected = Cardinality(Answered(Refusals))
OutcomesCounted ==
  /\ stats.completed + Cardinality(AtPoint("returned")) = Cardinality(WithOutcome("Completed"))
  /\ stats.cancelled = Cardinality(WithOutcome("Cancelled")) + Cardinality(AtPoint("cancelled"))
  /\ stats.deadline_missed
       = Cardinality(WithOutcome("DeadlineMissed")) + Cardinality(AtPoint("missed"))

LEMMA CountedSetsFinite ==
  ASSUME NEW r, NEW S, NEW p
  PROVE  /\ IsFiniteSet(WithOutcome(r)) /\ Cardinality(WithOutcome(r)) \in Nat
         /\ IsFiniteSet(Answered(S)) /\ Cardinality(Answered(S)) \in Nat
         /\ IsFiniteSet(AtPoint(p)) /\ Cardinality(AtPoint(p)) \in Nat
<1>1. WithOutcome(r) \subseteq Tasks /\ Answered(S) \subseteq Tasks
  BY DEF WithOutcome, Answered
<1>2. IsFiniteSet(Workers)
  BY FS_Interval DEF Workers, NumWorkers
<1>3. AtPoint(p) \subseteq Workers
  BY DEF AtPoint
<1>4. IsFiniteSet(AtPoint(p)) /\ Cardinality(AtPoint(p)) \in Nat
  BY <1>2, <1>3, FS_Subset, FS_CardinalityType
<1> QED
  BY <1>1, <1>4, TaskSetsFinite

(* A set that an element joins, leaves or neither.                            *)
LEMMA OneChanges ==
  ASSUME NEW S, NEW T, NEW x, IsFiniteSet(S), \A y : y # x => (y \in T <=> y \in S)
  PROVE  Cardinality(T) = Cardinality(S) + Bit(x \in T) - Bit(x \in S)
<1>0. Cardinality(S) \in Nat
  BY FS_CardinalityType
<1>1. CASE x \in S /\ x \in T
  <2>1. T = S
    BY <1>1
  <2> QED
    BY <1>0, <1>1, <2>1 DEF Bit
<1>2. CASE x \notin S /\ x \notin T
  <2>1. T = S
    BY <1>2
  <2> QED
    BY <1>0, <1>2, <2>1 DEF Bit
<1>3. CASE x \notin S /\ x \in T
  <2>1. T = S \cup {x}
    BY <1>3
  <2>2. Cardinality(T) = Cardinality(S) + 1
    BY <1>3, <2>1, FS_AddElement
  <2> QED
    BY <1>0, <1>3, <2>2 DEF Bit
<1>4. CASE x \in S /\ x \notin T
  <2>1. T = S \ {x}
    BY <1>4
  <2>2. Cardinality(T) = Cardinality(S) - 1
    BY <1>4, <2>1, FS_RemoveElement
  <2> QED
    BY <1>0, <1>4, <2>2 DEF Bit
<1> QED
  BY <1>1, <1>2, <1>3, <1>4

LEMMA PointMoves ==
  ASSUME TypeOK, NEW w \in Workers, NEW p \in WorkerAt, pc' = [pc EXCEPT ![w] = p], NEW x
  PROVE  Cardinality(AtPoint(x))' = Cardinality(AtPoint(x)) + Is(p, x) - Is(pc[w], x)
<1>1. w \in AtPoint(x)' <=> p = x
  BY DEF AtPoint, TypeOK, WorkerTypes
<1>2. w \in AtPoint(x) <=> pc[w] = x
  BY DEF AtPoint
<1>3. \A y : y # w => (y \in AtPoint(x)' <=> y \in AtPoint(x))
  BY DEF AtPoint, TypeOK, WorkerTypes
<1>4. Cardinality(AtPoint(x)') = Cardinality(AtPoint(x)) + Bit(w \in AtPoint(x)')
                                  - Bit(w \in AtPoint(x))
  BY <1>3, OneChanges, CountedSetsFinite
<1> QED
  BY <1>1, <1>2, <1>4 DEF Bit, Is

LEMMA OutcomeMoves ==
  ASSUME TypeOK, NEW t \in Tasks, NEW r, outcome' = [outcome EXCEPT ![t] = r], NEW x
  PROVE  Cardinality(WithOutcome(x))'
           = Cardinality(WithOutcome(x)) + Is(r, x) - Is(outcome[t], x)
<1>1. t \in WithOutcome(x)' <=> r = x
  BY DEF WithOutcome, TypeOK, OutcomeTypes
<1>2. t \in WithOutcome(x) <=> outcome[t] = x
  BY DEF WithOutcome
<1>3. \A y : y # t => (y \in WithOutcome(x)' <=> y \in WithOutcome(x))
  BY DEF WithOutcome, TypeOK, OutcomeTypes
<1>4. Cardinality(WithOutcome(x)') = Cardinality(WithOutcome(x)) + Bit(t \in WithOutcome(x)')
                                      - Bit(t \in WithOutcome(x))
  BY <1>3, OneChanges, CountedSetsFinite
<1> QED
  BY <1>1, <1>2, <1>4 DEF Bit, Is

LEMMA ReplyMoves ==
  ASSUME TypeOK, NEW t \in Tasks, NEW s, reply' = [reply EXCEPT ![t] = s], NEW S
  PROVE  Cardinality(Answered(S))' = Cardinality(Answered(S)) + Bit(s \in S) - Bit(reply[t] \in S)
<1>1. t \in Answered(S)' <=> s \in S
  BY DEF Answered, TypeOK, CallTypes
<1>2. t \in Answered(S) <=> reply[t] \in S
  BY DEF Answered
<1>3. \A y : y # t => (y \in Answered(S)' <=> y \in Answered(S))
  BY DEF Answered, TypeOK, CallTypes
<1>4. Cardinality(Answered(S)') = Cardinality(Answered(S)) + Bit(t \in Answered(S)')
                                   - Bit(t \in Answered(S))
  BY <1>3, OneChanges, CountedSetsFinite
<1> QED
  BY <1>1, <1>2, <1>4 DEF Bit

(* The workers a notification wakes are at none of the points that count.     *)
LEMMA NotifiedPoints ==
  ASSUME TypeOK, UNCHANGED pc \/ NotifyAll, NEW p \in Counted
  PROVE  AtPoint(p)' = AtPoint(p)
<1>1. \A w \in Workers : pc'[w] = p <=> pc[w] = p
  BY DEF NotifyAll, Counted
<1> QED
  BY <1>1 DEF AtPoint

LEMMA CountersStep ==
  ASSUME TypeOK, NEW c \in Counter, Bump(c)
  PROVE  /\ stats'[c] = stats[c] + 1
         /\ \A d \in Counter \ {c} : stats'[d] = stats[d]
BY DEF Bump, TypeOK, OutcomeTypes

LEMMA CountersAreNumbers == TypeOK => \A c \in Counter : stats[c] \in Nat
BY DEF TypeOK, OutcomeTypes

(* A submission is answered once, and counted when it is answered.            *)
Answers(t, s) == /\ reply[t] = None /\ reply' = [reply EXCEPT ![t] = s]
                 /\ IF s = "Accepted" THEN Bump("submitted") ELSE s \in Refusals /\ Bump("rejected")

LEMMA AnswersCount ==
  ASSUME TypeOK, RepliesCounted, NEW t \in Tasks, NEW s, Answers(t, s)
  PROVE  RepliesCounted'
<1>1. reply[t] \notin {"Accepted"} /\ reply[t] \notin Refusals
  BY DEF Answers, None, Refusals
<1>2. /\ Cardinality(Answered({"Accepted"}))'
           = Cardinality(Answered({"Accepted"})) + Bit(s \in {"Accepted"})
             - Bit(reply[t] \in {"Accepted"})
      /\ Cardinality(Answered(Refusals))'
           = Cardinality(Answered(Refusals)) + Bit(s \in Refusals) - Bit(reply[t] \in Refusals)
  BY ReplyMoves DEF Answers
<1>3. /\ Cardinality(Answered({"Accepted"})) \in Nat /\ Cardinality(Answered(Refusals)) \in Nat
      /\ stats["submitted"] \in Nat /\ stats["rejected"] \in Nat
  BY CountedSetsFinite, CountersAreNumbers DEF Counter
<1>4. CASE s = "Accepted"
  <2>1. /\ stats'["submitted"] = stats["submitted"] + 1 /\ stats'["rejected"] = stats["rejected"]
    BY <1>4, CountersStep DEF Answers, Counter
  <2> QED
    BY <1>1, <1>2, <1>3, <1>4, <2>1 DEF RepliesCounted, Bit, Refusals
<1>5. CASE s # "Accepted"
  <2>1. /\ stats'["rejected"] = stats["rejected"] + 1 /\ stats'["submitted"] = stats["submitted"]
    BY <1>5, CountersStep DEF Answers, Counter
  <2> QED
    BY <1>1, <1>2, <1>3, <1>5, <2>1 DEF RepliesCounted, Bit, Answers, Refusals
<1> QED
  BY <1>4, <1>5


LEMMA RepliesCountedStep == IInv /\ RepliesCounted /\ [Next]_vars => RepliesCounted'
<1> SUFFICES ASSUME IInv, RepliesCounted, [Next]_vars PROVE RepliesCounted'
  OBVIOUS
<1>0. TypeOK
  BY DEF IInv
<1>1. ASSUME NEW t \in Tasks, NEW k \in TaskKinds, SubmitRefuse(t, k) PROVE RepliesCounted'
  <2>1. Answers(t, Refusal(k))
    BY <1>1 DEF SubmitRefuse, Answers, Refusal, Refusals, None
  <2> QED
    BY <1>0, <2>1, AnswersCount
<1>2. CASE SubmitNoWorker \/ SubmitBackpressure \/ SubmitAccept
  <2>1. call.task \in Tasks /\ reply[call.task] = None
    BY <1>2 DEF SubmitNoWorker, SubmitBackpressure, SubmitAccept, IInv, CallInv
  <2>2. \E s \in {"Accepted", "Rejected", "Backpressure"} : Answers(call.task, s)
    BY <1>2, <2>1 DEF SubmitNoWorker, SubmitBackpressure, SubmitAccept, Answers, Refusals
  <2> QED
    BY <1>0, <2>1, <2>2, AnswersCount
<1>3. CASE /\ UNCHANGED reply
           /\ UNCHANGED stats \/ \E c \in Counter \ {"submitted", "rejected"} : Bump(c)
  <2>1. stats'["submitted"] = stats["submitted"] /\ stats'["rejected"] = stats["rejected"]
    BY <1>0, <1>3, CountersStep DEF Counter
  <2>2. \A S : Answered(S)' = Answered(S)
    BY <1>3 DEF Answered
  <2> QED
    BY <2>1, <2>2 DEF RepliesCounted, Refusals
<1>4. ASSUME NEW w \in Workers, WorkerStep(w)
      PROVE  UNCHANGED stats \/ \E c \in Counter \ {"submitted", "rejected"} : Bump(c)
  BY <1>4 DEF WorkerStep, WorkerStart, TakeTask, TakeNothing, EvaluatePredicate, Block, WaitTimeout,
              Classify, OnCancel, OnDeadlineMissed, FunctionThrows, Finish, FunctionReturns,
              CountCompleted, Counter
<1>5. ShutdownStep => UNCHANGED stats \/ Bump("cancelled")
  BY DEF ShutdownStep, ShutdownJoin, DrainQueue, DrainTask, ShutdownEnd
<1>6. ASSUME NEW t \in Tasks, NEW k \in TaskKinds, SubmitNumber(t, k) PROVE RepliesCounted'
  BY <1>3, <1>6 DEF SubmitNumber
<1>7. CASE SubmitLoadThermal \/ SubmitScan \/ SubmitPush
  BY <1>3, <1>7 DEF SubmitLoadThermal, SubmitScan, SubmitPush
<1>8. CASE (\E w \in Workers : WorkerStep(w)) \/ ShutdownStep
  BY <1>3, <1>4, <1>5, <1>8, WorkerFrame, ShutdownFrame DEF callVars, Counter
<1>9. CASE ShutdownBegin \/ CallerStep \/ UNCHANGED vars
  BY <1>3, <1>9, CallerFrame DEF ShutdownBegin, callVars, vars
<1> QED
  BY <1>1, <1>2, <1>6, <1>7, <1>8, <1>9, NextCases DEF Submission, SubmitStep

(* A worker counts a task before it tells of a cancellation or a missed       *)
(* deadline, and after it tells of a completion.                              *)
PointsCount(w, p) ==
  /\ pc' = [pc EXCEPT ![w] = p] /\ UNCHANGED outcome
  /\ \/ pc[w] \notin Counted /\ p \notin Counted /\ (UNCHANGED stats \/ Bump("stolen"))
     \/ pc[w] \notin Counted /\ p = "cancelled" /\ Bump("cancelled")
     \/ pc[w] \notin Counted /\ p = "missed" /\ Bump("deadline_missed")
     \/ pc[w] = "returned" /\ p \notin Counted /\ Bump("completed")
PointsTell(w, p, r) ==
  /\ pc' = [pc EXCEPT ![w] = p] /\ outcome' = [outcome EXCEPT ![hand[w]] = r] /\ UNCHANGED stats
  /\ \/ pc[w] = "cancelled" /\ p = "loop" /\ r = "Cancelled"
     \/ pc[w] = "missed" /\ p = "loop" /\ r = "DeadlineMissed"
     \/ pc[w] = "running" /\ p = "loop" /\ r = "Failed"
     \/ pc[w] = "running" /\ p = "returned" /\ r = "Completed"

LEMMA WorkerCounts ==
  ASSUME TypeOK, NEW w \in Workers, WorkerStep(w)
  PROVE  \/ \E p \in WorkerAt : PointsCount(w, p)
         \/ \E p \in WorkerAt, r \in TaskResult : PointsTell(w, p, r)
<1>1. CASE WorkerStart(w)
  BY <1>1 DEF WorkerStart, PointsCount, outcomeVars, WorkerAt, Counted
<1>2. ASSUME NEW t \in Tasks, TakeTask(w, t) PROVE PointsCount(w, "taken")
  BY <1>2 DEF TakeTask, PointsCount, outcomeVars, Counted
<1>3. CASE TakeNothing(w)
  <2>1. pc = [pc EXCEPT ![w] = "take"]
    BY <1>3 DEF TakeNothing, TypeOK, WorkerTypes
  <2>2. PointsCount(w, "take") \/ PointsCount(w, "idle")
    BY <1>3, <2>1 DEF TakeNothing, PointsCount, outcomeVars, Counted
  <2> QED
    BY <2>2 DEF WorkerAt
<1>4. CASE EvaluatePredicate(w) \/ Block(w) \/ WaitTimeout(w)
  BY <1>4 DEF EvaluatePredicate, Block, WaitTimeout, PointsCount, outcomeVars, WorkerAt, Counted
<1>5. CASE Classify(w)
  BY <1>5 DEF Classify, PointsCount, outcomeVars, WorkerAt, Counted
<1>6. CASE OnCancel(w) \/ OnDeadlineMissed(w) \/ FunctionThrows(w)
  BY <1>6 DEF OnCancel, OnDeadlineMissed, FunctionThrows, Finish, Tell, PointsTell, WorkerAt,
              TaskResult
<1>7. CASE FunctionReturns(w)
  BY <1>7 DEF FunctionReturns, Tell, PointsTell, WorkerAt, TaskResult
<1>8. CASE CountCompleted(w)
  BY <1>8 DEF CountCompleted, PointsCount, outcomeVars, WorkerAt, Counted
<1> QED
  BY <1>1, <1>2, <1>3, <1>4, <1>5, <1>6, <1>7, <1>8 DEF WorkerStep, WorkerAt

LEMMA CountedNumbers ==
  ASSUME TypeOK
  PROVE  /\ \A p : Cardinality(AtPoint(p)) \in Nat /\ \A r : Cardinality(WithOutcome(r)) \in Nat
         /\ stats["completed"] \in Nat /\ stats["cancelled"] \in Nat
         /\ stats["deadline_missed"] \in Nat
BY CountedSetsFinite, CountersAreNumbers DEF Counter

LEMMA PointsCountKeeps ==
  ASSUME TypeOK, OutcomesCounted, NEW w \in Workers, NEW p \in WorkerAt, PointsCount(w, p)
  PROVE  OutcomesCounted'
<1>1. \A r : WithOutcome(r)' = WithOutcome(r)
  BY DEF PointsCount, WithOutcome
<1>2. ASSUME NEW x
      PROVE  Cardinality(AtPoint(x))' = Cardinality(AtPoint(x)) + Is(p, x) - Is(pc[w], x)
  <2>1. pc' = [pc EXCEPT ![w] = p]
    BY DEF PointsCount
  <2> QED
    BY <2>1, PointMoves
<1>3. /\ stats'["completed"] = stats["completed"] + Is(pc[w], "returned")
      /\ stats'["cancelled"] = stats["cancelled"] + Is(p, "cancelled")
      /\ stats'["deadline_missed"] = stats["deadline_missed"] + Is(p, "missed")
  BY CountersStep, CountedNumbers DEF PointsCount, Counted, Counter, Is
<1>4. /\ pc[w] # "cancelled" /\ pc[w] # "missed" /\ p # "returned"
  BY DEF PointsCount, Counted
<1> QED
  BY <1>1, <1>2, <1>3, <1>4, CountedNumbers DEF OutcomesCounted, Is

LEMMA PointsTellKeeps ==
  ASSUME IInv, OutcomesCounted, NEW w \in Workers, NEW p \in WorkerAt, NEW r \in TaskResult,
         PointsTell(w, p, r)
  PROVE  OutcomesCounted'
<1>0. TypeOK
  BY DEF IInv
<1>1. hand[w] \in Tasks /\ outcome[hand[w]] = None
  <2>1. hand[w] # NoTask /\ pc[w] # "returned"
    BY DEF PointsTell, IInv, HandInv
  <2> QED
    BY <1>0, <2>1 DEF IInv, TypeOK, WorkerTypes, PlacesUntold, ToldInv
<1>2. ASSUME NEW x
      PROVE  Cardinality(AtPoint(x))' = Cardinality(AtPoint(x)) + Is(p, x) - Is(pc[w], x)
  <2>1. pc' = [pc EXCEPT ![w] = p]
    BY DEF PointsTell
  <2> QED
    BY <1>0, <2>1, PointMoves
<1>3. ASSUME NEW x
      PROVE  Cardinality(WithOutcome(x))'
               = Cardinality(WithOutcome(x)) + Is(r, x) - Is(outcome[hand[w]], x)
  <2>1. outcome' = [outcome EXCEPT ![hand[w]] = r]
    BY DEF PointsTell
  <2> QED
    BY <1>0, <1>1, <2>1, OutcomeMoves
<1>4. UNCHANGED stats
  BY DEF PointsTell
<1>5. /\ Is(r, "Completed") = Is(p, "returned") /\ pc[w] # "returned"
      /\ Is(r, "Cancelled") = Is(pc[w], "cancelled") /\ p # "cancelled"
      /\ Is(r, "DeadlineMissed") = Is(pc[w], "missed") /\ p # "missed"
  BY DEF PointsTell, Is
<1>7. /\ Is(outcome[hand[w]], "Completed") = 0 /\ Is(outcome[hand[w]], "Cancelled") = 0
      /\ Is(outcome[hand[w]], "DeadlineMissed") = 0
      /\ Is(pc[w], "returned") = 0 /\ Is(p, "cancelled") = 0 /\ Is(p, "missed") = 0
  BY <1>1, <1>5 DEF Is, None
<1> QED
  BY <1>0, <1>2, <1>3, <1>4, <1>5, <1>7, CountedNumbers DEF OutcomesCounted, Is

LEMMA OutcomesCountedStep == IInv /\ OutcomesCounted /\ [Next]_vars => OutcomesCounted'
<1> SUFFICES ASSUME IInv, OutcomesCounted, [Next]_vars PROVE OutcomesCounted'
  OBVIOUS
<1>0. TypeOK
  BY DEF IInv
<1>1. CASE /\ UNCHANGED outcome /\ (UNCHANGED pc \/ NotifyAll)
           /\ UNCHANGED stats \/ Bump("submitted") \/ Bump("rejected")
  <2>1. \A r : WithOutcome(r)' = WithOutcome(r)
    BY <1>1 DEF WithOutcome
  <2>2. \A p \in Counted : AtPoint(p)' = AtPoint(p)
    BY <1>0, <1>1, NotifiedPoints
  <2>3. /\ stats'["completed"] = stats["completed"] /\ stats'["cancelled"] = stats["cancelled"]
        /\ stats'["deadline_missed"] = stats["deadline_missed"]
    BY <1>0, <1>1, CountersStep DEF Counter
  <2> QED
    BY <2>1, <2>2, <2>3 DEF OutcomesCounted, Counted
<1>2. CASE Submission
  <2>1. (UNCHANGED pc \/ NotifyAll) /\ (UNCHANGED stats \/ Bump("submitted") \/ Bump("rejected"))
    BY <1>2 DEF Submission, SubmitRefuse, SubmitNumber, SubmitStep, SubmitLoadThermal, SubmitScan,
                SubmitNoWorker, SubmitBackpressure, SubmitPush, SubmitAccept, workerVars
  <2> QED
    BY <1>1, <1>2, <2>1, SubmissionFrame DEF outcomeVars
<1>3. ASSUME NEW w \in Workers, WorkerStep(w) PROVE OutcomesCounted'
  BY <1>0, <1>3, WorkerCounts, PointsCountKeeps, PointsTellKeeps
<1>4. CASE ShutdownBegin \/ CallerStep \/ UNCHANGED vars
  <2>1. UNCHANGED pc \/ NotifyAll
    BY <1>4 DEF ShutdownBegin, CallerStep, SetThermalState, Cancel, Tick, vars, workerVars
  <2> QED
    BY <1>1, <1>4, <2>1, CallerFrame DEF ShutdownBegin, vars, outcomeVars
<1>5. ASSUME NEW t \in Tasks, DrainTask(t) PROVE OutcomesCounted'
  <2>1. outcome[t] = None
    BY <1>5 DEF DrainTask, IInv, PlacesUntold, ToldInv
  <2>2. ASSUME NEW x
        PROVE  Cardinality(WithOutcome(x))'
                 = Cardinality(WithOutcome(x)) + Is("Cancelled", x) - Is(outcome[t], x)
    <3>1. outcome' = [outcome EXCEPT ![t] = "Cancelled"]
      BY <1>5 DEF DrainTask, Tell
    <3> QED
      BY <1>0, <3>1, OutcomeMoves
  <2>3. \A p : AtPoint(p)' = AtPoint(p)
    BY <1>5 DEF DrainTask, workerVars, AtPoint
  <2>4. /\ stats'["completed"] = stats["completed"] /\ stats'["cancelled"] = stats["cancelled"] + 1
        /\ stats'["deadline_missed"] = stats["deadline_missed"]
    BY <1>0, <1>5, CountersStep DEF DrainTask, Counter
  <2>5. /\ Is(outcome[t], "Completed") = 0 /\ Is(outcome[t], "Cancelled") = 0
        /\ Is(outcome[t], "DeadlineMissed") = 0
    BY <2>1 DEF Is, None
  <2>6. /\ Is("Cancelled", "Completed") = 0 /\ Is("Cancelled", "Cancelled") = 1
        /\ Is("Cancelled", "DeadlineMissed") = 0
    BY DEF Is
  <2> QED
    BY <1>0, <2>2, <2>3, <2>4, <2>5, <2>6, CountedNumbers DEF OutcomesCounted
<1>6. CASE ShutdownStep
  <2>1. (\E t \in Tasks : DrainTask(t)) \/ UNCHANGED <<outcomeVars, pc, stats>>
    BY <1>6 DEF ShutdownStep, ShutdownJoin, DrainQueue, ShutdownEnd, workerVars
  <2> QED
    BY <1>1, <1>5, <2>1 DEF outcomeVars
<1> QED
  BY <1>2, <1>3, <1>4, <1>6, NextCases

LEMMA InitCounted == Init => RepliesCounted /\ OutcomesCounted
<1> SUFFICES ASSUME Init PROVE RepliesCounted /\ OutcomesCounted
  OBVIOUS
<1>1. \A S \in {{"Accepted"}, Refusals} : Answered(S) = {}
  BY DEF Init, Answered, None, Refusals
<1>2. \A r \in TaskResult : WithOutcome(r) = {}
  BY DEF Init, WithOutcome, None, TaskResult
<1>3. \A p \in Counted : AtPoint(p) = {}
  BY DEF Init, AtPoint, Counted
<1>4. \A c \in Counter : stats[c] = 0
  BY DEF Init, ZeroStats
<1> QED
  BY <1>1, <1>2, <1>3, <1>4, FS_EmptySet
  DEF RepliesCounted, OutcomesCounted, TaskResult, Counted, Counter

(* The counters of SchedulerStats agree with what the owners of the tasks      *)
(* heard, up to the threads between a count and the callback.                 *)
THEOREM CountersAlwaysAgree == Spec => []CountersAgree
<1>1. RepliesCounted /\ OutcomesCounted => CountersAgree
  BY DEF RepliesCounted, OutcomesCounted, CountersAgree, Answered, WithOutcome, AtPoint, Refusals
<1>2. Spec => [](RepliesCounted /\ OutcomesCounted)
  BY InitCounted, RepliesCountedStep, OutcomesCountedStep, Invariance, PTL DEF Spec
<1> QED
  BY <1>1, <1>2, PTL
=============================================================================
