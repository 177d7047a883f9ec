------------------------------ MODULE Scheduler ------------------------------
(***************************************************************************)
(* The native heterogeneous dispatcher, holy_fitra_dispatch.{h,cpp}: big    *)
(* and little worker threads, one bounded queue per worker, work stealing,  *)
(* a thermal state that closes the big cores, cancellation tokens,          *)
(* deadlines, and a shutdown that joins the workers and drains the queues.  *)
(*                                                                         *)
(* An element of Tasks stands for one call of Scheduler::submit, and        *)
(* TaskKinds for the Task structs callers pass.  Submission order is kept   *)
(* in seqNo, so a queue is a SET of tasks: the deque's order is that of     *)
(* seqNo (pushes happen under lifecycle_mutex) and pop_owner and steal      *)
(* look at no other order.  A step is what one thread does between two      *)
(* accesses to shared state that another thread can observe.                *)
(***************************************************************************)
EXTENDS Integers, FiniteSets, TLC

CONSTANTS LittleWorkers, BigWorkers,  \* how many worker threads of each sort
          QueueCapacity,              \* SchedulerConfig::queue_capacity
          Tasks, NoTask,              \* calls of submit(), and the null task
          Tokens, NoToken,            \* shared cancellation tokens, and nullptr
          TaskKinds,                  \* the Task structs callers submit
          ThermalInputs,              \* the states callers set
          MaxTime                     \* bound on the monotonic clock

CoreClass == {"Any", "BigOnly", "LittleOnly", "BigPreferred", "LittlePreferred"}
Priority == 0..3
ThermalState == {"Normal", "Warm", "Hot", "Critical"}
SubmitStatus == {"Accepted", "Backpressure", "Stopped", "Rejected"}
TaskResult == {"Completed", "Cancelled", "DeadlineMissed", "Failed"}
None == "none"

Task == [function : BOOLEAN, core_class : CoreClass, priority : Priority,
         deadline : Nat, cancellation : Tokens \cup {NoToken}]

DefaultTask == [function |-> FALSE, core_class |-> "Any", priority |-> 1,
                deadline |-> 0, cancellation |-> NoToken]

NumWorkers == LittleWorkers + BigWorkers
Workers == 0..(NumWorkers - 1)
Big(w) == w >= LittleWorkers          \* the constructor numbers little first

ASSUME WorkersAssumption ==
  LittleWorkers \in Nat /\ BigWorkers \in Nat /\ NumWorkers > 0
ASSUME CapacityAssumption == QueueCapacity \in Nat
ASSUME TasksAssumption == IsFiniteSet(Tasks) /\ NoTask \notin Tasks
ASSUME TokensAssumption == NoToken \notin Tokens
ASSUME InputsAssumption == /\ TaskKinds \subseteq Task
                           /\ ThermalInputs \subseteq ThermalState
                           /\ MaxTime \in Nat

VARIABLES
  thermal,   \* the atomic thermal state
  cancelled, \* the tokens cancelled so far
  now,       \* monotonic_time_ns()
  stop,      \* the atomic stop flag
  kind,      \* [Tasks -> the Task passed to submit], meaningless before the call
  reply,     \* [Tasks -> what submit answered, or None]
  seqNo,     \* [Tasks -> Task::sequence]
  sequence,  \* the next sequence number
  call,      \* the submit() that holds lifecycle_mutex, if one does
  queue,     \* [Workers -> the tasks in the worker's deque]
  pc,        \* [Workers -> where the worker's loop is]
  hand,      \* [Workers -> the task taken and not finished, or NoTask]
  offset,    \* [Workers -> how far take_task has got round the workers]
  shut,      \* where shutdown() is
  drainAt,   \* the next queue shutdown() drains
  pending,   \* the tasks drained from a queue, callbacks not yet made
  outcome,   \* [Tasks -> the outcome the task's owner was told, or None]
  told,      \* [Tasks -> how many times an outcome was told]
  stats      \* the atomic counters of SchedulerStats

inputVars == <<thermal, cancelled, now>>
callVars == <<kind, reply, seqNo, sequence, call>>
workerVars == <<pc, hand, offset>>
shutdownVars == <<stop, shut, drainAt, pending>>
outcomeVars == <<outcome, told>>
vars == <<inputVars, callVars, queue, workerVars, shutdownVars, outcomeVars, stats>>

CallAt == {"none", "scan", "count"}
WorkerAt == {"loop", "take", "idle", "blocking", "waiting", "taken", "cancelled", "missed",
             "running", "returned", "exited"}
ShutdownAt == {"no", "joining", "draining", "done"}
NoWorker == NumWorkers
NoCall == [at |-> "none", task |-> NoTask, critical |-> FALSE, next |-> 0,
           best |-> NoWorker, size |-> 0]
Counter == {"submitted", "completed", "cancelled", "deadline_missed", "rejected", "stolen"}
ZeroStats == [c \in Counter |-> 0]

Init ==
  /\ thermal = "Normal" /\ cancelled = {} /\ now = 0
  /\ kind = [t \in Tasks |-> DefaultTask]
  /\ reply = [t \in Tasks |-> None]
  /\ seqNo = [t \in Tasks |-> 0] /\ sequence = 0
  /\ call = NoCall
  /\ queue = [w \in Workers |-> {}]
  /\ pc = [w \in Workers |-> "loop"]
  /\ hand = [w \in Workers |-> NoTask]
  /\ offset = [w \in Workers |-> 0]
  /\ stop = FALSE /\ shut = "no" /\ drainAt = 0 /\ pending = {}
  /\ outcome = [t \in Tasks |-> None] /\ told = [t \in Tasks |-> 0]
  /\ stats = ZeroStats

-----------------------------------------------------------------------------
(* Helpers shared by the actions.                                           *)

(* thermal_allows and can_take.  The test of is_cancelled() in can_take     *)
(* comes after the thermal one and both its branches answer true.           *)
CanTake(w, k) ==
  /\ ~(Big(w) /\ thermal = "Critical")
  /\ k.core_class = "BigOnly" => Big(w)
  /\ k.core_class = "LittleOnly" => ~Big(w)
  /\ k.core_class = "BigPreferred" => Big(w) \/ thermal = "Critical"
  /\ k.core_class = "LittlePreferred" => ~Big(w) \/ thermal \in {"Hot", "Critical"}

(* WorkDeque::higher_priority: priority, then timed before untimed, then    *)
(* the earlier deadline, then the LATER submission.                         *)
HigherPriority(t, u) ==
  LET a == kind[t]  b == kind[u] IN
  \/ a.priority > b.priority
  \/ /\ a.priority = b.priority
     /\ \/ a.deadline # 0 /\ b.deadline = 0
        \/ a.deadline # 0 /\ b.deadline # 0 /\ a.deadline < b.deadline
        \/ a.deadline = b.deadline /\ seqNo[t] > seqNo[u]

Takeable(w, v) == {t \in queue[v] : CanTake(w, kind[t])}

(* has_compatible_work, the predicate of the condition variable: any        *)
(* non-empty queue will do, unless the worker is big and the state Critical.*)
HasCompatibleWork(w) ==
  /\ \E v \in Workers : queue[v] # {}
  /\ ~Big(w) \/ thermal # "Critical"

(* wake_cv.notify_all(): made without wake_mutex, so it reaches only the    *)
(* workers already blocked, which evaluate their predicate again.           *)
NotifyAll == pc' = [w \in Workers |-> IF pc[w] = "waiting" THEN "idle" ELSE pc[w]]

Bump(counter) == stats' = [stats EXCEPT ![counter] = @ + 1]

Tell(t, result) == /\ outcome' = [outcome EXCEPT ![t] = result]
                   /\ told' = [told EXCEPT ![t] = @ + 1]

Cancelled(k) == k.cancellation \in cancelled
Expired(k) == k.deadline # 0 /\ now > k.deadline

(* Variant with a fault: shutdown() does not wait for a submit() under way.  *)
LifecycleFreeUnlocked == shut \in {"no", "done"}

LifecycleFree == call.at = "none" /\ shut \in {"no", "done"}

-----------------------------------------------------------------------------
(* submit(): one call at a time, under lifecycle_mutex.                     *)

(* The tests submit() makes before it numbers the task; None: it goes on.   *)
Refusal(k) ==
  IF stop THEN "Stopped"
  ELSE IF \/ ~k.function
          \/ k.deadline # 0 /\ k.deadline <= now
          \/ thermal = "Critical" /\ k.core_class = "BigOnly"
       THEN "Rejected"
       ELSE None

SubmitRefuse(t, k) ==
  /\ LifecycleFree /\ reply[t] = None /\ Refusal(k) # None
  /\ reply' = [reply EXCEPT ![t] = Refusal(k)]
  /\ kind' = [kind EXCEPT ![t] = k]
  /\ Bump("rejected")
  /\ UNCHANGED <<inputVars, seqNo, sequence, call, queue, workerVars,
                 shutdownVars, outcomeVars>>

SubmitNumber(t, k) ==
  /\ LifecycleFree /\ reply[t] = None /\ Refusal(k) = None
  /\ kind' = [kind EXCEPT ![t] = k]
  /\ seqNo' = [seqNo EXCEPT ![t] = sequence]
  /\ sequence' = sequence + 1
  /\ call' = [NoCall EXCEPT !.at = "scan", !.task = t]
  /\ UNCHANGED <<inputVars, reply, queue, workerVars, shutdownVars, outcomeVars, stats>>

(* The second load of the thermal state, which the scan goes by.            *)
SubmitLoadThermal ==
  /\ call.at = "scan" /\ call.next = 0
  /\ call' = [call EXCEPT !.critical = (thermal = "Critical"), !.next = 1]
  /\ UNCHANGED <<inputVars, kind, reply, seqNo, sequence, queue, workerVars,
                 shutdownVars, outcomeVars, stats>>

Eligible(k, w, critical) == /\ k.core_class = "BigOnly" => Big(w)
                            /\ k.core_class = "LittleOnly" => ~Big(w)
                            /\ ~(Big(w) /\ critical)

Penalty(k, w) == IF \/ k.core_class = "BigPreferred" /\ ~Big(w)
                    \/ k.core_class = "LittlePreferred" /\ Big(w)
                 THEN 1 ELSE 0

(* One iteration of the scan: worker next-1 displaces the best so far if    *)
(* its penalty is lower, or equal with a shorter queue.  The sizes are read *)
(* one queue at a time while the workers go on taking tasks.                *)
SubmitScan ==
  /\ call.at = "scan" /\ call.next \in 1..NumWorkers
  /\ LET k == kind[call.task]
         w == call.next - 1
         size == Cardinality(queue[w])
         better == \/ call.best = NoWorker
                   \/ Penalty(k, w) < Penalty(k, call.best)
                   \/ Penalty(k, w) = Penalty(k, call.best) /\ size < call.size
     IN  call' = IF Eligible(k, w, call.critical) /\ better
                 THEN [call EXCEPT !.next = @ + 1, !.best = w, !.size = size]
                 ELSE [call EXCEPT !.next = @ + 1]
  /\ UNCHANGED <<inputVars, kind, reply, seqNo, sequence, queue, workerVars,
                 shutdownVars, outcomeVars, stats>>

(* The scan is over: no worker at all, a full queue, or the push.           *)
SubmitNoWorker ==
  /\ call.at = "scan" /\ call.next > NumWorkers /\ call.best = NoWorker
  /\ reply' = [reply EXCEPT ![call.task] = "Rejected"]
  /\ call' = NoCall
  /\ Bump("rejected")
  /\ UNCHANGED <<inputVars, kind, seqNo, sequence, queue, workerVars,
                 shutdownVars, outcomeVars>>

SubmitBackpressure ==
  /\ call.at = "scan" /\ call.next > NumWorkers /\ call.best # NoWorker
  /\ Cardinality(queue[call.best]) >= QueueCapacity
  /\ reply' = [reply EXCEPT ![call.task] = "Backpressure"]
  /\ call' = NoCall
  /\ Bump("rejected")
  /\ UNCHANGED <<inputVars, kind, seqNo, sequence, queue, workerVars,
                 shutdownVars, outcomeVars>>

SubmitPush ==
  /\ call.at = "scan" /\ call.next > NumWorkers /\ call.best # NoWorker
  /\ Cardinality(queue[call.best]) < QueueCapacity
  /\ queue' = [queue EXCEPT ![call.best] = @ \cup {call.task}]
  /\ call' = [call EXCEPT !.at = "count"]
  /\ UNCHANGED <<inputVars, kind, reply, seqNo, sequence, workerVars,
                 shutdownVars, outcomeVars, stats>>

(* The task is in the queue, and may have run, before it is counted.        *)
SubmitAccept ==
  /\ call.at = "count"
  /\ reply' = [reply EXCEPT ![call.task] = "Accepted"]
  /\ call' = NoCall
  /\ Bump("submitted")
  /\ NotifyAll
  /\ UNCHANGED <<inputVars, kind, seqNo, sequence, queue, hand, offset,
                 shutdownVars, outcomeVars>>

SubmitStep == \/ SubmitLoadThermal \/ SubmitScan \/ SubmitNoWorker
              \/ SubmitBackpressure \/ SubmitPush \/ SubmitAccept

-----------------------------------------------------------------------------
(* worker_loop().                                                           *)

WorkerStart(w) ==
  /\ pc[w] = "loop"
  /\ pc' = [pc EXCEPT ![w] = IF stop THEN "exited" ELSE "take"]
  /\ UNCHANGED <<inputVars, callVars, queue, hand, offset, shutdownVars, outcomeVars, stats>>

(* take_task: at offset 0 pop_owner on the worker's own queue, then steal   *)
(* from the others in turn; each looks at one queue under that queue's      *)
(* mutex and takes the task no other takeable task outranks.                *)
Victim(w) == (w + offset[w]) % NumWorkers

(* Variant with a fault: the task taken is left in the queue.               *)
TakeTaskCopied(w, t) ==
  /\ pc[w] = "take" /\ t \in Takeable(w, Victim(w))
  /\ hand' = [hand EXCEPT ![w] = t]
  /\ pc' = [pc EXCEPT ![w] = "taken"]
  /\ UNCHANGED <<inputVars, callVars, queue, offset, shutdownVars, outcomeVars, stats>>

TakeTask(w, t) ==
  /\ pc[w] = "take" /\ t \in Takeable(w, Victim(w))
  /\ \A u \in Takeable(w, Victim(w)) : ~HigherPriority(u, t)
  /\ queue' = [queue EXCEPT ![Victim(w)] = @ \ {t}]
  /\ hand' = [hand EXCEPT ![w] = t]
  /\ pc' = [pc EXCEPT ![w] = "taken"]
  /\ offset' = [offset EXCEPT ![w] = 0]
  /\ IF offset[w] = 0 THEN UNCHANGED stats ELSE Bump("stolen")
  /\ UNCHANGED <<inputVars, callVars, shutdownVars, outcomeVars>>

(* Variant with a fault: nobody steals.                                     *)
TakeNothingNoSteal(w) ==
  /\ pc[w] = "take" /\ Takeable(w, Victim(w)) = {}
  /\ pc' = [pc EXCEPT ![w] = "idle"]
  /\ UNCHANGED <<inputVars, callVars, queue, hand, offset, shutdownVars, outcomeVars, stats>>

TakeNothing(w) ==
  /\ pc[w] = "take" /\ Takeable(w, Victim(w)) = {}
  /\ IF offset[w] + 1 < NumWorkers
     THEN offset' = [offset EXCEPT ![w] = @ + 1] /\ UNCHANGED pc
     ELSE offset' = [offset EXCEPT ![w] = 0] /\ pc' = [pc EXCEPT ![w] = "idle"]
  /\ UNCHANGED <<inputVars, callVars, queue, hand, shutdownVars, outcomeVars, stats>>

(* wait_for(2ms, predicate): the predicate is evaluated and, if false, the  *)
(* worker blocks.  A notification sent between the two steps is lost, since *)
(* no notifier holds wake_mutex; the 2 ms limit ends every wait.            *)
EvaluatePredicate(w) ==
  /\ pc[w] = "idle"
  /\ pc' = [pc EXCEPT ![w] = IF stop \/ HasCompatibleWork(w) THEN "loop" ELSE "blocking"]
  /\ UNCHANGED <<inputVars, callVars, queue, hand, offset, shutdownVars, outcomeVars, stats>>

Block(w) ==
  /\ pc[w] = "blocking"
  /\ pc' = [pc EXCEPT ![w] = "waiting"]
  /\ UNCHANGED <<inputVars, callVars, queue, hand, offset, shutdownVars, outcomeVars, stats>>

(* Variant with a fault: a wait without the 2 ms limit.                     *)
WaitForever(w) == pc[w] = "waiting" /\ UNCHANGED vars

WaitTimeout(w) ==
  /\ pc[w] = "waiting"
  /\ pc' = [pc EXCEPT ![w] = "loop"]
  /\ UNCHANGED <<inputVars, callVars, queue, hand, offset, shutdownVars, outcomeVars, stats>>

(* The token, then the deadline, are read once; a task that is neither      *)
(* cancelled nor late is run whatever happens to either afterwards.         *)
Classify(w) ==
  /\ pc[w] = "taken"
  /\ LET k == kind[hand[w]] IN
     CASE Cancelled(k) -> pc' = [pc EXCEPT ![w] = "cancelled"] /\ Bump("cancelled")
       [] ~Cancelled(k) /\ Expired(k) ->
            pc' = [pc EXCEPT ![w] = "missed"] /\ Bump("deadline_missed")
       [] OTHER -> pc' = [pc EXCEPT ![w] = "running"] /\ UNCHANGED stats
  /\ UNCHANGED <<inputVars, callVars, queue, hand, offset, shutdownVars, outcomeVars>>

Finish(w, result) ==
  /\ Tell(hand[w], result)
  /\ hand' = [hand EXCEPT ![w] = NoTask]
  /\ pc' = [pc EXCEPT ![w] = "loop"]
  /\ UNCHANGED <<inputVars, callVars, queue, offset, shutdownVars, stats>>

(* Variants with a fault: the callback is not made; a failure is counted.   *)
OnCancelSilent(w) ==
  /\ pc[w] = "cancelled"
  /\ hand' = [hand EXCEPT ![w] = NoTask]
  /\ pc' = [pc EXCEPT ![w] = "loop"]
  /\ UNCHANGED <<inputVars, callVars, queue, offset, shutdownVars, outcomeVars, stats>>
FunctionThrowsCounted(w) ==
  /\ pc[w] = "running"
  /\ Tell(hand[w], "Failed")
  /\ pc' = [pc EXCEPT ![w] = "returned"]
  /\ UNCHANGED <<inputVars, callVars, queue, hand, offset, shutdownVars, stats>>

OnCancel(w) == pc[w] = "cancelled" /\ Finish(w, "Cancelled")
OnDeadlineMissed(w) == pc[w] = "missed" /\ Finish(w, "DeadlineMissed")

(* The function throws: on_failure is called and no counter counts it.      *)
FunctionThrows(w) == pc[w] = "running" /\ Finish(w, "Failed")

(* The function returns: what it did is done before it is counted.          *)
FunctionReturns(w) ==
  /\ pc[w] = "running"
  /\ Tell(hand[w], "Completed")
  /\ pc' = [pc EXCEPT ![w] = "returned"]
  /\ UNCHANGED <<inputVars, callVars, queue, hand, offset, shutdownVars, stats>>

CountCompleted(w) ==
  /\ pc[w] = "returned"
  /\ Bump("completed")
  /\ hand' = [hand EXCEPT ![w] = NoTask]
  /\ pc' = [pc EXCEPT ![w] = "loop"]
  /\ UNCHANGED <<inputVars, callVars, queue, offset, shutdownVars, outcomeVars>>

WorkerStep(w) == \/ WorkerStart(w) \/ (\E t \in Tasks : TakeTask(w, t))
                 \/ TakeNothing(w) \/ EvaluatePredicate(w) \/ Block(w) \/ WaitTimeout(w)
                 \/ Classify(w) \/ OnCancel(w) \/ OnDeadlineMissed(w)
                 \/ FunctionThrows(w) \/ FunctionReturns(w) \/ CountCompleted(w)

-----------------------------------------------------------------------------
(* shutdown(): holds lifecycle_mutex from the stop flag to the last callback.*)

ShutdownBegin ==
  /\ LifecycleFree /\ ~stop
  /\ stop' = TRUE /\ shut' = "joining"
  /\ NotifyAll
  /\ UNCHANGED <<inputVars, callVars, queue, hand, offset, drainAt, pending,
                 outcomeVars, stats>>

ShutdownJoin ==
  /\ shut = "joining" /\ \A w \in Workers : pc[w] = "exited"
  /\ shut' = "draining"
  /\ UNCHANGED <<inputVars, callVars, queue, workerVars, stop, drainAt, pending,
                 outcomeVars, stats>>

(* Variants with a fault: the drained queue is not emptied; the last queue  *)
(* is not drained.                                                          *)
DrainQueueCopied ==
  /\ shut = "draining" /\ pending = {} /\ drainAt < NumWorkers
  /\ pending' = queue[drainAt]
  /\ drainAt' = drainAt + 1
  /\ UNCHANGED <<inputVars, callVars, queue, workerVars, stop, shut, outcomeVars, stats>>
ShutdownEndEarly ==
  /\ shut = "draining" /\ pending = {} /\ drainAt = NumWorkers - 1
  /\ shut' = "done"
  /\ UNCHANGED <<inputVars, callVars, queue, workerVars, stop, drainAt, pending,
                 outcomeVars, stats>>

DrainQueue ==
  /\ shut = "draining" /\ pending = {} /\ drainAt < NumWorkers
  /\ pending' = queue[drainAt]
  /\ queue' = [queue EXCEPT ![drainAt] = {}]
  /\ drainAt' = drainAt + 1
  /\ UNCHANGED <<inputVars, callVars, workerVars, stop, shut, outcomeVars, stats>>

(* The drained tasks in deque order: counted and told Cancelled.            *)
DrainTask(t) ==
  /\ shut = "draining" /\ t \in pending /\ \A u \in pending : seqNo[t] <= seqNo[u]
  /\ pending' = pending \ {t}
  /\ Tell(t, "Cancelled")
  /\ Bump("cancelled")
  /\ UNCHANGED <<inputVars, callVars, queue, workerVars, stop, shut, drainAt>>

ShutdownEnd ==
  /\ shut = "draining" /\ pending = {} /\ drainAt = NumWorkers
  /\ shut' = "done"
  /\ UNCHANGED <<inputVars, callVars, queue, workerVars, stop, drainAt, pending,
                 outcomeVars, stats>>

ShutdownStep == ShutdownJoin \/ DrainQueue \/ (\E t \in Tasks : DrainTask(t)) \/ ShutdownEnd

-----------------------------------------------------------------------------
(* What callers do beside submit and shutdown, and time.                    *)

SetThermalState(s) ==
  /\ thermal' = s
  /\ NotifyAll
  /\ UNCHANGED <<cancelled, now, callVars, queue, hand, offset, shutdownVars,
                 outcomeVars, stats>>

(* CancellationToken::cancel(): a store, with no notification.              *)
Cancel(c) ==
  /\ c \notin cancelled
  /\ cancelled' = cancelled \cup {c}
  /\ UNCHANGED <<thermal, now, callVars, queue, workerVars, shutdownVars,
                 outcomeVars, stats>>

Tick ==
  /\ now < MaxTime
  /\ now' = now + 1
  /\ UNCHANGED <<thermal, cancelled, callVars, queue, workerVars, shutdownVars,
                 outcomeVars, stats>>

Next == \/ \E t \in Tasks, k \in TaskKinds : SubmitRefuse(t, k) \/ SubmitNumber(t, k)
        \/ SubmitStep
        \/ \E w \in Workers : WorkerStep(w)
        \/ ShutdownBegin
        \/ ShutdownStep
        \/ \E s \in ThermalInputs : SetThermalState(s)
        \/ \E c \in Tokens : Cancel(c)
        \/ Tick

Spec == Init /\ [][Next]_vars

(* Threads that can run do run; a task's function and its callbacks end.    *)
(* Nobody owes a submission, a thermal change, a cancellation or a shutdown.*)
Fairness == /\ \A w \in Workers : WF_vars(WorkerStep(w))
            /\ WF_vars(SubmitStep)
            /\ WF_vars(ShutdownStep)

FairSpec == Spec /\ Fairness
-----------------------------------------------------------------------------
(* What the dispatcher owes its callers.                                    *)

InputTypes == thermal \in ThermalState /\ cancelled \subseteq Tokens /\ now \in Nat
CallTypes ==
  /\ kind \in [Tasks -> Task] /\ reply \in [Tasks -> SubmitStatus \cup {None}]
  /\ seqNo \in [Tasks -> Nat] /\ sequence \in Nat
  /\ call \in [at : CallAt, task : Tasks \cup {NoTask}, critical : BOOLEAN,
               next : 0..(NumWorkers + 1), best : 0..NumWorkers, size : Nat]
WorkerTypes ==
  /\ queue \in [Workers -> SUBSET Tasks]
  /\ pc \in [Workers -> WorkerAt] /\ hand \in [Workers -> Tasks \cup {NoTask}]
  /\ offset \in [Workers -> Workers]
ShutdownTypes == /\ stop \in BOOLEAN /\ shut \in ShutdownAt
                 /\ drainAt \in 0..NumWorkers /\ pending \subseteq Tasks
OutcomeTypes ==
  /\ outcome \in [Tasks -> TaskResult \cup {None}] /\ told \in [Tasks -> Nat]
  /\ stats \in [Counter -> Nat]

TypeOK == InputTypes /\ CallTypes /\ WorkerTypes /\ ShutdownTypes /\ OutcomeTypes

(* A task pushed, or reported Accepted, is owed one outcome.                *)
Owed(t) == reply[t] = "Accepted" \/ (call.at = "count" /\ call.task = t)

Queued(t) == \E w \in Workers : t \in queue[w]
Held(t) == \E w \in Workers : hand[w] = t /\ pc[w] # "returned"

(* The owner of a task hears at most one outcome, and none for a task that  *)
(* submit refused: owner pop, steal, worker and drain never share a task.   *)
ToldOnce == \A t \in Tasks : told[t] <= 1 /\ (told[t] = 1 => Owed(t))

(* A task that is owed an outcome and has not had it is still somewhere the *)
(* scheduler will find it: in a queue, with a worker, or being drained.     *)
NoTaskLost ==
  \A t \in Tasks : Owed(t) => Queued(t) \/ Held(t) \/ t \in pending \/ told[t] = 1

(* Once shutdown() has returned, every accepted task has had its outcome,   *)
(* no queue holds anything and no worker is left inside a task.             *)
ShutdownSettles ==
  shut = "done" => /\ \A t \in Tasks : reply[t] = "Accepted" => told[t] = 1
                   /\ \A w \in Workers : queue[w] = {} /\ pc[w] = "exited"

(* The counters of SchedulerStats and the outcomes told differ by exactly   *)
(* the threads between a count and the callback, or the reverse; failures   *)
(* are in no counter.                                                       *)
CountersAgree ==
  LET Told(r) == Cardinality({t \in Tasks : outcome[t] = r})
      Replied(S) == Cardinality({t \in Tasks : reply[t] \in S})
      At(p) == Cardinality({w \in Workers : pc[w] = p})
  IN  /\ stats.submitted = Replied({"Accepted"})
      /\ stats.rejected = Replied({"Backpressure", "Stopped", "Rejected"})
      /\ stats.completed + At("returned") = Told("Completed")
      /\ stats.cancelled = Told("Cancelled") + At("cancelled")
      /\ stats.deadline_missed = Told("DeadlineMissed") + At("missed")

(* Once one caller has been told Stopped, no task is accepted any more,     *)
(* whichever thread submits it.                                             *)
NoAcceptAfterStopped ==
  [][(\E u \in Tasks : reply[u] = "Stopped") => \A t \in Tasks : ~Owed(t) => ~Owed(t)']_vars

(* shutdown() returns once called, whatever the workers were doing.         *)
ShutdownCompletes == (shut = "joining") ~> (shut = "done")

(* If the device does not stay hot, an accepted task gets its outcome.      *)
AcceptedTasksEnd ==
  \A t \in Tasks : <>[](thermal # "Critical") => (reply[t] = "Accepted" ~> told[t] = 1)

(* A cancelled task gets its outcome, whatever the thermal state.           *)
CancelledTasksEnd ==
  \A t \in Tasks : (reply[t] = "Accepted" /\ Cancelled(kind[t])) ~> (told[t] = 1)

(* The abstract service each execution is an execution of.                  *)
StatusOf(t) == IF told[t] > 0 THEN outcome[t]
               ELSE IF Owed(t) THEN "open"
               ELSE IF reply[t] # None THEN "refused" ELSE "new"
Status == [t \in Tasks |-> StatusOf(t)]
Phase == IF shut = "no" THEN "serving" ELSE IF shut = "done" THEN "closed" ELSE "closing"

Service == INSTANCE TaskService WITH status <- Status, phase <- Phase

(* Whatever the threads do, a client sees a TaskService: each task refused, *)
(* or taken on and settled once, and a close only over settled tasks.       *)
RefinesTaskService == Service!ServiceSpec

-----------------------------------------------------------------------------
(* The inductive invariant behind the safety properties.                    *)

(* The call under lifecycle_mutex has not been answered, and excludes a     *)
(* shutdown.                                                                *)
CallInv ==
  /\ call.at = "none" => call = NoCall
  /\ call.at # "none" => /\ call.task \in Tasks /\ reply[call.task] = None
                         /\ ~stop

(* A worker has a task exactly while it is in the part of its loop that     *)
(* deals with one.                                                          *)
HandInv ==
  \A w \in Workers :
    hand[w] # NoTask <=> pc[w] \in {"taken", "cancelled", "missed", "running", "returned"}

(* Only tasks that are owed an outcome are anywhere in the scheduler.       *)
OwedInv ==
  \A t \in Tasks : Queued(t) \/ (\E w \in Workers : hand[w] = t) \/ t \in pending \/ told[t] # 0
                   => Owed(t)

(* The queues, the hands and the drained tasks do not overlap.              *)
PlacesDisjoint ==
  /\ \A v, w \in Workers : v # w => queue[v] \cap queue[w] = {}
  /\ \A v, w \in Workers : v # w /\ hand[v] = hand[w] => hand[v] = NoTask
  /\ \A v, w \in Workers : hand[v] \notin queue[w]
  /\ \A w \in Workers : queue[w] \cap pending = {} /\ hand[w] \notin pending

(* What is still in one of those places has not been told its outcome.      *)
PlacesUntold ==
  /\ \A w \in Workers : \A t \in queue[w] : told[t] = 0
  /\ \A t \in pending : told[t] = 0
  /\ \A w \in Workers : hand[w] # NoTask /\ pc[w] # "returned" => told[hand[w]] = 0

ToldInv == \A t \in Tasks : \/ told[t] = 0 /\ outcome[t] = None
                            \/ told[t] = 1 /\ outcome[t] \in TaskResult

(* The progress of shutdown(): no worker is left once it drains, and what   *)
(* it has drained stays empty.                                              *)
ShutdownInv ==
  /\ stop <=> shut # "no"
  /\ (\E t \in Tasks : reply[t] = "Stopped") => stop
  /\ shut \in {"no", "joining"} => drainAt = 0 /\ pending = {}
  /\ shut \in {"draining", "done"} => \A w \in Workers : pc[w] = "exited"
  /\ \A w \in Workers : w < drainAt => queue[w] = {}
  /\ shut = "done" => drainAt = NumWorkers /\ pending = {}

IInv == /\ TypeOK /\ CallInv /\ HandInv /\ OwedInv /\ PlacesDisjoint
        /\ PlacesUntold /\ ToldInv /\ NoTaskLost /\ ShutdownInv

-----------------------------------------------------------------------------
(* Small sets of tasks and a symmetry for TLC.                              *)
Kind(class, priority, deadline, token) ==
  [function |-> TRUE, core_class |-> class, priority |-> priority,
   deadline |-> deadline, cancellation |-> token]

(* A strict big task with a token beside tasks any worker may run.          *)
StrictKinds == {Kind("BigOnly", 1, 0, k) : k \in Tokens} \cup {Kind("Any", 2, 0, NoToken)}

(* A timed task that may be cancelled too, and one with no function.        *)
TimedKinds == {Kind("BigOnly", 1, 1, k) : k \in Tokens}
              \cup {[Kind("Any", 1, 0, NoToken) EXCEPT !.function = FALSE]}

(* Preferences, which the thermal state turns around, and a strict class.   *)
PreferenceKinds == {Kind(class, 1, 0, NoToken) :
                      class \in {"BigPreferred", "LittlePreferred", "BigOnly"}}

TaskSymmetry == Permutations(Tasks)
=============================================================================
