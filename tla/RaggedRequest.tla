----------------------------- MODULE RaggedRequest -----------------------------
(***************************************************************************)
(* submit_ragged_attention and RaggedRequest of                              *)
(* holy_fitra_ragged_scheduler.cpp: a batch is cut into chunks, each chunk   *)
(* becomes a task of the dispatcher, and the request counts the chunks that  *)
(* are left.  Whoever owns the buffers of the batch may free them once the   *)
(* request is destroyed.                                                     *)
(*                                                                         *)
(* The dispatcher is the TaskService the Scheduler module implements; its    *)
(* tasks are the chunks, in the order of submission.  A worker's run of a    *)
(* task is split where another thread can step in.  The kernels are C and    *)
(* cannot throw.                                                             *)
(***************************************************************************)
EXTENDS TaskService, Integers, FiniteSets

CONSTANTS N,             \* the number of chunks, at least one; Tasks is 1..N
          HasDeadline    \* whether the plan sets a deadline

VARIABLES request,      \* the owner's place: "submitting", "open", "destroying", "gone"
          next,         \* first of the submission loop
          run,          \* where a worker is in the function of each task
          token,        \* the cancellation token of the group
          remaining, flags,       \* the group's count and its three marks
          finished,     \* the tasks whose task_finished is set
          computed,     \* the chunks whose output is written
          verdicts      \* what waits have returned, timeouts aside

gvars == <<remaining, flags, finished>>
vars == <<svars, request, next, run, token, gvars, computed, verdicts>>

Init == /\ ServiceInit
        /\ request = "submitting" /\ next = 1 /\ run = [t \in Tasks |-> "out"]
        /\ token = FALSE /\ remaining = N /\ flags = {} /\ finished = {}
        /\ computed = {} /\ verdicts = {}

(* RaggedGroupState::finish, under the group's mutex.                       *)
FinishGroup(result) ==
  /\ flags' = flags \cup ({result} \ {"Completed"})
  /\ remaining' = IF remaining > 0 THEN remaining - 1 ELSE 0

(* finish, for the first that gets to it for this task.                     *)
Finish(t, result) ==
  IF t \in finished THEN UNCHANGED gvars
  ELSE finished' = finished \cup {t} /\ FinishGroup(result)
-----------------------------------------------------------------------------
Advance == /\ request = "submitting" /\ next' = next + 1
           /\ request' = IF next = N THEN "open" ELSE "submitting"
           /\ UNCHANGED <<run, token, computed, verdicts>>

SubmitAccepted == Advance /\ TakeOn(next) /\ UNCHANGED gvars

(* Backpressure, a dispatcher that has stopped, or one that rejects.        *)
SubmitRefused == Advance /\ Refuse(next) /\ FinishGroup("Failed") /\ UNCHANGED finished

Step(t, from, to) == /\ run[t] = from /\ run' = [run EXCEPT ![t] = to]
                     /\ UNCHANGED <<request, next, token, verdicts>>

(* A worker calls the function of a task it has found not cancelled.        *)
Begin(t) ==
  /\ status[t] = "open" /\ ~token
  /\ Step(t, "out", "entered") /\ UNCHANGED <<svars, gvars, computed>>

(* Variant with a fault: a chunk left out passes for a chunk done.          *)
FunctionCancelledQuietly(t) ==
  /\ token /\ Step(t, "entered", "returned") /\ Finish(t, "Completed")
  /\ UNCHANGED <<svars, computed>>

FunctionCancelled(t) ==
  /\ token /\ Step(t, "entered", "returned") /\ Finish(t, "Cancelled")
  /\ UNCHANGED <<svars, computed>>

FunctionInvokes(t) ==
  ~token /\ Step(t, "entered", "computing") /\ UNCHANGED <<svars, gvars, computed>>

FunctionComputed(t) ==
  /\ Step(t, "computing", "returned") /\ Finish(t, "Completed")
  /\ computed' = computed \cup {t} /\ UNCHANGED svars

Returned(t) ==
  Step(t, "returned", "done") /\ Settle(t, "Completed") /\ UNCHANGED <<gvars, computed>>

(* The callbacks of a task that is not run: its token is set or the         *)
(* dispatcher is shut down, or its deadline has passed.                     *)
OnCancel(t) ==
  /\ token \/ phase = "closing"
  /\ Step(t, "out", "done") /\ Settle(t, "Cancelled") /\ Finish(t, "Cancelled")
  /\ UNCHANGED computed

OnDeadlineMissed(t) ==
  /\ HasDeadline
  /\ Step(t, "out", "done") /\ Settle(t, "DeadlineMissed") /\ Finish(t, "DeadlineMissed")
  /\ UNCHANGED computed

Worker(t) == \/ Begin(t) \/ FunctionCancelled(t) \/ FunctionInvokes(t) \/ FunctionComputed(t)
             \/ Returned(t) \/ OnCancel(t) \/ OnDeadlineMissed(t)

Shutdown == /\ StartClose \/ EndClose
            /\ UNCHANGED <<request, next, run, token, gvars, computed, verdicts>>
-----------------------------------------------------------------------------
Cancel == /\ request = "open" /\ token' = TRUE
          /\ UNCHANGED <<svars, request, next, run, gvars, computed, verdicts>>

Verdict == CASE "Failed" \in flags -> "Failed"
             [] "DeadlineMissed" \in flags -> "DeadlineMissed"
             [] "Cancelled" \in flags -> "Cancelled"
             [] OTHER -> "Completed"

(* A wait that does not time out; a timeout changes nothing.                *)
WaitReturns ==
  /\ request = "open" /\ remaining = 0 /\ verdicts' = verdicts \cup {Verdict}
  /\ UNCHANGED <<svars, request, next, run, token, gvars, computed>>

Destroy == /\ request = "open" /\ request' = "destroying" /\ token' = TRUE
           /\ UNCHANGED <<svars, next, run, gvars, computed, verdicts>>

(* Variant with a fault: the destructor cancels and does not wait.          *)
DestroyEndsAtOnce ==
  /\ request = "destroying" /\ request' = "gone"
  /\ UNCHANGED <<svars, next, run, token, gvars, computed, verdicts>>

DestroyEnds == /\ request = "destroying" /\ remaining = 0 /\ request' = "gone"
               /\ UNCHANGED <<svars, next, run, token, gvars, computed, verdicts>>

Next == \/ SubmitAccepted \/ SubmitRefused \/ Cancel \/ WaitReturns \/ Destroy \/ DestroyEnds
        \/ \E t \in Tasks : Worker(t)
        \/ Shutdown

Spec == Init /\ [][Next]_vars

(* The submitter and the destructor run on; the dispatcher settles what it  *)
(* has taken on.  Nothing has to be cancelled, waited for or shut down.     *)
FairSpec == /\ Spec /\ WF_vars(SubmitAccepted \/ SubmitRefused) /\ WF_vars(DestroyEnds)
            /\ \A t \in Tasks : WF_vars(Worker(t))
-----------------------------------------------------------------------------
TypeOK == /\ request \in {"submitting", "open", "destroying", "gone"}
          /\ next \in 1..(N + 1) /\ token \in BOOLEAN /\ remaining \in 0..N
          /\ run \in [Tasks -> {"out", "entered", "computing", "returned", "done"}]
          /\ status \in [Tasks -> {"new", "refused", "open"} \cup TaskResult]
          /\ phase \in {"serving", "closing", "closed"}
          /\ flags \subseteq {"Failed", "DeadlineMissed", "Cancelled"}
          /\ finished \subseteq Tasks /\ computed \subseteq Tasks

Refused == {t \in Tasks : status[t] = "refused"}

(* The count is that of the chunks neither finished nor refused, though it  *)
(* is set before the first is submitted and lowered by workers meanwhile.   *)
RemainingCounts == remaining = N - Cardinality(finished \cup Refused)

(* A wait says Completed only of a batch whose every chunk is computed,     *)
(* wherever a cancellation, a refusal or a shutdown got in.                 *)
CompletedMeansComputed == "Completed" \in verdicts => computed = Tasks

(* All waits on one request return the same verdict.                        *)
OneVerdict == Cardinality(verdicts) <= 1

(* What a wait says can be relied on: the count it waits for is right, all  *)
(* waits say the same, and Completed is said of a computed batch only.      *)
VerdictsHold == RemainingCounts /\ OneVerdict /\ CompletedMeansComputed

(* When the request is destroyed no worker is in a chunk of it, nor will    *)
(* enter one: the buffers may go.                                           *)
BuffersMayGo ==
  request = "gone" => \A t \in Tasks : /\ run[t] \notin {"entered", "computing"}
                                       /\ status[t] = "open" => t \in finished

(* The destructor returns, whatever was refused, cancelled or shut down.    *)
DestroyReturns == request = "destroying" ~> request = "gone"
=============================================================================
