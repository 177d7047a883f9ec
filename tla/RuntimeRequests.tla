--------------------------- MODULE RuntimeRequests ---------------------------
(***************************************************************************)
(* Requests of the native runtime, holy_fitra_runtime.cpp: a single matvec  *)
(* or a batch split into ranges, one dispatcher task per range, the shared  *)
(* completion state, the batch receipt, and wait, cancel and destroy.       *)
(*                                                                         *)
(* The dispatcher is used through its abstract specification, TaskService,  *)
(* which Scheduler implements: a range is taken on or refused, and one      *)
(* taken on is settled once, at any time, by any thread.                    *)
(***************************************************************************)
EXTENDS Integers, FiniteSets

CONSTANTS Requests,   \* the calls of hf_runtime_submit_matvec[_batch]
          MaxRanges   \* the worker count, which bounds the ranges of a batch

ASSUME RangesAssumption == MaxRanges \in Nat \ {0}

Tasks == Requests \X (1..MaxRanges)
TaskResult == {"Completed", "Cancelled", "DeadlineMissed", "Failed"}

VARIABLES status, phase,  \* the dispatcher, as a TaskService
          req,            \* [Requests -> the hf_runtime_request and its caller]
          receipt,        \* [Requests -> hf_runtime_batch_receipt]
          notifying       \* the tasks whose worker has set done and not yet notified

INSTANCE TaskService

vars == <<status, phase, req, receipt, notifying>>

hf_status == {"HF_OK", "HF_CANCELLED", "HF_DEADLINE_MISSED", "HF_KERNEL_FAILURE",
              "HF_BUFFER_TOO_SMALL", "HF_INVALID_ARGUMENT"}

status_priority(s) == CASE s = "HF_OK" -> 0 [] s = "HF_CANCELLED" -> 1
                        [] s = "HF_DEADLINE_MISSED" -> 2 [] s = "HF_KERNEL_FAILURE" -> 3
                        [] OTHER -> 4

(* Where the thread that owns the request is: submitting range next, about  *)
(* to count it as admitted, cancelling after a refusal, completing what was *)
(* never sent, waiting to delete; or the handle is with the client, being   *)
(* destroyed, or deleted.                                                   *)
RequestAt == {"unused", "submitting", "admitting", "refused", "unsent", "failed",
              "live", "destroying", "freed"}

ReceiptFields == {"planned", "admitted", "completed", "cancelled", "deadline_missed",
                  "failed", "rejected"}

NewRequest == [at |-> "unused", next |-> 1, total |-> 0, pending |-> 0, done |-> FALSE,
               result |-> "HF_OK", cancelled |-> FALSE]

Init == /\ ServiceInit
        /\ req = [r \in Requests |-> NewRequest]
        /\ receipt = [r \in Requests |-> [f \in ReceiptFields |-> 0]]
        /\ notifying = {}

Worse(old, new) == IF status_priority(new) > status_priority(old) THEN new ELSE old

(* Under the request's mutex: one slot fewer pending, the result no better  *)
(* than s, done when it was the last slot.                                  *)
Close(q, s) == [q EXCEPT !.result = Worse(@, s), !.pending = @ - 1, !.done = (q.pending = 1)]

ReceiptField(s) == CASE s = "HF_OK" -> "completed" [] s = "HF_CANCELLED" -> "cancelled"
                     [] s = "HF_DEADLINE_MISSED" -> "deadline_missed" [] OTHER -> "failed"

Count(r, field) == receipt' = [receipt EXCEPT ![r][field] = @ + 1]

-----------------------------------------------------------------------------
(* hf_runtime_submit_matvec and hf_runtime_submit_matvec_batch.             *)

(* Variant with a fault: each slot is reserved as its range is sent.        *)
SubmitUnreserved(r, n) ==
  /\ req[r].at = "unused" /\ phase = "serving"
  /\ req' = [req EXCEPT ![r].at = "submitting", ![r].total = n, ![r].pending = 1]
  /\ receipt' = [receipt EXCEPT ![r].planned = n]
  /\ UNCHANGED <<status, phase, notifying>>

(* All n slots are reserved before the first range is sent.                 *)
Submit(r, n) ==
  /\ req[r].at = "unused" /\ phase = "serving"
  /\ req' = [req EXCEPT ![r].at = "submitting", ![r].total = n, ![r].pending = n]
  /\ receipt' = [receipt EXCEPT ![r].planned = n]
  /\ UNCHANGED <<status, phase, notifying>>

SendRange(r) ==
  /\ req[r].at = "submitting" /\ req[r].next <= req[r].total
  /\ TakeOn(<<r, req[r].next>>)
  /\ req' = [req EXCEPT ![r].at = "admitting"]
  /\ UNCHANGED <<receipt, notifying>>

(* admit_request_task, after submit() has returned: the range may be over.  *)
AdmitRange(r) ==
  /\ req[r].at = "admitting"
  /\ req' = [req EXCEPT ![r].at = "submitting", ![r].next = @ + 1]
  /\ Count(r, "admitted")
  /\ UNCHANGED <<status, phase, notifying>>

(* reject_request_task: backpressure or any other refusal.                  *)
RefuseRange(r, s) ==
  /\ req[r].at = "submitting" /\ req[r].next <= req[r].total
  /\ Refuse(<<r, req[r].next>>)
  /\ req' = [req EXCEPT ![r] = [Close(req[r], s) EXCEPT !.at = "refused", !.next = @ + 1]]
  /\ Count(r, "rejected")
  /\ UNCHANGED notifying

CancelSent(r) ==
  /\ req[r].at = "refused"
  /\ req' = [req EXCEPT ![r].at = "unsent", ![r].cancelled = TRUE]
  /\ UNCHANGED <<status, phase, receipt, notifying>>

(* Variant with a fault: only the ranges already sent are accounted for.    *)
CompleteUnsentDropped(r) ==
  /\ req[r].at = "unsent" /\ req[r].next <= req[r].total
  /\ req' = [req EXCEPT ![r].next = @ + 1]
  /\ UNCHANGED <<status, phase, receipt, notifying>>

(* The ranges never sent are completed as cancelled by the submitter.       *)
CompleteUnsent(r) ==
  /\ req[r].at = "unsent" /\ req[r].next <= req[r].total
  /\ req' = [req EXCEPT ![r] = [Close(req[r], "HF_CANCELLED") EXCEPT !.next = @ + 1]]
  /\ Count(r, "cancelled")
  /\ UNCHANGED <<status, phase, notifying>>

WaitFailed(r) ==
  /\ req[r].at = "unsent" /\ req[r].next > req[r].total
  /\ req' = [req EXCEPT ![r].at = "failed"]
  /\ UNCHANGED <<status, phase, receipt, notifying>>

(* Variant with a fault: the failed request is deleted without the wait.    *)
DeleteFailedNoWait(r) ==
  /\ req[r].at = "failed"
  /\ req' = [req EXCEPT ![r].at = "freed"]
  /\ UNCHANGED <<status, phase, receipt, notifying>>

(* hf_runtime_wait(state, 0), then delete: the caller gets only a status.   *)
DeleteFailed(r) ==
  /\ req[r].at = "failed" /\ req[r].done
  /\ req' = [req EXCEPT ![r].at = "freed"]
  /\ UNCHANGED <<status, phase, receipt, notifying>>

ReturnRequest(r) ==
  /\ req[r].at = "submitting" /\ req[r].next > req[r].total
  /\ req' = [req EXCEPT ![r].at = "live"]
  /\ UNCHANGED <<status, phase, receipt, notifying>>

SubmitStep(r) == \/ SendRange(r) \/ AdmitRange(r)
                 \/ \E s \in {"HF_BUFFER_TOO_SMALL", "HF_KERNEL_FAILURE"} : RefuseRange(r, s)
                 \/ CancelSent(r) \/ CompleteUnsent(r) \/ WaitFailed(r) \/ DeleteFailed(r)
                 \/ ReturnRequest(r)
-----------------------------------------------------------------------------
(* The task of a range: its function or one of its callbacks.               *)

(* What complete_request_task is called with: run_matvec_range's status for *)
(* a function that returns (it looks at the token and the deadline between  *)
(* rows; a row that is not finite is an invalid argument, an output that is *)
(* not finite a failure of the kernel), or the status of the callback made  *)
(* instead.  The dispatcher cancels only a task whose token is set, or in   *)
(* its shutdown.                                                            *)
Statuses(r, result) ==
  CASE result = "Completed" ->
         {"HF_OK", "HF_DEADLINE_MISSED", "HF_KERNEL_FAILURE", "HF_INVALID_ARGUMENT"}
           \cup (IF req[r].cancelled THEN {"HF_CANCELLED"} ELSE {})
    [] result = "Cancelled" -> IF req[r].cancelled \/ phase = "closing"
                               THEN {"HF_CANCELLED"} ELSE {}
    [] result = "DeadlineMissed" -> {"HF_DEADLINE_MISSED"}
    [] OTHER -> {"HF_KERNEL_FAILURE"}

(* Variant with a fault: the last outcome wins.                             *)
CompleteRangeLast(r, i, result, s) ==
  /\ Settle(<<r, i>>, result)
  /\ req' = [req EXCEPT ![r] = [Close(@, s) EXCEPT !.result = s]]
  /\ Count(r, ReceiptField(s))
  /\ notifying' = IF req[r].pending = 1 THEN notifying \cup {<<r, i>>} ELSE notifying

(* complete_request_task: all of it under the mutex but the notification.   *)
CompleteRange(r, i, result, s) ==
  /\ Settle(<<r, i>>, result)
  /\ req' = [req EXCEPT ![r] = Close(@, s)]
  /\ Count(r, ReceiptField(s))
  /\ notifying' = IF req[r].pending = 1 THEN notifying \cup {<<r, i>>} ELSE notifying

Notify(r, i) ==
  /\ <<r, i>> \in notifying
  /\ notifying' = notifying \ {<<r, i>>}
  /\ UNCHANGED <<status, phase, req, receipt>>

RangeStep(r) == \E i \in 1..MaxRanges :
  \/ \E result \in TaskResult : \E s \in Statuses(r, result) : CompleteRange(r, i, result, s)
  \/ Notify(r, i)

-----------------------------------------------------------------------------
(* The client of a live request, and of the runtime.                        *)

CancelRequest(r) ==
  /\ req[r].at = "live" /\ ~req[r].cancelled
  /\ req' = [req EXCEPT ![r].cancelled = TRUE]
  /\ UNCHANGED <<status, phase, receipt, notifying>>

(* hf_runtime_request_destroy: cancel, wait for done, delete.               *)
DestroyRequest(r) ==
  /\ req[r].at = "live"
  /\ req' = [req EXCEPT ![r].at = "destroying", ![r].cancelled = TRUE]
  /\ UNCHANGED <<status, phase, receipt, notifying>>

DeleteRequest(r) ==
  /\ req[r].at = "destroying" /\ req[r].done
  /\ req' = [req EXCEPT ![r].at = "freed"]
  /\ UNCHANGED <<status, phase, receipt, notifying>>

(* hf_runtime_destroy: the dispatcher is shut down.  That no submission is  *)
(* under way is the caller's duty, which the JNI layer discharges.          *)
DestroyRuntime ==
  /\ \A r \in Requests : req[r].at \in {"unused", "live", "destroying", "freed"}
  /\ StartClose
  /\ UNCHANGED <<req, receipt, notifying>>

RuntimeDestroyed == EndClose /\ UNCHANGED <<req, receipt, notifying>>

Next == \/ \E r \in Requests : \/ \E n \in 1..MaxRanges : Submit(r, n)
                               \/ SubmitStep(r) \/ RangeStep(r)
                               \/ CancelRequest(r) \/ DestroyRequest(r) \/ DeleteRequest(r)
        \/ DestroyRuntime \/ RuntimeDestroyed

Spec == Init /\ [][Next]_vars

(* The submitting and the destroying thread go on; a range taken on ends,   *)
(* which the dispatcher guarantees where Scheduler!AcceptedTasksEnd holds.  *)
Fairness == \A r \in Requests : /\ WF_vars(SubmitStep(r)) /\ WF_vars(RangeStep(r))
                                /\ WF_vars(DeleteRequest(r))

FairSpec == Spec /\ Fairness
-----------------------------------------------------------------------------
TypeOK ==
  /\ status \in [Tasks -> TaskResult \cup {"new", "refused", "open"}]
  /\ phase \in {"serving", "closing", "closed"}
  /\ req \in [Requests -> [at : RequestAt, next : 1..(MaxRanges + 1), total : 0..MaxRanges,
                           pending : 0..MaxRanges, done : BOOLEAN, result : hf_status,
                           cancelled : BOOLEAN]]
  /\ receipt \in [Requests -> [ReceiptFields -> 0..MaxRanges]]
  /\ notifying \subseteq Tasks

Terminal(c) == c.completed + c.cancelled + c.deadline_missed + c.failed + c.rejected

(* The receipt accounts for every reserved range: what is not pending has   *)
(* ended in exactly one of its counters; done says that nothing is pending; *)
(* and a request handed to the client had all its ranges admitted.          *)
ReceiptBalances ==
  \A r \in Requests :
    LET q == req[r]  c == receipt[r] IN
    /\ c.planned = q.pending + Terminal(c)
    /\ q.at # "unused" => (q.done <=> q.pending = 0)
    /\ q.at \in {"live", "destroying"} => c.admitted = c.planned /\ c.rejected = 0

(* The result is the worst of what the counters say happened.               *)
ResultMatchesReceipt ==
  \A r \in Requests :
    LET c == receipt[r]
        refused == c.rejected > 0
    IN  CASE req[r].result = "HF_OK" -> c.completed = Terminal(c)
          [] req[r].result = "HF_CANCELLED" ->
               c.cancelled > 0 /\ c.deadline_missed + c.failed = 0 /\ ~refused
          [] req[r].result = "HF_DEADLINE_MISSED" ->
               c.deadline_missed > 0 /\ c.failed = 0 /\ ~refused
          [] req[r].result = "HF_KERNEL_FAILURE" -> c.failed > 0 \/ refused
          [] req[r].result = "HF_INVALID_ARGUMENT" -> c.failed > 0
          [] OTHER -> refused

(* The receipt of a batch accounts for every range and its result for the    *)
(* receipt, whatever was refused, cancelled or late.                        *)
ReceiptAgrees == TypeOK /\ ReceiptBalances /\ ResultMatchesReceipt

(* A task captures a pointer to its request.  When the request is deleted   *)
(* no task of it is left that the dispatcher could still call back, and of  *)
(* the workers that ran one at most that which set done is still to call    *)
(* notify_all: complete_request_task has unlocked by then, so the code does *)
(* let a client that saw done delete the request under that one call.       *)
OnlyNotifierLeft ==
  \A r \in Requests : req[r].at = "freed" =>
    /\ \A i \in 1..MaxRanges : status[<<r, i>>] # "open"
    /\ \A i, j \in 1..MaxRanges : {<<r, i>>, <<r, j>>} \subseteq notifying => i = j

(* What a waiter has seen is final: once done, neither the result nor the   *)
(* counts of ended ranges change.                                           *)
DoneIsFinal ==
  [][\A r \in Requests : req[r].done =>
       /\ req'[r].done /\ req'[r].result = req[r].result
       /\ Terminal(receipt'[r]) = Terminal(receipt[r])]_vars

(* A submission returns, with a request or without one, though it waits for *)
(* what was queued when a range is refused; and destroying a request        *)
(* returns, whatever its ranges were doing.                                 *)
CallsReturn ==
  \A r \in Requests :
    /\ (req[r].at = "submitting") ~> (req[r].at \in {"live", "destroying", "freed"})
    /\ (req[r].at = "destroying") ~> (req[r].at = "freed")
=============================================================================
