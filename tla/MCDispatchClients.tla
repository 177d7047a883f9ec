--------------------------- MODULE MCDispatchClients ---------------------------
(***************************************************************************)
(* Small instances of the two native clients of the dispatcher: a batch of   *)
(* the runtime (RuntimeRequests) and a ragged attention request.  They share *)
(* no state; a behaviour is one of one of them.                              *)
(***************************************************************************)
EXTENDS RuntimeRequests

VARIABLES client,                            \* whose behaviour it is
          group_status, group_phase,         \* the dispatcher of the ragged request
          request, next, run, token, remaining, flags, finished, computed, verdicts

CONSTANT Chunks   \* the chunks of the ragged request

ASSUME ChunksAssumption == Chunks \in Nat \ {0}

GroupResult == {"Completed", "Cancelled", "DeadlineMissed"}

Ragged == INSTANCE RaggedRequest
            WITH status <- group_status, phase <- group_phase, N <- Chunks,
                 Tasks <- 1..Chunks, HasDeadline <- TRUE, TaskResult <- GroupResult

ragged_vars == <<group_status, group_phase, request, next, run, token, remaining, flags,
                 finished, computed, verdicts>>

MCInit == client \in {"runtime", "ragged"} /\ Init /\ Ragged!Init

Runtime(A) == client = "runtime" /\ A /\ UNCHANGED <<client, ragged_vars>>
Group(A) == client = "ragged" /\ A /\ UNCHANGED <<client, vars>>

MCNext == Runtime(Next) \/ Group(Ragged!Next)

mc_vars == <<client, vars, ragged_vars>>

(* The fairness of FairSpec in the one module and the other.                *)
MCSpec == /\ MCInit /\ [][MCNext]_mc_vars
          /\ \A r \in Requests : /\ WF_mc_vars(Runtime(SubmitStep(r)))
                                 /\ WF_mc_vars(Runtime(RangeStep(r)))
                                 /\ WF_mc_vars(Runtime(DeleteRequest(r)))
          /\ WF_mc_vars(Group(Ragged!SubmitAccepted \/ Ragged!SubmitRefused))
          /\ WF_mc_vars(Group(Ragged!DestroyEnds))
          /\ \A t \in 1..Chunks : WF_mc_vars(Group(Ragged!Worker(t)))
-----------------------------------------------------------------------------
(* What waits on a ragged request return can be relied on, and the buffers   *)
(* of its chunks may go when it is destroyed.                               *)
RaggedHolds == Ragged!TypeOK /\ Ragged!VerdictsHold /\ Ragged!BuffersMayGo

(* Submission and destruction return, and so does the ragged destructor.    *)
ClientsReturn == CallsReturn /\ Ragged!DestroyReturns
=============================================================================
