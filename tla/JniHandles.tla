------------------------------ MODULE JniHandles ------------------------------
(***************************************************************************)
(* The JNI layer, holy_fitra_jni.cpp: Java holds 64-bit handles, the two    *)
(* registries turn them into native objects, leases keep an object alive    *)
(* during a call, and closing a runtime destroys the requests it owns.      *)
(*                                                                         *)
(* One action is one critical section of a call.  A call that fails before  *)
(* it has changed anything throws to Java and is not a step.                *)
(***************************************************************************)
EXTENDS Integers, FiniteSets, Functions, TLC

CONSTANTS Threads, NoThread,  \* the Java threads that make calls
          Runtimes,           \* hf_jni_runtime objects; none is created twice
          Requests,           \* hf_jni_request objects
          NoObject,
          kHandleMax          \* handles run from 1 to kHandleMax - 1

ASSUME HandleAssumption == kHandleMax \in Nat \ {0}
ASSUME ThreadAssumption == IsFiniteSet(Threads)
ASSUME ObjectAssumption == /\ NoThread \notin Threads
                           /\ NoObject \notin Runtimes \cup Requests

VARIABLES g_next_handle,
          g_runtimes, g_requests,  \* functions from the registered handles to objects
          runtime,                 \* [Runtimes -> the object's fields]
          request,                 \* [Requests -> the object's fields]
          call                     \* [Threads -> the call the thread is in]

vars == <<g_next_handle, g_runtimes, g_requests, runtime, request, call>>
registries == <<g_next_handle, g_runtimes, g_requests>>

Handles == 1..(kHandleMax - 1)

Ops == {"none", "create", "submit", "stats", "wait", "timed_wait", "cancel", "destroy", "close"}

(* Where in its call a thread is: what it does next.                        *)
Points == {"idle", "token", "register", "lock", "lookup", "acquire", "native", "release",
           "unlock", "erase", "closing", "drain", "collect", "destroy", "drain_request",
           "delete", "delete_refs", "runtime", "runtime_refs"}

Idle == [op |-> "none", at |-> "idle", handle |-> 0, rt |-> NoObject, rq |-> NoObject, todo |-> {}]

Init == /\ g_next_handle = 1
        /\ g_runtimes = <<>> /\ g_requests = <<>>
        /\ runtime = [r \in Runtimes |-> [native |-> "none", refs |-> FALSE, closing |-> FALSE,
                                          active |-> 0, lifecycle |-> NoThread]]
        /\ request = [q \in Requests |-> [native |-> "none", refs |-> FALSE, owner |-> NoObject,
                                          cancelled |-> FALSE, destroying |-> FALSE,
                                          destroyed |-> FALSE, active |-> 0]]
        /\ call = [t \in Threads |-> Idle]

With(f, h, x) == [k \in DOMAIN f \cup {h} |-> IF k = h THEN x ELSE f[k]]
Without(f, hs) == Restrict(f, DOMAIN f \ hs)

At(t, ops, point) == call[t].op \in ops /\ call[t].at = point
Goto(t, point) == call' = [call EXCEPT ![t].at = point]
Return(t) == call' = [call EXCEPT ![t] = Idle]
Begin(t, op, point, h, r, q) ==
  call' = [call EXCEPT ![t] = [op |-> op, at |-> point, handle |-> h, rt |-> r, rq |-> q, todo |-> {}]]

Less(n) == IF n > 0 THEN n - 1 ELSE n
-----------------------------------------------------------------------------
(* nativeCreate: the buffers are retained and the native runtime created.   *)
Create(t) ==
  /\ call[t] = Idle
  /\ \E r \in Runtimes :
       /\ runtime[r].native = "none"
       /\ runtime' = [runtime EXCEPT ![r].native = "live", ![r].refs = TRUE]
       /\ Begin(t, "create", "token", 0, r, NoObject)
  /\ UNCHANGED <<registries, request>>

(* Variant with a fault: the number advances with the registration.         *)
TakeHandleRead(t) ==
  /\ At(t, {"create", "submit"}, "token") /\ g_next_handle < kHandleMax
  /\ g_next_handle' = 1 + Cardinality(DOMAIN g_runtimes) + Cardinality(DOMAIN g_requests)
  /\ call' = [call EXCEPT ![t].at = "register", ![t].handle = g_next_handle']
  /\ UNCHANGED <<g_runtimes, g_requests, runtime, request>>

(* next_handle; 0 when the handles are used up: a new runtime is destroyed  *)
(* at once, a new request goes through destroy_request.                     *)
TakeHandle(t) ==
  /\ At(t, {"create", "submit"}, "token")
  /\ \/ /\ g_next_handle < kHandleMax
        /\ g_next_handle' = g_next_handle + 1
        /\ call' = [call EXCEPT ![t].at = "register", ![t].handle = g_next_handle]
        /\ UNCHANGED runtime
     \/ /\ g_next_handle = kHandleMax /\ call[t].op = "create"
        /\ runtime' = [runtime EXCEPT ![call[t].rt].native = "destroyed", ![call[t].rt].refs = FALSE]
        /\ Return(t)
        /\ UNCHANGED g_next_handle
     \/ /\ g_next_handle = kHandleMax /\ call[t].op = "submit"
        /\ call' = [call EXCEPT ![t].at = "destroy", ![t].todo = {call[t].rq}]
        /\ UNCHANGED <<g_next_handle, runtime>>
  /\ UNCHANGED <<g_runtimes, g_requests, request>>

(* register_runtime or register_request, in a second critical section.      *)
Register(t) ==
  /\ At(t, {"create", "submit"}, "register")
  /\ IF call[t].op = "create"
     THEN /\ g_runtimes' = With(g_runtimes, call[t].handle, call[t].rt)
          /\ Return(t)
          /\ UNCHANGED g_requests
     ELSE /\ g_requests' = With(g_requests, call[t].handle, call[t].rq)
          /\ Goto(t, "release")
          /\ UNCHANGED g_runtimes
  /\ UNCHANGED <<g_next_handle, runtime, request>>
-----------------------------------------------------------------------------
(* Calls on a runtime: nativeSubmitMatvec[Batch] holds the lifecycle mutex  *)
(* from before its second lookup to its end; nativeSetThermal and           *)
(* nativeStats, "stats" here, only a lease.                                 *)

BeginSubmit(t, h) ==
  /\ call[t] = Idle /\ h \in DOMAIN g_runtimes
  /\ Begin(t, "submit", "lock", h, g_runtimes[h], NoObject)
  /\ UNCHANGED <<registries, runtime, request>>

BeginStats(t, h) ==
  /\ call[t] = Idle /\ h \in DOMAIN g_runtimes
  /\ Begin(t, "stats", "acquire", h, g_runtimes[h], NoObject)
  /\ UNCHANGED <<registries, runtime, request>>

AfterLock(op) == CASE op = "submit" -> "lookup" [] op = "destroy" -> "erase" [] OTHER -> "closing"

(* Variant with a fault: no lifecycle mutex.                                *)
LockNothing(t) ==
  /\ At(t, {"submit", "destroy", "close"}, "lock")
  /\ Goto(t, AfterLock(call[t].op))
  /\ UNCHANGED <<registries, runtime, request>>

Lock(t) ==
  /\ At(t, {"submit", "destroy", "close"}, "lock")
  /\ runtime[call[t].rt].lifecycle = NoThread
  /\ runtime' = [runtime EXCEPT ![call[t].rt].lifecycle = t]
  /\ Goto(t, AfterLock(call[t].op))
  /\ UNCHANGED <<registries, request>>

Unlock(t) ==
  /\ At(t, {"submit", "destroy", "close"}, "unlock")
  /\ runtime' = [runtime EXCEPT ![call[t].rt].lifecycle = NoThread]
  /\ Return(t)
  /\ UNCHANGED <<registries, request>>

(* The lookup of acquire_runtime: the runtime may have been closed.         *)
LookupAgain(t) ==
  /\ At(t, {"submit"}, "lookup")
  /\ Goto(t, IF call[t].handle \in DOMAIN g_runtimes THEN "acquire" ELSE "unlock")
  /\ UNCHANGED <<registries, runtime, request>>

AcquireRuntime(t) ==
  /\ At(t, {"submit", "stats"}, "acquire")
  /\ IF runtime[call[t].rt].closing
     THEN /\ IF call[t].op = "submit" THEN Goto(t, "unlock") ELSE Return(t)
          /\ UNCHANGED runtime
     ELSE /\ runtime' = [runtime EXCEPT ![call[t].rt].active = @ + 1]
          /\ Goto(t, "native")
  /\ UNCHANGED <<registries, request>>

(* hf_runtime_submit_matvec[_batch], the buffers retained before.           *)
NativeSubmit(t) ==
  /\ At(t, {"submit"}, "native")
  /\ \E q \in Requests :
       /\ request[q].native = "none"
       /\ request' = [request EXCEPT ![q].native = "open", ![q].refs = TRUE, ![q].owner = call[t].rt]
       /\ call' = [call EXCEPT ![t].at = "token", ![t].rq = q]
  /\ UNCHANGED <<registries, runtime>>

NativeSubmitFails(t) ==
  /\ At(t, {"submit"}, "native")
  /\ Goto(t, "release")
  /\ UNCHANGED <<registries, runtime, request>>

NativeStats(t) ==
  /\ At(t, {"stats"}, "native")
  /\ Goto(t, "release")
  /\ UNCHANGED <<registries, runtime, request>>

ReleaseRuntime(t) ==
  /\ At(t, {"submit", "stats"}, "release")
  /\ runtime' = [runtime EXCEPT ![call[t].rt].active = Less(@)]
  /\ IF call[t].op = "submit" THEN Goto(t, "unlock") ELSE Return(t)
  /\ UNCHANGED <<registries, request>>

RuntimeCall(t) ==
  \/ \E h \in Handles : BeginSubmit(t, h) \/ BeginStats(t, h)
  \/ LookupAgain(t) \/ AcquireRuntime(t) \/ NativeSubmit(t) \/ NativeSubmitFails(t)
  \/ NativeStats(t) \/ ReleaseRuntime(t)
-----------------------------------------------------------------------------
(* Calls on a request: nativeWait, without a limit or with one, nativeCancel. *)

BeginRequestCall(t, op, h) ==
  /\ call[t] = Idle /\ h \in DOMAIN g_requests
  /\ Begin(t, op, "acquire", h, NoObject, g_requests[h])
  /\ UNCHANGED <<registries, runtime, request>>

AcquireRequest(t) ==
  /\ At(t, {"wait", "timed_wait", "cancel"}, "acquire")
  /\ LET q == request[call[t].rq] IN
     IF q.destroying \/ q.destroyed
     THEN Return(t) /\ UNCHANGED request
     ELSE /\ request' = [request EXCEPT ![call[t].rq].active = @ + 1]
          /\ Goto(t, "native")
  /\ UNCHANGED <<registries, runtime>>

NativeWait(t) ==
  /\ \/ At(t, {"wait"}, "native") /\ request[call[t].rq].native = "done"
     \/ At(t, {"timed_wait"}, "native")
  /\ Goto(t, "release")
  /\ UNCHANGED <<registries, runtime, request>>

NativeCancel(t) ==
  /\ At(t, {"cancel"}, "native")
  /\ request' = [request EXCEPT ![call[t].rq].cancelled = TRUE]
  /\ Goto(t, "release")
  /\ UNCHANGED <<registries, runtime>>

(* Variant with a fault: a request being destroyed is passed over.          *)
ReleaseRequestLeaked(t) ==
  /\ At(t, {"wait", "timed_wait", "cancel"}, "release")
  /\ request' = IF request[call[t].rq].destroying THEN request
                 ELSE [request EXCEPT ![call[t].rq].active = Less(@)]
  /\ Return(t)
  /\ UNCHANGED <<registries, runtime>>

ReleaseRequest(t) ==
  /\ At(t, {"wait", "timed_wait", "cancel"}, "release")
  /\ request' = [request EXCEPT ![call[t].rq].active = Less(@)]
  /\ Return(t)
  /\ UNCHANGED <<registries, runtime>>

RequestCall(t) ==
  \/ \E h \in Handles, op \in {"wait", "timed_wait", "cancel"} : BeginRequestCall(t, op, h)
  \/ AcquireRequest(t) \/ NativeWait(t) \/ NativeCancel(t) \/ ReleaseRequest(t)
-----------------------------------------------------------------------------
(* nativeDestroyRequest, and destroy_request for every caller.              *)

BeginDestroy(t, h) ==
  /\ call[t] = Idle /\ h \in DOMAIN g_requests
  /\ Begin(t, "destroy", "lock", h, request[g_requests[h]].owner, g_requests[h])
  /\ UNCHANGED <<registries, runtime, request>>

EraseRequest(t) ==
  /\ At(t, {"destroy"}, "erase")
  /\ IF call[t].handle \in DOMAIN g_requests
     THEN /\ g_requests' = Without(g_requests, {call[t].handle})
          /\ call' = [call EXCEPT ![t].at = "destroy", ![t].todo = {call[t].rq}]
     ELSE Goto(t, "unlock") /\ UNCHANGED g_requests
  /\ UNCHANGED <<g_next_handle, g_runtimes, runtime, request>>

(* destroy_request of one request still to destroy, unless another thread   *)
(* has destroyed it or is doing so.                                         *)
DestroyNext(t) ==
  /\ At(t, {"submit", "destroy", "close"}, "destroy")
  /\ \E q \in call[t].todo :
       IF request[q].destroying \/ request[q].destroyed
       THEN call' = [call EXCEPT ![t].todo = @ \ {q}] /\ UNCHANGED request
       ELSE /\ request' = [request EXCEPT ![q].destroying = TRUE]
            /\ call' = [call EXCEPT ![t].at = "drain_request", ![t].rq = q, ![t].todo = @ \ {q}]
  /\ UNCHANGED <<registries, runtime>>

DestroyNone(t) ==
  /\ At(t, {"submit", "destroy", "close"}, "destroy") /\ call[t].todo = {}
  /\ Goto(t, CASE call[t].op = "submit" -> "release" [] call[t].op = "destroy" -> "unlock"
               [] OTHER -> "runtime")
  /\ UNCHANGED <<registries, runtime, request>>

(* Variant with a fault: the buffers go before the wait for the ranges.     *)
RequestDrainedRefsFirst(t) ==
  /\ At(t, {"submit", "destroy", "close"}, "drain_request")
  /\ request[call[t].rq].active = 0
  /\ request' = [request EXCEPT ![call[t].rq].cancelled = TRUE, ![call[t].rq].refs = FALSE]
  /\ Goto(t, "delete")
  /\ UNCHANGED <<registries, runtime>>

RequestDrained(t) ==
  /\ At(t, {"submit", "destroy", "close"}, "drain_request")
  /\ request[call[t].rq].active = 0
  /\ request' = [request EXCEPT ![call[t].rq].cancelled = TRUE]
  /\ Goto(t, "delete")
  /\ UNCHANGED <<registries, runtime>>

(* The rest of hf_runtime_request_destroy: it waits for the ranges.         *)
DeleteRequest(t) ==
  /\ At(t, {"submit", "destroy", "close"}, "delete")
  /\ request[call[t].rq].native = "done"
  /\ request' = [request EXCEPT ![call[t].rq].native = "deleted"]
  /\ Goto(t, "delete_refs")
  /\ UNCHANGED <<registries, runtime>>

DeleteRequestRefs(t) ==
  /\ At(t, {"submit", "destroy", "close"}, "delete_refs")
  /\ request' = [request EXCEPT ![call[t].rq].refs = FALSE, ![call[t].rq].destroyed = TRUE,
                                ![call[t].rq].destroying = FALSE]
  /\ Goto(t, "destroy")
  /\ UNCHANGED <<registries, runtime>>

DestroyCall(t) ==
  \/ \E h \in Handles : BeginDestroy(t, h)
  \/ EraseRequest(t) \/ DestroyNext(t) \/ DestroyNone(t) \/ RequestDrained(t)
  \/ DeleteRequest(t) \/ DeleteRequestRefs(t)
-----------------------------------------------------------------------------
(* nativeClose.                                                             *)

BeginClose(t, h) ==
  /\ call[t] = Idle /\ h \in DOMAIN g_runtimes
  /\ Begin(t, "close", "lock", h, g_runtimes[h], NoObject)
  /\ g_runtimes' = Without(g_runtimes, {h})
  /\ UNCHANGED <<g_next_handle, g_requests, runtime, request>>

MarkClosing(t) ==
  /\ At(t, {"close"}, "closing")
  /\ runtime' = [runtime EXCEPT ![call[t].rt].closing = TRUE]
  /\ Goto(t, IF runtime[call[t].rt].closing THEN "unlock" ELSE "drain")
  /\ UNCHANGED <<registries, request>>

(* Variant with a fault: leases are not waited for.                         *)
RuntimeNotDrained(t) ==
  /\ At(t, {"close"}, "drain")
  /\ Goto(t, "collect")
  /\ UNCHANGED <<registries, runtime, request>>

RuntimeDrained(t) ==
  /\ At(t, {"close"}, "drain")
  /\ runtime[call[t].rt].active = 0
  /\ Goto(t, "collect")
  /\ UNCHANGED <<registries, runtime, request>>

CollectRequests(t) ==
  /\ At(t, {"close"}, "collect")
  /\ LET owned == {h \in DOMAIN g_requests : request[g_requests[h]].owner = call[t].rt} IN
     /\ g_requests' = Without(g_requests, owned)
     /\ call' = [call EXCEPT ![t].at = "destroy", ![t].todo = {g_requests[h] : h \in owned}]
  /\ UNCHANGED <<g_next_handle, g_runtimes, runtime, request>>

(* hf_runtime_destroy: its shutdown settles the tasks that are left.        *)
DestroyRuntime(t) ==
  /\ At(t, {"close"}, "runtime")
  /\ runtime' = [runtime EXCEPT ![call[t].rt].native = "destroyed"]
  /\ request' = [q \in Requests |->
                   IF request[q].owner = call[t].rt /\ request[q].native = "open"
                   THEN [request[q] EXCEPT !.native = "done"] ELSE request[q]]
  /\ Goto(t, "runtime_refs")
  /\ UNCHANGED registries

DeleteRuntimeRefs(t) ==
  /\ At(t, {"close"}, "runtime_refs")
  /\ runtime' = [runtime EXCEPT ![call[t].rt].refs = FALSE]
  /\ Goto(t, "unlock")
  /\ UNCHANGED <<registries, request>>

CloseCall(t) ==
  \/ \E h \in Handles : BeginClose(t, h)
  \/ MarkClosing(t) \/ RuntimeDrained(t) \/ CollectRequests(t)
  \/ DestroyRuntime(t) \/ DeleteRuntimeRefs(t)
-----------------------------------------------------------------------------
(* The workers end the last range of a request (RuntimeRequests).           *)
NativeDone(q) ==
  /\ request[q].native = "open"
  /\ request' = [request EXCEPT ![q].native = "done"]
  /\ UNCHANGED <<registries, runtime, call>>

ThreadStep(t) == \/ Create(t) \/ TakeHandle(t) \/ Register(t) \/ Lock(t) \/ Unlock(t)
                 \/ RuntimeCall(t) \/ RequestCall(t) \/ DestroyCall(t) \/ CloseCall(t)

Next == (\E t \in Threads : ThreadStep(t)) \/ (\E q \in Requests : NativeDone(q))

Spec == Init /\ [][Next]_vars

(* A call that has begun goes on, and a request ends, as the dispatcher and *)
(* RuntimeRequests guarantee while no task is stuck.  No call must begin.   *)
Fairness == /\ \A t \in Threads : WF_vars(call[t] # Idle /\ ThreadStep(t))
            /\ \A q \in Requests : WF_vars(NativeDone(q))

FairSpec == Spec /\ Fairness
-----------------------------------------------------------------------------
TypeOK ==
  /\ g_next_handle \in 1..kHandleMax
  /\ DOMAIN g_runtimes \subseteq Handles /\ \A h \in DOMAIN g_runtimes : g_runtimes[h] \in Runtimes
  /\ DOMAIN g_requests \subseteq Handles /\ \A h \in DOMAIN g_requests : g_requests[h] \in Requests
  /\ runtime \in [Runtimes -> [native : {"none", "live", "destroyed"}, refs : BOOLEAN,
                               closing : BOOLEAN, active : 0..Cardinality(Threads),
                               lifecycle : Threads \cup {NoThread}]]
  /\ request \in [Requests -> [native : {"none", "open", "done", "deleted"}, refs : BOOLEAN,
                               owner : Runtimes \cup {NoObject}, cancelled : BOOLEAN,
                               destroying : BOOLEAN, destroyed : BOOLEAN,
                               active : 0..Cardinality(Threads)]]
  /\ call \in [Threads -> [op : Ops, at : Points, handle : 0..kHandleMax,
                           rt : Runtimes \cup {NoObject}, rq : Requests \cup {NoObject},
                           todo : SUBSET Requests]]

(* No native call is made on an object another thread has destroyed: not    *)
(* by a lookup that came before the close, nor by two destroyers.  And the   *)
(* direct buffers outlive the tasks that read and write them.               *)
UseProtected ==
  /\ \A t \in Threads :
       /\ (At(t, {"submit", "stats"}, "native") \/ At(t, {"close"}, "runtime"))
            => runtime[call[t].rt].native = "live"
       /\ (\/ At(t, {"wait", "timed_wait", "cancel"}, "native")
           \/ At(t, {"submit", "destroy", "close"}, "delete"))
            => request[call[t].rq].native \in {"open", "done"}
  /\ \A q \in Requests : request[q].native = "open" =>
       request[q].refs /\ runtime[request[q].owner].refs /\ runtime[request[q].owner].native = "live"

(* Closing a runtime leaves nothing of it behind: its requests are deleted, *)
(* their handles are gone, and none is being submitted.                     *)
NothingLeftBehind ==
  \A r \in Runtimes : runtime[r].native = "destroyed" =>
    /\ \A q \in Requests : request[q].owner = r => request[q].native = "deleted" /\ ~request[q].refs
    /\ \A h \in DOMAIN g_requests : request[g_requests[h]].owner # r
    /\ \A h \in DOMAIN g_runtimes : g_runtimes[h] # r

(* A handle denotes one object: no two objects are registered under one     *)
(* number, in one registry or in both, and none under two numbers.          *)
HandlesDenoteOne ==
  /\ DOMAIN g_runtimes \cap DOMAIN g_requests = {}
  /\ \A t, u \in Threads : At(t, Ops, "register") =>
       /\ call[t].handle \notin DOMAIN g_runtimes \cup DOMAIN g_requests
       /\ t # u /\ At(u, Ops, "register") => call[t].handle # call[u].handle
  /\ IsInjective(g_runtimes) /\ IsInjective(g_requests)

(* The registries are sound: well typed, and a handle denotes one object.   *)
RegistriesSound == TypeOK /\ HandlesDenoteOne

(* A close returns, though calls are under way and requests unfinished: the  *)
(* mutexes need not be fair, since no new call finds the runtime.  And a    *)
(* call on a lease returns, a wait without a limit too, when the request is *)
(* destroyed or its runtime closed under it.                                *)
CallsReturn ==
  \A t \in Threads :
    (call[t].op \in {"close", "stats", "wait", "timed_wait", "cancel"}) ~> (call[t] = Idle)
-----------------------------------------------------------------------------
(* For TLC: nothing tells threads, requests or runtimes apart.                 *)
Symmetry == Permutations(Threads) \cup Permutations(Requests) \cup Permutations(Runtimes)
=============================================================================
