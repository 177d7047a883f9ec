------------------------------- MODULE JniProofs -------------------------------
(***************************************************************************)
(* Proofs about JniHandles, for any threads, runtimes, requests and number   *)
(* of handles: the registries stay sound, no native call is made on a         *)
(* destroyed object, and a closed runtime leaves nothing behind.             *)
(***************************************************************************)
EXTENDS JniHandles, FiniteSetTheorems, TLAPS

USE HandleAssumption, ObjectAssumption, ThreadAssumption

RuntimeOps == {"submit", "stats", "destroy", "close"}
RequestOps == {"wait", "timed_wait", "cancel"}
Deleting == {"drain_request", "delete", "delete_refs"}

(* What a call holds: the lifecycle mutex of its runtime, a lease on it, a     *)
(* lease on its request, requests that it alone will delete or register.     *)
Locked(c) == c.op \in {"submit", "destroy", "close"} /\ c.at # "lock"
Leases(c) == \/ c.op = "submit" /\ c.at \notin {"lock", "lookup", "acquire", "unlock"}
             \/ c.op = "stats" /\ c.at # "acquire"
Uses(c) == c.op \in RequestOps /\ c.at # "acquire"
Submitted(c) == c.op = "submit" /\ c.at \in {"token", "register"}
Owns(c, q) == q \in c.todo \/ (c.rq = q /\ (c.at \in Deleting \/ Submitted(c)))

(* Where a call of each kind can be, and what it is then about.              *)
Shape(c) ==
  /\ \/ c.op = "none" /\ c.at = "idle"
     \/ c.op = "create" /\ c.at \in {"token", "register"}
     \/ c.op = "submit" /\ c.at \in {"lock", "lookup", "acquire", "native", "token", "register", "destroy",
                                     "release", "unlock"} \cup Deleting
     \/ c.op \in {"stats"} \cup RequestOps /\ c.at \in {"acquire", "native", "release"}
     \/ c.op = "destroy" /\ c.at \in {"lock", "erase", "destroy", "unlock"} \cup Deleting
     \/ c.op = "close" /\ c.at \in {"lock", "closing", "drain", "collect", "destroy", "runtime",
                                    "runtime_refs", "unlock"} \cup Deleting
  /\ c.op \in RuntimeOps \cup {"create"} => c.rt \in Runtimes
  /\ c.op \in RequestOps \cup {"destroy"} \/ c.at \in Deleting \/ Submitted(c) => c.rq \in Requests
  /\ c.todo # {} => c.at \in {"destroy"} \cup Deleting

RuntimeRecord == [native : {"none", "live", "destroyed"}, refs : BOOLEAN, closing : BOOLEAN,
                  active : Nat, lifecycle : Threads \cup {NoThread}]
RequestRecord == [native : {"none", "open", "done", "deleted"}, refs : BOOLEAN,
                  owner : Runtimes \cup {NoObject}, cancelled : BOOLEAN,
                  destroying : BOOLEAN, destroyed : BOOLEAN, active : Nat]
CallRecord == [op : Ops, at : Points, handle : 0..kHandleMax, rt : Runtimes \cup {NoObject},
               rq : Requests \cup {NoObject}, todo : SUBSET Requests]

RegistryTypes ==
  /\ g_next_handle \in 1..kHandleMax
  /\ DOMAIN g_runtimes \subseteq Handles /\ \A h \in DOMAIN g_runtimes : g_runtimes[h] \in Runtimes
  /\ DOMAIN g_requests \subseteq Handles /\ \A h \in DOMAIN g_requests : g_requests[h] \in Requests
RuntimeTypes == runtime \in [Runtimes -> RuntimeRecord]
RequestTypes == request \in [Requests -> RequestRecord]
CallTypes == call \in [Threads -> CallRecord]

ShapeInv == \A t \in Threads : Shape(call[t])

(* One thread at a time holds the lifecycle mutex of a runtime.               *)
MutexInv == \A t \in Threads : Locked(call[t]) => runtime[call[t].rt].lifecycle = t

(* The counters count the leases.                                            *)
Lessees(r) == {t \in Threads : Leases(call[t]) /\ call[t].rt = r}
Users(q) == {t \in Threads : Uses(call[t]) /\ call[t].rq = q}
LesseeInv == \A r \in Runtimes : runtime[r].active = Cardinality(Lessees(r))
UserInv == \A q \in Requests : request[q].active = Cardinality(Users(q))

(* A number is used once: one that is about to be registered is nowhere else.  *)
HandleInv ==
  /\ \A h \in DOMAIN g_runtimes \cup DOMAIN g_requests : h < g_next_handle
  /\ DOMAIN g_runtimes \cap DOMAIN g_requests = {}
  /\ \A t \in Threads :
       /\ call[t].handle < g_next_handle
       /\ call[t].at = "register" =>
            /\ call[t].handle \in Handles /\ call[t].handle \notin DOMAIN g_runtimes \cup DOMAIN g_requests
            /\ \A u \in Threads : call[u].handle = call[t].handle => u = t
       /\ call[t].op = "destroy" /\ call[t].at \in {"lock", "erase"} /\ call[t].handle \in DOMAIN g_requests
            => g_requests[call[t].handle] = call[t].rq

(* A runtime becomes known by its registration, and is destroyed by its close. *)
Creates(t, r) == call[t].op = "create" /\ call[t].rt = r
Published(r) == /\ runtime[r].native # "none"
                /\ runtime[r].native = "destroyed" => runtime[r].closing
                /\ \A t \in Threads : ~Creates(t, r)
RuntimeInv ==
  /\ \A h \in DOMAIN g_runtimes : /\ Published(g_runtimes[h]) /\ ~runtime[g_runtimes[h]].closing
                                  /\ \A k \in DOMAIN g_runtimes : g_runtimes[h] = g_runtimes[k] => h = k
  /\ \A t \in Threads : call[t].op \in RuntimeOps => Published(call[t].rt)
  /\ \A r \in Runtimes : /\ runtime[r].native = "live" => runtime[r].refs
                         /\ runtime[r].native = "none" => ~runtime[r].closing
  /\ \A t \in Threads : call[t].op = "create" =>
       /\ runtime[call[t].rt].native = "live" /\ ~runtime[call[t].rt].closing
       /\ \A u \in Threads : Creates(u, call[t].rt) => u = t

(* A runtime has one close, which takes it from live to destroyed while      *)
(* nobody holds a lease.                                                     *)
Closes(t, r) == call[t].op = "close" /\ call[t].rt = r
Closing(t, r) ==
  /\ \A h \in DOMAIN g_runtimes : g_runtimes[h] # r
  /\ \A u \in Threads : Closes(u, r) => u = t
  /\ runtime[r].closing <=> call[t].at \notin {"lock", "closing"}
  /\ IF call[t].at \in {"runtime_refs", "unlock"} THEN runtime[r].native = "destroyed"
     ELSE runtime[r].native = "live"
  /\ call[t].at \notin {"lock", "closing", "drain"} => runtime[r].active = 0
  /\ call[t].at \in {"destroy", "runtime"} \cup Deleting =>
       \A h \in DOMAIN g_requests : request[g_requests[h]].owner # r
CloseInv == \A t \in Threads : call[t].op = "close" => Closing(t, call[t].rt)

(* A lease keeps its object.                                                 *)
LeaseInv ==
  \A t \in Threads : /\ Leases(call[t]) => runtime[call[t].rt].native = "live"
                     /\ Uses(call[t]) => request[call[t].rq].native \in {"open", "done"}

(* The life of a request, which belongs to a runtime that is known.           *)
Life(q) ==
  /\ request[q].native = "none" =>
       /\ request[q].owner = NoObject /\ ~request[q].refs
       /\ ~request[q].destroying /\ ~request[q].destroyed
  /\ request[q].native # "none" => request[q].owner \in Runtimes /\ Published(request[q].owner)
  /\ request[q].native = "open" => runtime[request[q].owner].native = "live"
  /\ request[q].native \in {"open", "done"} => request[q].refs
  /\ request[q].native = "deleted" => request[q].destroying \/ request[q].destroyed
  /\ request[q].destroyed =>
       request[q].native = "deleted" /\ ~request[q].refs /\ ~request[q].destroying
  /\ request[q].destroying => \E t \in Threads : call[t].at \in Deleting /\ call[t].rq = q
RequestInv == \A q \in Requests : Life(q)

(* A request that holds buffers is in the registry or in one call, and one     *)
(* that is registered is in no call that would delete it.                     *)
Registered(q) == \E h \in DOMAIN g_requests : g_requests[h] = q
RegisteredInv ==
  /\ \A h \in DOMAIN g_requests : /\ request[g_requests[h]].native \in {"open", "done"}
                                  /\ ~request[g_requests[h]].destroying
                                  /\ \A k \in DOMAIN g_requests : g_requests[h] = g_requests[k] => h = k
  /\ \A q \in Requests : request[q].refs => Registered(q) \/ \E t \in Threads : Owns(call[t], q)
OwnerInv ==
  \A t \in Threads : \A q \in Requests : Owns(call[t], q) =>
    /\ request[q].owner = call[t].rt /\ request[q].native # "none"
    /\ \A h \in DOMAIN g_requests : g_requests[h] # q

(* The request a call is about exists; one that is being submitted or deleted  *)
(* is in the state in which that call put it.                                *)
SubjectInv ==
  \A t \in Threads :
    /\ call[t].rq \in Requests => request[call[t].rq].native # "none"
    /\ call[t].op = "destroy" /\ call[t].at \in {"lock", "erase"} => request[call[t].rq].owner = call[t].rt
    /\ Submitted(call[t]) =>
         request[call[t].rq].native \in {"open", "done"} /\ ~request[call[t].rq].destroying
DeletingInv ==
  \A t \in Threads : call[t].at \in Deleting =>
    /\ request[call[t].rq].destroying /\ call[t].rq \notin call[t].todo
    /\ IF call[t].at = "delete_refs" THEN request[call[t].rq].native = "deleted"
       ELSE request[call[t].rq].native \in {"open", "done"}
    /\ call[t].at # "drain_request" => request[call[t].rq].active = 0

IInv == /\ RegistryTypes /\ RuntimeTypes /\ RequestTypes /\ CallTypes
        /\ ShapeInv /\ MutexInv /\ LesseeInv /\ UserInv /\ HandleInv /\ RuntimeInv /\ CloseInv
        /\ LeaseInv /\ RequestInv /\ RegisteredInv /\ OwnerInv
        /\ SubjectInv /\ DeletingInv /\ NothingLeftBehind

USE DEF RuntimeOps, RequestOps, Deleting
-----------------------------------------------------------------------------
(* What the conjuncts say of one thread, runtime, request or handle.          *)
LEMMA Basics ==
  ASSUME IInv
  PROVE  /\ \A t \in Threads : call[t].op \in RuntimeOps \cup {"create"} => call[t].rt \in Runtimes
         /\ \A t \in Threads : Leases(call[t]) \/ Locked(call[t]) => call[t].rt \in Runtimes
         /\ \A t \in Threads : Uses(call[t]) \/ call[t].at \in Deleting \/ Submitted(call[t])
                                 => call[t].rq \in Requests
         /\ \A t \in Threads : call[t].todo \in SUBSET Requests /\ call[t].handle \in Int
         /\ \A r \in Runtimes : /\ runtime[r].native \in {"none", "live", "destroyed"}
                                /\ runtime[r].active \in Nat
         /\ \A q \in Requests : /\ request[q].native \in {"none", "open", "done", "deleted"}
                                /\ request[q].active \in Nat
         /\ \A h \in DOMAIN g_runtimes : h \in Handles /\ g_runtimes[h] \in Runtimes
         /\ \A h \in DOMAIN g_requests : h \in Handles /\ g_requests[h] \in Requests
         /\ g_next_handle \in Int
<1>1. \A t \in Threads : call[t].op \in RuntimeOps \cup {"create"} => call[t].rt \in Runtimes
  BY DEF IInv, ShapeInv, Shape
<1>7. \A t \in Threads : Leases(call[t]) \/ Locked(call[t]) => call[t].rt \in Runtimes
  BY <1>1 DEF Leases, Locked
<1>2. \A t \in Threads : Uses(call[t]) \/ call[t].at \in Deleting \/ Submitted(call[t])
                           => call[t].rq \in Requests
  BY DEF IInv, ShapeInv, Shape, Uses
<1>3. \A t \in Threads : call[t].todo \in SUBSET Requests /\ call[t].handle \in Int
  BY DEF IInv, CallTypes, CallRecord
<1>4. \A r \in Runtimes : /\ runtime[r].native \in {"none", "live", "destroyed"}
                          /\ runtime[r].active \in Nat
  BY DEF IInv, RuntimeTypes, RuntimeRecord
<1>5. \A q \in Requests : /\ request[q].native \in {"none", "open", "done", "deleted"}
                          /\ request[q].active \in Nat
  BY DEF IInv, RequestTypes, RequestRecord
<1>6. /\ \A h \in DOMAIN g_runtimes : h \in Handles /\ g_runtimes[h] \in Runtimes
      /\ \A h \in DOMAIN g_requests : h \in Handles /\ g_requests[h] \in Requests
      /\ g_next_handle \in Int
  BY DEF IInv, RegistryTypes
<1> QED
  BY <1>1, <1>2, <1>3, <1>4, <1>5, <1>6, <1>7

LEMMA Subjects ==
  ASSUME IInv
  PROVE  /\ \A t \in Threads :
              Uses(call[t]) \/ call[t].op = "destroy" \/ call[t].at \in Deleting \/ Submitted(call[t])
                => call[t].rq \in Requests
         /\ \A h \in DOMAIN g_requests : g_requests[h] \in Requests
BY DEF IInv, ShapeInv, Shape, RegistryTypes, Uses

(* What a step may do to the calls: the other threads are where they were.    *)
Elsewhere(t) == \A u \in Threads : u # t => call'[u] = call[u]
Walks(t, point) ==
  /\ Elsewhere(t)
  /\ call'[t].at = point
  /\ \A u \in Threads :
       /\ call'[u].op = call[u].op /\ call'[u].handle = call[u].handle /\ call'[u].rt = call[u].rt
       /\ call'[u].rq = call[u].rq /\ call'[u].todo = call[u].todo
       /\ u # t => call'[u].at = call[u].at
Ends(t) ==
  /\ Elsewhere(t)
  /\ call'[t].op = "none" /\ call'[t].at = "idle" /\ call'[t].handle = 0
  /\ call'[t].rt = NoObject /\ call'[t].rq = NoObject /\ call'[t].todo = {}

LEMMA GotoWalks ==
  ASSUME CallTypes, NEW t \in Threads, NEW point \in Points, Goto(t, point)
  PROVE  Walks(t, point) /\ CallTypes'
<1>1. Walks(t, point)
  BY DEF CallTypes, CallRecord, Goto, Walks, Elsewhere
<1>2. CallTypes'
  BY DEF CallTypes, CallRecord, Goto
<1> QED
  BY <1>1, <1>2

LEMMA ReturnEnds ==
  ASSUME CallTypes, NEW t \in Threads, Return(t)
  PROVE  Ends(t) /\ CallTypes'
<1>1. Ends(t)
  BY DEF CallTypes, CallRecord, Return, Ends, Elsewhere, Idle
<1>2. Idle \in CallRecord
  BY DEF Idle, CallRecord, Ops, Points
<1>3. CallTypes'
  BY <1>2 DEF CallTypes, Return
<1> QED
  BY <1>1, <1>3

(* The fields of a request that a submission and a destruction write.          *)
LEMMA WrittenRequests ==
  ASSUME NEW x \in RequestRecord, NEW r \in Runtimes
  PROVE  /\ [x EXCEPT !.refs = FALSE, !.destroyed = TRUE, !.destroying = FALSE] \in RequestRecord
         /\ [x EXCEPT !.native = "open", !.refs = TRUE, !.owner = r] \in RequestRecord
<1>1. [x EXCEPT !.refs = FALSE, !.destroyed = TRUE, !.destroying = FALSE] \in RequestRecord
  BY DEF RequestRecord
<1>2. [x EXCEPT !.native = "open", !.refs = TRUE, !.owner = r] \in RequestRecord
  BY DEF RequestRecord
<1> QED
  BY <1>1, <1>2

LEMMA WrittenCalls ==
  ASSUME CallTypes, NEW t \in Threads, NEW point \in Points, NEW todo \in SUBSET Requests,
         call' = [call EXCEPT ![t].at = point, ![t].todo = todo]
  PROVE  CallTypes'
<1>1. ASSUME NEW c \in CallRecord PROVE [c EXCEPT !.at = point, !.todo = todo] \in CallRecord
  BY DEF CallRecord
<1>2. call' = [call EXCEPT ![t] = [call[t] EXCEPT !.at = point, !.todo = todo]]
  OBVIOUS
<1>3. [call[t] EXCEPT !.at = point, !.todo = todo] \in CallRecord
  BY <1>1 DEF CallTypes
<1>4. call \in [Threads -> CallRecord]
  BY DEF CallTypes
<1> QED
  BY ONLY <1>2, <1>3, <1>4 DEF CallTypes

(* A step after which every thread holds what it held.                        *)
HoldsNothing(t) == /\ ~Leases(call[t]) /\ ~Uses(call[t]) /\ ~Locked(call[t]) /\ ~Submitted(call[t])
                   /\ call[t].at \notin Deleting /\ \A q \in Requests : ~Owns(call[t], q)
LeasesSame(u) == /\ Leases(call[u])' <=> Leases(call[u])
                 /\ Uses(call[u])' <=> Uses(call[u])
OwnsSame(u) == /\ Submitted(call[u])' <=> Submitted(call[u])
               /\ call'[u].at \in Deleting <=> call[u].at \in Deleting
               /\ \A q \in Requests : Owns(call[u], q)' <=> Owns(call[u], q)

(* What a step may do to a runtime and to a request, their leases aside.       *)
RuntimeSame(r) == /\ runtime'[r].native = runtime[r].native /\ runtime'[r].refs = runtime[r].refs
                  /\ runtime'[r].closing = runtime[r].closing
RequestSame(q) == /\ request'[q].native = request[q].native /\ request'[q].refs = request[q].refs
                  /\ request'[q].owner = request[q].owner
                  /\ request'[q].destroying = request[q].destroying
                  /\ request'[q].destroyed = request[q].destroyed

(* A step after which the same threads hold the same leases.                  *)
LEMMA SameLessees ==
  ASSUME IInv, NEW t \in Threads, Elsewhere(t),
         Leases(call[t])' <=> Leases(call[t]), Leases(call[t]) => call'[t].rt = call[t].rt,
         \A r \in Runtimes : runtime'[r].active = runtime[r].active
  PROVE  LesseeInv'
<1>1. ASSUME NEW r \in Runtimes PROVE Lessees(r)' = Lessees(r)
  <2>1. \A u \in Threads : u \in Lessees(r)' <=> u \in Lessees(r)
    BY DEF Elsewhere, Lessees, Leases
  <2> QED
    BY <2>1 DEF Lessees
<1> QED
  BY <1>1 DEF IInv, LesseeInv

LEMMA SameUsers ==
  ASSUME IInv, NEW t \in Threads, Elsewhere(t),
         Uses(call[t])' <=> Uses(call[t]), Uses(call[t]) => call'[t].rq = call[t].rq,
         \A q \in Requests : request'[q].active = request[q].active
  PROVE  UserInv'
<1>1. ASSUME NEW q \in Requests PROVE Users(q)' = Users(q)
  <2>1. \A u \in Threads : u \in Users(q)' <=> u \in Users(q)
    BY DEF Elsewhere, Users, Uses
  <2> QED
    BY <2>1 DEF Users
<1> QED
  BY <1>1 DEF IInv, UserInv

(* A step that takes a lease, and one that gives it back.                      *)
LEMMA LesseesFinite ==
  ASSUME NEW r, NEW q
  PROVE  /\ IsFiniteSet(Lessees(r)) /\ Cardinality(Lessees(r)) \in Nat
         /\ IsFiniteSet(Users(q)) /\ Cardinality(Users(q)) \in Nat
<1>1. Lessees(r) \in SUBSET Threads /\ Users(q) \in SUBSET Threads
  BY DEF Lessees, Users
<1> QED
  BY <1>1, FS_Subset, FS_CardinalityType

LEMMA OneMoreLessee ==
  ASSUME IInv, NEW t \in Threads, Elsewhere(t), ~Leases(call[t]), Leases(call[t])',
         call'[t].rt = call[t].rt, runtime'[call[t].rt].active = runtime[call[t].rt].active + 1,
         \A r \in Runtimes : r # call[t].rt => runtime'[r].active = runtime[r].active
  PROVE  LesseeInv'
<1>1. ASSUME NEW r \in Runtimes PROVE (runtime[r].active = Cardinality(Lessees(r)))'
  <2>1. CASE r = call[t].rt
    <3>1. t \notin Lessees(r)
      BY DEF Lessees
    <3>2. \A u : u \in Lessees(r)' <=> u \in Lessees(r) \cup {t}
      BY <2>1 DEF Elsewhere, Lessees, Leases
    <3>3. Lessees(r)' = Lessees(r) \cup {t}
      BY ONLY <3>2, ZenonT(20)
    <3>4. Cardinality(Lessees(r) \cup {t}) = Cardinality(Lessees(r)) + 1
      BY <3>1, LesseesFinite, FS_AddElement
    <3> QED
      BY <2>1, <3>3, <3>4 DEF IInv, LesseeInv
  <2>2. CASE r # call[t].rt
    <3>1. \A u \in Threads : u \in Lessees(r)' <=> u \in Lessees(r)
      BY <2>2 DEF Elsewhere, Lessees, Leases
    <3>2. Lessees(r)' = Lessees(r)
      BY <3>1 DEF Lessees
    <3> QED
      BY <2>2, <3>2 DEF IInv, LesseeInv
  <2> QED
    BY <2>1, <2>2
<1> QED
  BY <1>1 DEF LesseeInv

LEMMA OneLessLessee ==
  ASSUME IInv, NEW t \in Threads, Elsewhere(t), Leases(call[t]), ~Leases(call[t])',
         runtime'[call[t].rt].active = Less(runtime[call[t].rt].active),
         \A r \in Runtimes : r # call[t].rt => runtime'[r].active = runtime[r].active
  PROVE  LesseeInv'
<1>1. ASSUME NEW r \in Runtimes PROVE (runtime[r].active = Cardinality(Lessees(r)))'
  <2>1. CASE r = call[t].rt
    <3>1. t \in Lessees(r)
      BY <2>1 DEF Lessees
    <3>2. \A u : u \in Lessees(r)' <=> u \in Lessees(r) \ {t}
      BY <2>1 DEF Elsewhere, Lessees, Leases
    <3>3. Lessees(r)' = Lessees(r) \ {t}
      BY ONLY <3>2, ZenonT(20)
    <3>4. Cardinality(Lessees(r) \ {t}) = Cardinality(Lessees(r)) - 1
      BY <3>1, LesseesFinite, FS_RemoveElement
    <3>5. Cardinality(Lessees(r)) > 0
      BY <3>1, LesseesFinite, FS_EmptySet
    <3>6. runtime[r].active = Cardinality(Lessees(r))
      BY DEF IInv, LesseeInv
    <3>7. runtime'[r].active = Cardinality(Lessees(r)) - 1
      BY <2>1, <3>5, <3>6 DEF Less
    <3> QED
      BY <3>3, <3>4, <3>7
  <2>2. CASE r # call[t].rt
    <3>1. \A u \in Threads : u \in Lessees(r)' <=> u \in Lessees(r)
      BY <2>2 DEF Elsewhere, Lessees, Leases
    <3>2. Lessees(r)' = Lessees(r)
      BY <3>1 DEF Lessees
    <3> QED
      BY <2>2, <3>2 DEF IInv, LesseeInv
  <2> QED
    BY <2>1, <2>2
<1> QED
  BY <1>1 DEF LesseeInv

LEMMA OneMoreUser ==
  ASSUME IInv, NEW t \in Threads, Elsewhere(t), ~Uses(call[t]), Uses(call[t])',
         call'[t].rq = call[t].rq, request'[call[t].rq].active = request[call[t].rq].active + 1,
         \A q \in Requests : q # call[t].rq => request'[q].active = request[q].active
  PROVE  UserInv'
<1>1. ASSUME NEW q \in Requests PROVE (request[q].active = Cardinality(Users(q)))'
  <2>1. CASE q = call[t].rq
    <3>1. t \notin Users(q)
      BY DEF Users
    <3>2. \A u : u \in Users(q)' <=> u \in Users(q) \cup {t}
      BY <2>1 DEF Elsewhere, Users, Uses
    <3>3. Users(q)' = Users(q) \cup {t}
      BY ONLY <3>2, ZenonT(20)
    <3>4. Cardinality(Users(q) \cup {t}) = Cardinality(Users(q)) + 1
      BY <3>1, LesseesFinite, FS_AddElement
    <3> QED
      BY <2>1, <3>3, <3>4 DEF IInv, UserInv
  <2>2. CASE q # call[t].rq
    <3>1. \A u \in Threads : u \in Users(q)' <=> u \in Users(q)
      BY <2>2 DEF Elsewhere, Users, Uses
    <3>2. Users(q)' = Users(q)
      BY <3>1 DEF Users
    <3> QED
      BY <2>2, <3>2 DEF IInv, UserInv
  <2> QED
    BY <2>1, <2>2
<1> QED
  BY <1>1 DEF UserInv

LEMMA OneLessUser ==
  ASSUME IInv, NEW t \in Threads, Elsewhere(t), Uses(call[t]), ~Uses(call[t])',
         request'[call[t].rq].active = Less(request[call[t].rq].active),
         \A q \in Requests : q # call[t].rq => request'[q].active = request[q].active
  PROVE  UserInv'
<1>1. ASSUME NEW q \in Requests PROVE (request[q].active = Cardinality(Users(q)))'
  <2>1. CASE q = call[t].rq
    <3>1. t \in Users(q)
      BY <2>1 DEF Users
    <3>2. \A u : u \in Users(q)' <=> u \in Users(q) \ {t}
      BY <2>1 DEF Elsewhere, Users, Uses
    <3>3. Users(q)' = Users(q) \ {t}
      BY ONLY <3>2, ZenonT(20)
    <3>4. Cardinality(Users(q) \ {t}) = Cardinality(Users(q)) - 1
      BY <3>1, LesseesFinite, FS_RemoveElement
    <3>5. Cardinality(Users(q)) > 0
      BY <3>1, LesseesFinite, FS_EmptySet
    <3>6. request[q].active = Cardinality(Users(q))
      BY DEF IInv, UserInv
    <3>7. request'[q].active = Cardinality(Users(q)) - 1
      BY <2>1, <3>5, <3>6 DEF Less
    <3> QED
      BY <3>3, <3>4, <3>7
  <2>2. CASE q # call[t].rq
    <3>1. \A u \in Threads : u \in Users(q)' <=> u \in Users(q)
      BY <2>2 DEF Elsewhere, Users, Uses
    <3>2. Users(q)' = Users(q)
      BY <3>1 DEF Users
    <3> QED
      BY <2>2, <3>2 DEF IInv, UserInv
  <2> QED
    BY <2>1, <2>2
<1> QED
  BY <1>1 DEF UserInv

(* A request that a call owns is owned by no other: each holds the mutex of   *)
(* the runtime of the request.                                               *)
LEMMA OwnsAlone ==
  ASSUME IInv, NEW t \in Threads, NEW q \in Requests, Owns(call[t], q)
  PROVE  /\ Locked(call[t])
         /\ \A u \in Threads : u # t =>
              /\ ~Owns(call[u], q) /\ q \notin call[u].todo
              /\ call[u].at \in Deleting \/ Submitted(call[u]) => call[u].rq # q
         /\ \A h \in DOMAIN g_requests : g_requests[h] # q
<1>1. \A u \in Threads : Owns(call[u], q) => Locked(call[u])
  BY DEF IInv, ShapeInv, Shape, Owns, Submitted, Locked
<1>2. \A u \in Threads : Owns(call[u], q) => call[u].rt = request[q].owner
  BY DEF IInv, OwnerInv
<1>3. ASSUME NEW u \in Threads, Owns(call[u], q) PROVE u = t
  <2>1. Locked(call[u]) /\ Locked(call[t]) /\ call[u].rt = call[t].rt
    BY <1>1, <1>2, <1>3
  <2> QED
    BY <2>1 DEF IInv, MutexInv
<1>4. \A u \in Threads : u # t => ~Owns(call[u], q)
  BY <1>3
<1>5. \A h \in DOMAIN g_requests : g_requests[h] # q
  BY DEF IInv, OwnerInv
<1> QED
  BY <1>1, <1>4, <1>5 DEF Owns

(* No lease is held on what has no active call.                               *)
LEMMA NoLessee ==
  ASSUME IInv, NEW t \in Threads
  PROVE  /\ Leases(call[t]) => runtime[call[t].rt].active # 0
         /\ Uses(call[t]) => request[call[t].rq].active # 0
<1>1. Leases(call[t]) => runtime[call[t].rt].active # 0
  <2> SUFFICES ASSUME Leases(call[t]) PROVE runtime[call[t].rt].active # 0
    OBVIOUS
  <2>1. t \in Lessees(call[t].rt) /\ call[t].rt \in Runtimes
    BY Basics DEF Lessees
  <2>2. Cardinality(Lessees(call[t].rt)) # 0
    BY <2>1, LesseesFinite, FS_EmptySet
  <2> QED
    BY <2>1, <2>2 DEF IInv, LesseeInv
<1>2. Uses(call[t]) => request[call[t].rq].active # 0
  <2> SUFFICES ASSUME Uses(call[t]) PROVE request[call[t].rq].active # 0
    OBVIOUS
  <2>1. t \in Users(call[t].rq) /\ call[t].rq \in Requests
    BY Basics DEF Users
  <2>2. Cardinality(Users(call[t].rq)) # 0
    BY <2>1, LesseesFinite, FS_EmptySet
  <2> QED
    BY <2>1, <2>2 DEF IInv, UserInv
<1> QED
  BY <1>1, <1>2

-----------------------------------------------------------------------------
(* Steps on which nothing depends but where the thread is.                    *)
Moves(t, point) ==
  \/ call[t].op = "submit" /\ call[t].at = "lookup" /\ point \in {"acquire", "unlock"}
  \/ call[t].op = "submit" /\ call[t].at = "acquire" /\ point = "unlock"
  \/ call[t].op = "submit" /\ call[t].at \in {"native", "destroy"} /\ point = "release"
  \/ call[t].op \in {"stats"} \cup RequestOps /\ call[t].at = "native" /\ point = "release"
  \/ call[t].op = "destroy" /\ call[t].at \in {"erase", "destroy"} /\ point = "unlock"
  \/ call[t].op = "close" /\ call[t].at = "drain" /\ point = "collect"
       /\ runtime[call[t].rt].active = 0
  \/ call[t].op = "close" /\ call[t].at = "destroy" /\ point = "runtime"

LEMMA MovesKeep ==
  ASSUME IInv, NEW t \in Threads, NEW point \in Points, Moves(t, point), call[t].todo = {},
         Goto(t, point), UNCHANGED <<registries, runtime, request>>
  PROVE  IInv'
<1>1. Walks(t, point) /\ CallTypes'
  BY GotoWalks DEF IInv
<1>2. UNCHANGED <<g_next_handle, g_runtimes, g_requests, runtime, request>>
  BY DEF registries
<1>3. /\ Leases(call[t])' <=> Leases(call[t])
      /\ Uses(call[t])' <=> Uses(call[t])
      /\ Locked(call[t])' <=> Locked(call[t])
      /\ ~Submitted(call[t])' /\ ~Submitted(call[t])
      /\ call[t].at \notin Deleting /\ point \notin Deleting
  BY <1>1 DEF Moves, Walks, Leases, Uses, Locked, Submitted
<1>4. \A u \in Threads : /\ call'[u].op = call[u].op /\ call'[u].handle = call[u].handle
                         /\ call'[u].rt = call[u].rt /\ call'[u].rq = call[u].rq
                         /\ call'[u].todo = call[u].todo
                         /\ u # t => call'[u].at = call[u].at
  BY <1>1 DEF Walks, Elsewhere
<1>5. \A u \in Threads : LeasesSame(u) /\ OwnsSame(u)
  BY <1>1, <1>3 DEF LeasesSame, OwnsSame, Walks, Elsewhere, Leases, Uses, Locked, Submitted, Owns
<1>6. RegistryTypes' /\ RuntimeTypes' /\ RequestTypes'
  BY <1>2 DEF IInv, RegistryTypes, RuntimeTypes, RequestTypes
<1>7. ShapeInv'
  BY <1>1, <1>4 DEF IInv, ShapeInv, Shape, Submitted, Moves, Walks
<1>8. MutexInv'
  BY <1>1, <1>2, <1>3 DEF IInv, MutexInv, Walks, Elsewhere
<1>9. LesseeInv'
  BY <1>1, <1>3, SameLessees DEF Walks
<1>10. UserInv'
  BY <1>1, <1>3, SameUsers DEF Walks
<1>11. HandleInv'
  BY <1>1, <1>2, <1>4 DEF IInv, HandleInv, Walks, Moves
<1>12. RuntimeInv'
  BY <1>2, <1>4 DEF IInv, RuntimeInv, Published, Creates
<1>13. CloseInv'
  BY <1>1, <1>2, <1>4 DEF IInv, CloseInv, Closing, Closes, Moves, Walks
<1>14. LeaseInv'
  BY <1>2, <1>4, <1>5 DEF IInv, LeasesSame, OwnsSame, LeaseInv
<1>15. RequestInv'
  BY <1>2, <1>4, <1>5 DEF IInv, LeasesSame, OwnsSame, RequestInv, Life, Published, Creates
<1>16. RegisteredInv'
  BY <1>2, <1>5 DEF IInv, LeasesSame, OwnsSame, RegisteredInv, Registered
<1>17. OwnerInv'
  BY <1>1, <1>2, <1>5 DEF IInv, OwnsSame, OwnerInv, Walks, Moves
<1>19. SubjectInv'
  BY <1>1, <1>2, <1>5 DEF IInv, OwnsSame, SubjectInv, Walks, Moves
<1>20. DeletingInv'
  BY <1>3, <1>4, <1>5 DEF IInv, OwnsSame, DeletingInv, Walks, Moves
<1>18. NothingLeftBehind'
  BY <1>2 DEF IInv, NothingLeftBehind
<1> QED
  BY <1>1, <1>6, <1>7, <1>8, <1>9, <1>10, <1>11, <1>12, <1>13, <1>14, <1>15, <1>16, <1>17, <1>18,
     <1>19, <1>20 DEF IInv

(* A call that is refused ends; it holds nothing.                             *)
LEMMA RefusedKeeps ==
  ASSUME IInv, NEW t \in Threads, Return(t), call[t].at = "acquire",
         call[t].op \in {"stats"} \cup RequestOps,
         UNCHANGED <<registries, runtime, request>>
  PROVE  IInv'
<1>1. Ends(t) /\ CallTypes'
  BY ReturnEnds DEF IInv
<1>2. UNCHANGED <<g_next_handle, g_runtimes, g_requests, runtime, request>>
  BY DEF registries
<1>3. HoldsNothing(t) /\ HoldsNothing(t)'
  BY <1>1 DEF HoldsNothing, Owns, Ends, Leases, Uses, Locked, Submitted, IInv, ShapeInv, Shape
<1>4. \A u \in Threads : LeasesSame(u) /\ OwnsSame(u)
  BY <1>1, <1>3 DEF HoldsNothing, LeasesSame, OwnsSame, Ends, Elsewhere, Leases, Uses
<1>6. RegistryTypes' /\ RuntimeTypes' /\ RequestTypes'
  BY <1>2 DEF IInv, RegistryTypes, RuntimeTypes, RequestTypes
<1>7. ShapeInv'
  BY <1>1 DEF IInv, ShapeInv, Shape, Submitted, Ends, Elsewhere
<1>8. MutexInv'
  BY <1>1, <1>2, <1>3, <1>4 DEF IInv, LeasesSame, OwnsSame, HoldsNothing, MutexInv, Ends, Elsewhere
<1>9. LesseeInv'
  BY <1>1, <1>2, <1>3, SameLessees DEF HoldsNothing, Ends
<1>10. UserInv'
  BY <1>1, <1>2, <1>3, SameUsers DEF HoldsNothing, Ends
<1>11. HandleInv'
  BY <1>1, <1>2, <1>3 DEF IInv, HandleInv, Ends, Elsewhere, RegistryTypes, Handles
<1>12. RuntimeInv'
  BY <1>1, <1>2 DEF IInv, RuntimeInv, Published, Creates, Ends, Elsewhere
<1>13. CloseInv'
  BY <1>1, <1>2 DEF IInv, CloseInv, Closing, Closes, Ends, Elsewhere
<1>14. LeaseInv'
  BY <1>1, <1>2, <1>3 DEF IInv, HoldsNothing, LeaseInv, Ends, Elsewhere
<1>15. RequestInv'
  BY <1>1, <1>2, <1>3, <1>4 DEF IInv, LeasesSame, OwnsSame, HoldsNothing, RequestInv, Life,
     Published, Creates, Ends, Elsewhere
<1>16. RegisteredInv'
  BY <1>2, <1>4 DEF IInv, LeasesSame, OwnsSame, HoldsNothing, RegisteredInv, Registered
<1>17. OwnerInv'
  BY <1>1, <1>2, <1>3, <1>4 DEF IInv, LeasesSame, OwnsSame, HoldsNothing, OwnerInv, Ends, Elsewhere
<1>19. SubjectInv'
  BY <1>1, <1>2, <1>3, <1>4 DEF IInv, LeasesSame, OwnsSame, HoldsNothing, SubjectInv, Ends,
     Elsewhere
<1>20. DeletingInv'
  BY <1>1, <1>2 DEF IInv, LeasesSame, OwnsSame, HoldsNothing, DeletingInv, Ends, Elsewhere
<1>18. NothingLeftBehind'
  BY <1>2 DEF IInv, NothingLeftBehind
<1> QED
  BY <1>1, <1>6, <1>7, <1>8, <1>9, <1>10, <1>11, <1>12, <1>13, <1>14, <1>15, <1>16, <1>17, <1>18,
     <1>19, <1>20 DEF IInv

(* A call that begins, on what its handle denotes.                            *)
Begins(t, op, point, h, r, q) ==
  /\ Elsewhere(t)
  /\ call[t].op = "none" /\ call[t].at = "idle" /\ call[t].todo = {}
  /\ call'[t].op = op /\ call'[t].at = point /\ call'[t].handle = h
  /\ call'[t].rt = r /\ call'[t].rq = q /\ call'[t].todo = {}

LEMMA BeginBegins ==
  ASSUME CallTypes, NEW t \in Threads, NEW op \in Ops, NEW point \in Points, NEW h \in 0..kHandleMax,
         NEW r \in Runtimes \cup {NoObject}, NEW q \in Requests \cup {NoObject},
         call[t] = Idle, Begin(t, op, point, h, r, q)
  PROVE  Begins(t, op, point, h, r, q) /\ CallTypes'
<1>1. Begins(t, op, point, h, r, q)
  BY DEF CallTypes, CallRecord, Begin, Begins, Elsewhere, Idle
<1>2. CallTypes'
  BY DEF CallTypes, CallRecord, Begin
<1> QED
  BY <1>1, <1>2

LEMMA BeginKeeps ==
  ASSUME IInv, NEW t \in Threads, NEW op \in Ops, NEW point \in Points, NEW h \in Handles,
         NEW r \in Runtimes \cup {NoObject}, NEW q \in Requests \cup {NoObject},
         \/ /\ (op = "submit" /\ point = "lock") \/ (op = "stats" /\ point = "acquire")
            /\ h \in DOMAIN g_runtimes /\ r = g_runtimes[h] /\ q = NoObject
         \/ /\ op \in RequestOps /\ point = "acquire"
            /\ h \in DOMAIN g_requests /\ q = g_requests[h] /\ r = NoObject
         \/ /\ op = "destroy" /\ point = "lock"
            /\ h \in DOMAIN g_requests /\ q = g_requests[h] /\ r = request[q].owner,
         call[t] = Idle, Begin(t, op, point, h, r, q), UNCHANGED <<registries, runtime, request>>
  PROVE  IInv'
<1>0. h \in 0..kHandleMax
  BY DEF Handles
<1>1. Begins(t, op, point, h, r, q) /\ CallTypes'
  BY <1>0, BeginBegins DEF IInv
<1>2. UNCHANGED <<g_next_handle, g_runtimes, g_requests, runtime, request>>
  BY DEF registries
<1>3. HoldsNothing(t) /\ HoldsNothing(t)'
  BY <1>1 DEF HoldsNothing, Owns, Begins, Leases, Uses, Locked, Submitted
<1>4. \A u \in Threads : LeasesSame(u) /\ OwnsSame(u)
  BY <1>1, <1>3 DEF HoldsNothing, LeasesSame, OwnsSame, Begins, Elsewhere, Leases, Uses
<1>5. /\ op \in RequestOps \cup {"destroy"} => q \in Requests /\ request[q].native \in {"open", "done"}
      /\ op \in RuntimeOps => r \in Runtimes /\ Published(r)
      /\ op \notin {"create", "close", "none"}
  BY DEF IInv, RegistryTypes, RegisteredInv, RuntimeInv, RequestInv, Life
<1>6. RegistryTypes' /\ RuntimeTypes' /\ RequestTypes'
  BY <1>2 DEF IInv, RegistryTypes, RuntimeTypes, RequestTypes
<1>7. ShapeInv'
  BY <1>1, <1>5 DEF IInv, ShapeInv, Shape, Submitted, Begins, Elsewhere
<1>8. MutexInv'
  BY <1>1, <1>2, <1>3, <1>4 DEF IInv, LeasesSame, OwnsSame, HoldsNothing, MutexInv, Begins,
     Elsewhere
<1>9. LesseeInv'
  BY <1>1, <1>2, <1>3, SameLessees DEF HoldsNothing, Begins
<1>10. UserInv'
  BY <1>1, <1>2, <1>3, SameUsers DEF HoldsNothing, Begins
<1>11. HandleInv'
  BY <1>1, <1>2 DEF IInv, HandleInv, Begins, Elsewhere
<1>12. RuntimeInv'
  BY <1>1, <1>2, <1>5 DEF IInv, RuntimeInv, Published, Creates, Begins, Elsewhere
<1>13. CloseInv'
  BY <1>1, <1>2, <1>5 DEF IInv, CloseInv, Closing, Closes, Begins, Elsewhere
<1>14. LeaseInv'
  BY <1>1, <1>2, <1>3 DEF IInv, HoldsNothing, LeaseInv, Begins, Elsewhere
<1>15. RequestInv'
  BY <1>1, <1>2, <1>3, <1>4, <1>5 DEF IInv, RequestInv, Life, Published, Creates, Begins, Elsewhere
<1>16. RegisteredInv'
  BY <1>2, <1>4 DEF IInv, LeasesSame, OwnsSame, HoldsNothing, RegisteredInv, Registered
<1>17. OwnerInv'
  BY <1>1, <1>2, <1>3, <1>4, <1>5 DEF IInv, LeasesSame, OwnsSame, HoldsNothing, OwnerInv, Begins,
     Elsewhere
<1>19. SubjectInv'
  BY <1>1, <1>2, <1>3, <1>4, <1>5 DEF IInv, LeasesSame, OwnsSame, HoldsNothing, SubjectInv, Begins,
     Elsewhere
<1>20. DeletingInv'
  BY <1>1, <1>2, <1>3, <1>4, <1>5 DEF IInv, DeletingInv, Begins, Elsewhere
<1>18. NothingLeftBehind'
  BY <1>2 DEF IInv, NothingLeftBehind
<1> QED
  BY <1>1, <1>6, <1>7, <1>8, <1>9, <1>10, <1>11, <1>12, <1>13, <1>14, <1>15, <1>16, <1>17, <1>18,
     <1>19, <1>20 DEF IInv
-----------------------------------------------------------------------------
(* The mutex was free, so nobody held it.                                      *)
LEMMA LockKeeps ==
  ASSUME IInv, NEW t \in Threads, Lock(t)
  PROVE  IInv'
<1>1. call[t].op \in {"submit", "destroy", "close"} /\ call[t].at = "lock"
      /\ runtime[call[t].rt].lifecycle = NoThread
  BY DEF Lock, At
<1>2. call[t].rt \in Runtimes
  BY <1>1, Basics
<1>3. AfterLock(call[t].op) \in Points
  BY <1>1 DEF AfterLock, Points
<1>4. Walks(t, AfterLock(call[t].op)) /\ CallTypes'
  BY <1>3, GotoWalks DEF IInv, Lock
<1>5. /\ call[t].op = "submit" => call'[t].at = "lookup"
      /\ call[t].op = "destroy" => call'[t].at = "erase"
      /\ call[t].op = "close" => call'[t].at = "closing"
  BY <1>1, <1>4 DEF Walks, AfterLock
<1>6. /\ \A r \in Runtimes : RuntimeSame(r) /\ runtime'[r].active = runtime[r].active
      /\ \A r \in Runtimes : r # call[t].rt => runtime'[r].lifecycle = runtime[r].lifecycle
      /\ runtime'[call[t].rt].lifecycle = t
  BY <1>2 DEF IInv, RuntimeTypes, RuntimeRecord, RuntimeSame, Lock
<1>7. UNCHANGED <<g_next_handle, g_runtimes, g_requests, request>>
  BY DEF Lock, registries
<1>8. RegistryTypes' /\ RuntimeTypes' /\ RequestTypes'
  BY <1>2, <1>7 DEF IInv, RegistryTypes, RuntimeTypes, RuntimeRecord, RequestTypes, RequestRecord,
     Lock
<1>9. \A u \in Threads : LeasesSame(u) /\ OwnsSame(u)
  BY <1>1, <1>5, <1>4 DEF LeasesSame, OwnsSame, Elsewhere, Leases, Uses, Submitted, Owns, Walks
<1>10. ShapeInv'
  BY <1>1, <1>5, <1>4 DEF IInv, ShapeInv, Shape, Submitted, Walks, Elsewhere
<1>11. MutexInv'
  BY <1>1, <1>5, <1>4, <1>6, Basics DEF IInv, MutexInv, Locked, Walks, Elsewhere
<1>12. LesseeInv'
  BY <1>4, <1>6, <1>9, SameLessees DEF LeasesSame, Walks
<1>13. UserInv'
  BY <1>4, <1>7, <1>9, SameUsers DEF LeasesSame, Walks
<1>14. HandleInv'
  BY <1>1, <1>2, <1>4, <1>5, <1>7 DEF IInv, HandleInv, Walks, LeasesSame, OwnsSame, HoldsNothing,
     RuntimeSame, RequestSame
<1>15. RuntimeInv'
  BY <1>1, <1>2, <1>4, <1>5, <1>6, <1>7, <1>9, Basics DEF IInv, RuntimeInv, Published, Creates,
     Walks, Elsewhere, LeasesSame, OwnsSame, HoldsNothing, RuntimeSame, RequestSame
<1>16. CloseInv'
  BY <1>1, <1>2, <1>4, <1>5, <1>6, <1>7, <1>9, Basics DEF IInv, CloseInv, Closing, Closes, Walks,
     Elsewhere, LeasesSame, OwnsSame, HoldsNothing, RuntimeSame, RequestSame
<1>17. LeaseInv'
  BY <1>1, <1>2, <1>4, <1>5, <1>6, <1>7, <1>9, Basics DEF IInv, LeaseInv, Walks, Elsewhere,
     LeasesSame, OwnsSame, HoldsNothing, RuntimeSame, RequestSame
<1>18. RequestInv'
  BY <1>1, <1>2, <1>4, <1>5, <1>6, <1>7, <1>9, Basics DEF IInv, RequestInv, Life, Published,
     Creates, Walks, Elsewhere, LeasesSame, OwnsSame, HoldsNothing, RuntimeSame, RequestSame
<1>19. RegisteredInv'
  BY <1>7, <1>9, Subjects DEF IInv, RegisteredInv, Registered, OwnsSame, HoldsNothing, RuntimeSame
<1>20. OwnerInv'
  BY <1>1, <1>2, <1>4, <1>5, <1>7, <1>9, Subjects DEF IInv, OwnerInv, Walks, LeasesSame, OwnsSame,
     HoldsNothing, RuntimeSame, RequestSame
<1>21. SubjectInv'
  BY <1>1, <1>2, <1>4, <1>5, <1>7, <1>9, Subjects DEF IInv, SubjectInv, Walks, LeasesSame, OwnsSame,
     HoldsNothing, RuntimeSame, RequestSame
<1>22. DeletingInv'
  BY <1>1, <1>2, <1>4, <1>5, <1>7, <1>9, Subjects DEF IInv, DeletingInv, Walks, LeasesSame,
     OwnsSame, HoldsNothing, RuntimeSame, RequestSame
<1>23. NothingLeftBehind'
  BY <1>2, <1>6, <1>7, Basics DEF IInv, NothingLeftBehind, HoldsNothing, RuntimeSame, RequestSame
<1> QED
  BY <1>4, <1>8, <1>10, <1>11, <1>12, <1>13, <1>14, <1>15, <1>16, <1>17, <1>18, <1>19, <1>20, <1>21,
     <1>22, <1>23 DEF IInv

(* The mutex is given back at the end of the call.                             *)
LEMMA UnlockKeeps ==
  ASSUME IInv, NEW t \in Threads, Unlock(t)
  PROVE  IInv'
<1>1. call[t].op \in {"submit", "destroy", "close"} /\ call[t].at = "unlock"
  BY DEF Unlock, At
<1>2. call[t].rt \in Runtimes
  BY <1>1, Basics
<1>3. Ends(t) /\ CallTypes'
  BY ReturnEnds DEF IInv, Unlock
<1>4. /\ \A r \in Runtimes : RuntimeSame(r) /\ runtime'[r].active = runtime[r].active
      /\ \A r \in Runtimes : r # call[t].rt => runtime'[r].lifecycle = runtime[r].lifecycle
  BY <1>2 DEF IInv, RuntimeTypes, RuntimeRecord, RuntimeSame, Unlock
<1>5. UNCHANGED <<g_next_handle, g_runtimes, g_requests, request>>
  BY DEF Unlock, registries
<1>6. RegistryTypes' /\ RuntimeTypes' /\ RequestTypes'
  BY <1>2, <1>5 DEF IInv, RegistryTypes, RuntimeTypes, RuntimeRecord, RequestTypes, RequestRecord,
     Unlock
<1>7. call[t].todo = {} /\ ~Leases(call[t]) /\ ~Uses(call[t]) /\ Locked(call[t])
  BY <1>1 DEF IInv, ShapeInv, Shape, Leases, Uses, Locked
<1>8. HoldsNothing(t)'
  BY <1>3 DEF HoldsNothing, Owns, Ends, Leases, Uses, Locked, Submitted
<1>9. \A u \in Threads : LeasesSame(u) /\ OwnsSame(u)
  BY <1>1, <1>7, <1>3 DEF LeasesSame, OwnsSame, Elsewhere, Leases, Uses, Submitted, Owns, Ends
<1>10. ShapeInv'
  BY <1>3 DEF IInv, ShapeInv, Shape, Submitted, Ends, Elsewhere
<1>11. MutexInv'
  BY <1>8, <1>7, <1>3, <1>4, Basics DEF IInv, MutexInv, HoldsNothing, Ends, Elsewhere
<1>12. LesseeInv'
  BY <1>3, <1>4, <1>9, <1>7, SameLessees DEF LeasesSame, Ends
<1>13. UserInv'
  BY <1>3, <1>5, <1>9, <1>7, SameUsers DEF LeasesSame, Ends
<1>14. HandleInv'
  BY <1>1, <1>3, <1>5 DEF IInv, HandleInv, Ends, Elsewhere, RegistryTypes, Handles
<1>15. RuntimeInv'
  BY <1>1, <1>2, <1>3, <1>4, <1>5, <1>7, <1>8, <1>9, Basics DEF IInv, RuntimeInv, Published,
     Creates, Ends, Elsewhere, LeasesSame, OwnsSame, HoldsNothing, RuntimeSame, RequestSame
<1>16. CloseInv'
  BY <1>1, <1>2, <1>3, <1>4, <1>5, <1>7, <1>8, <1>9, Basics DEF IInv, CloseInv, Closing, Closes,
     Ends, Elsewhere, LeasesSame, OwnsSame, HoldsNothing, RuntimeSame, RequestSame
<1>17. LeaseInv'
  BY <1>1, <1>2, <1>3, <1>4, <1>5, <1>7, <1>8, <1>9, Basics DEF IInv, LeaseInv, Ends, Elsewhere,
     LeasesSame, OwnsSame, HoldsNothing, RuntimeSame, RequestSame
<1>18. RequestInv'
  BY <1>1, <1>2, <1>3, <1>4, <1>5, <1>7, <1>8, <1>9, Basics DEF IInv, RequestInv, Life, Published,
     Creates, Ends, Elsewhere, LeasesSame, OwnsSame, HoldsNothing, RuntimeSame, RequestSame
<1>19. RegisteredInv'
  BY <1>5, <1>9, Subjects DEF IInv, RegisteredInv, Registered, OwnsSame, HoldsNothing, RuntimeSame
<1>20. OwnerInv'
  BY <1>1, <1>2, <1>3, <1>5, <1>7, <1>8, <1>9, Subjects DEF IInv, OwnerInv, Ends, Elsewhere,
     LeasesSame, OwnsSame, HoldsNothing, RuntimeSame, RequestSame
<1>21. SubjectInv'
  BY <1>1, <1>2, <1>3, <1>5, <1>7, <1>8, <1>9, Subjects DEF IInv, SubjectInv, Ends, Elsewhere,
     LeasesSame, OwnsSame, HoldsNothing, RuntimeSame, RequestSame
<1>22. DeletingInv'
  BY <1>1, <1>2, <1>3, <1>5 DEF IInv, DeletingInv, Ends, Elsewhere, LeasesSame, OwnsSame,
     HoldsNothing, RuntimeSame, RequestSame
<1>23. NothingLeftBehind'
  BY <1>2, <1>4, <1>5, <1>8, Basics DEF IInv, NothingLeftBehind, Ends, Elsewhere, RuntimeSame,
     RequestSame
<1> QED
  BY <1>3, <1>6, <1>10, <1>11, <1>12, <1>13, <1>14, <1>15, <1>16, <1>17, <1>18, <1>19, <1>20, <1>21,
     <1>22, <1>23 DEF IInv

(* A lease is taken only on a runtime that is not closing, so on a live one.     *)
LEMMA AcquireRuntimeKeeps ==
  ASSUME IInv, NEW t \in Threads, AcquireRuntime(t), ~runtime[call[t].rt].closing
  PROVE  IInv'
<1>1. call[t].op \in {"submit", "stats"} /\ call[t].at = "acquire"
  BY DEF AcquireRuntime, At
<1>2. call[t].rt \in Runtimes /\ call[t].todo = {}
  BY <1>1, Basics DEF IInv, ShapeInv, Shape
<1>3. runtime[call[t].rt].native = "live"
  BY <1>1, <1>2, Basics DEF IInv, RuntimeInv, Published
<1>4. Walks(t, "native") /\ CallTypes'
  BY GotoWalks DEF IInv, AcquireRuntime, Points
<1>5. /\ \A r \in Runtimes : RuntimeSame(r) /\ runtime'[r].lifecycle = runtime[r].lifecycle
      /\ \A r \in Runtimes : r # call[t].rt => runtime'[r].active = runtime[r].active
      /\ runtime'[call[t].rt].active = runtime[call[t].rt].active + 1
  BY <1>2 DEF IInv, RuntimeTypes, RuntimeRecord, RuntimeSame, AcquireRuntime
<1>6. UNCHANGED <<g_next_handle, g_runtimes, g_requests, request>>
  BY DEF AcquireRuntime, registries
<1>7. RegistryTypes' /\ RuntimeTypes' /\ RequestTypes'
  BY <1>2, <1>6 DEF IInv, RegistryTypes, RuntimeTypes, RuntimeRecord, RequestTypes, RequestRecord,
     AcquireRuntime
<1>8. ~Leases(call[t]) /\ Leases(call[t])' /\ ~Uses(call[t]) /\ ~Uses(call[t])'
  BY <1>1, <1>4 DEF Leases, Uses, Walks
<1>9. \A u \in Threads : OwnsSame(u)
  BY <1>1, <1>4 DEF OwnsSame, Submitted, Owns, Walks, Elsewhere
<1>10. ShapeInv'
  BY <1>1, <1>2, <1>4, <1>8, Basics DEF IInv, ShapeInv, Shape, Submitted, Walks, OwnsSame,
     RuntimeSame
<1>11. MutexInv'
  BY <1>1, <1>4, <1>5, Basics DEF IInv, MutexInv, Locked, Walks, Elsewhere
<1>12. LesseeInv'
  BY <1>4, <1>5, <1>8, OneMoreLessee DEF Walks
<1>13. UserInv'
  BY <1>4, <1>6, <1>8, SameUsers DEF Walks
<1>14. HandleInv'
  BY <1>4, <1>6, <1>8 DEF IInv, HandleInv, Walks, OwnsSame, RuntimeSame
<1>15. RuntimeInv'
  BY <1>1, <1>2, <1>3, <1>4, <1>5, <1>6, <1>8, <1>9, Basics DEF IInv, RuntimeInv, Published,
     Creates, Walks, Elsewhere, OwnsSame, RuntimeSame
<1>16. CloseInv'
  BY <1>1, <1>2, <1>3, <1>4, <1>5, <1>6, <1>8, <1>9, Basics DEF IInv, CloseInv, Closing, Closes,
     Walks, Elsewhere, OwnsSame, RuntimeSame
<1>17. LeaseInv'
  BY <1>1, <1>2, <1>3, <1>4, <1>5, <1>6, <1>8, <1>9, Basics DEF IInv, LeaseInv, Walks, Elsewhere,
     OwnsSame, RuntimeSame
<1>18. RequestInv'
  BY <1>1, <1>2, <1>3, <1>4, <1>5, <1>6, <1>8, <1>9, Basics DEF IInv, RequestInv, Life, Published,
     Creates, Walks, Elsewhere, OwnsSame, RuntimeSame
<1>19. RegisteredInv'
  BY <1>6, <1>9, Subjects DEF IInv, RegisteredInv, Registered, OwnsSame, RuntimeSame
<1>20. OwnerInv'
  BY <1>1, <1>2, <1>4, <1>6, <1>8, <1>9, Subjects DEF IInv, OwnerInv, Walks, OwnsSame, RuntimeSame
<1>21. SubjectInv'
  BY <1>1, <1>2, <1>4, <1>6, <1>8, <1>9, Subjects DEF IInv, SubjectInv, Walks, OwnsSame, RuntimeSame
<1>22. DeletingInv'
  BY <1>1, <1>2, <1>4, <1>6, <1>8, <1>9, Subjects DEF IInv, DeletingInv, Walks, OwnsSame,
     RuntimeSame
<1>23. NothingLeftBehind'
  BY <1>5, <1>6, Basics DEF IInv, NothingLeftBehind, Walks, OwnsSame, RuntimeSame
<1> QED
  BY <1>4, <1>7, <1>10, <1>11, <1>12, <1>13, <1>14, <1>15, <1>16, <1>17, <1>18, <1>19, <1>20, <1>21,
     <1>22, <1>23 DEF IInv

(* A lease is given back by a submission.                                     *)
LEMMA ReleaseSubmitKeeps ==
  ASSUME IInv, NEW t \in Threads, ReleaseRuntime(t), call[t].op = "submit"
  PROVE  IInv'
<1>1. call[t].op = "submit" /\ call[t].at = "release"
  BY DEF ReleaseRuntime, At
<1>2. call[t].rt \in Runtimes /\ call[t].todo = {}
  BY <1>1, Basics DEF IInv, ShapeInv, Shape
<1>3. Walks(t, "unlock") /\ CallTypes'
  BY GotoWalks DEF IInv, ReleaseRuntime, Points
<1>4. /\ \A r \in Runtimes : RuntimeSame(r) /\ runtime'[r].lifecycle = runtime[r].lifecycle
      /\ \A r \in Runtimes : r # call[t].rt => runtime'[r].active = runtime[r].active
      /\ runtime'[call[t].rt].active = Less(runtime[call[t].rt].active)
  BY <1>2 DEF IInv, RuntimeTypes, RuntimeRecord, RuntimeSame, ReleaseRuntime
<1>5. \A r \in Runtimes : runtime[r].active = 0 => runtime'[r].active = 0
  BY <1>4 DEF Less
<1>6. UNCHANGED <<g_next_handle, g_runtimes, g_requests, request>>
  BY DEF ReleaseRuntime, registries
<1>7. RegistryTypes' /\ RuntimeTypes' /\ RequestTypes'
  BY <1>2, <1>6 DEF IInv, RegistryTypes, RuntimeTypes, RuntimeRecord, RequestTypes, RequestRecord,
     ReleaseRuntime, Less
<1>8. Leases(call[t]) /\ ~Leases(call[t])' /\ ~Uses(call[t]) /\ ~Uses(call[t])'
  BY <1>1, <1>3 DEF Leases, Uses, Walks, Elsewhere
<1>9. \A u \in Threads : OwnsSame(u)
  BY <1>1, <1>2, <1>3 DEF OwnsSame, Submitted, Owns, Walks, Elsewhere
<1>10. ShapeInv'
  BY <1>1, <1>2, <1>3 DEF IInv, ShapeInv, Shape, Submitted, Walks, Elsewhere
<1>11. MutexInv'
  BY <1>1, <1>3, <1>4, Basics DEF IInv, MutexInv, Locked, Walks, Elsewhere
<1>12. LesseeInv'
  BY <1>3, <1>4, <1>8, OneLessLessee DEF Walks, Elsewhere
<1>13. UserInv'
  BY <1>3, <1>6, <1>8, SameUsers DEF Walks, Elsewhere
<1>14. HandleInv'
  BY <1>1, <1>3, <1>6 DEF IInv, HandleInv, RegistryTypes, Handles, Walks, Elsewhere
<1>15. RuntimeInv'
  BY <1>1, <1>2, <1>3, <1>4, <1>5, <1>6, <1>8, <1>9, Basics DEF IInv, RuntimeInv, Published,
     Creates, Walks, Elsewhere, OwnsSame, RuntimeSame
<1>16. CloseInv'
  BY <1>1, <1>2, <1>3, <1>4, <1>5, <1>6, <1>8, <1>9, Basics DEF IInv, CloseInv, Closing, Closes,
     Walks, Elsewhere, OwnsSame, RuntimeSame
<1>17. LeaseInv'
  BY <1>1, <1>2, <1>3, <1>4, <1>5, <1>6, <1>8, <1>9, Basics DEF IInv, LeaseInv, Walks, Elsewhere,
     OwnsSame, RuntimeSame
<1>18. RequestInv'
  BY <1>1, <1>2, <1>3, <1>4, <1>5, <1>6, <1>8, <1>9, Basics DEF IInv, RequestInv, Life, Published,
     Creates, Walks, Elsewhere, OwnsSame, RuntimeSame
<1>19. RegisteredInv'
  BY <1>6, <1>9, Subjects DEF IInv, RegisteredInv, Registered, OwnsSame, RuntimeSame
<1>20. OwnerInv'
  BY <1>1, <1>2, <1>3, <1>6, <1>8, <1>9, Subjects DEF IInv, OwnerInv, Walks, OwnsSame, RuntimeSame
<1>21. SubjectInv'
  BY <1>1, <1>2, <1>3, <1>6, <1>8, <1>9, Subjects DEF IInv, SubjectInv, Walks, OwnsSame, RuntimeSame
<1>22. DeletingInv'
  BY <1>1, <1>2, <1>3, <1>5, <1>6, <1>8, <1>9, Subjects DEF IInv, DeletingInv, Walks, OwnsSame,
     RuntimeSame
<1>23. NothingLeftBehind'
  BY <1>2, <1>4, <1>5, <1>6, Basics DEF IInv, NothingLeftBehind, Walks, OwnsSame, RuntimeSame
<1> QED
  BY <1>3, <1>7, <1>10, <1>11, <1>12, <1>13, <1>14, <1>15, <1>16, <1>17, <1>18, <1>19, <1>20, <1>21,
     <1>22, <1>23 DEF IInv

(* A lease is given back by nativeStats.                                       *)
LEMMA ReleaseStatsKeeps ==
  ASSUME IInv, NEW t \in Threads, ReleaseRuntime(t), call[t].op = "stats"
  PROVE  IInv'
<1>1. call[t].op = "stats" /\ call[t].at = "release"
  BY DEF ReleaseRuntime, At
<1>2. call[t].rt \in Runtimes /\ call[t].todo = {}
  BY <1>1, Basics DEF IInv, ShapeInv, Shape
<1>3. Ends(t) /\ CallTypes'
  BY <1>1, ReturnEnds DEF IInv, ReleaseRuntime, Points
<1>4. /\ \A r \in Runtimes : RuntimeSame(r) /\ runtime'[r].lifecycle = runtime[r].lifecycle
      /\ \A r \in Runtimes : r # call[t].rt => runtime'[r].active = runtime[r].active
      /\ runtime'[call[t].rt].active = Less(runtime[call[t].rt].active)
  BY <1>2 DEF IInv, RuntimeTypes, RuntimeRecord, RuntimeSame, ReleaseRuntime
<1>5. \A r \in Runtimes : runtime[r].active = 0 => runtime'[r].active = 0
  BY <1>4 DEF Less
<1>6. UNCHANGED <<g_next_handle, g_runtimes, g_requests, request>>
  BY DEF ReleaseRuntime, registries
<1>7. RegistryTypes' /\ RuntimeTypes' /\ RequestTypes'
  BY <1>2, <1>6, SMTT(30)
  DEF IInv, RegistryTypes, RuntimeTypes, RuntimeRecord, RequestTypes, RequestRecord, ReleaseRuntime,
      Less
<1>8. Leases(call[t]) /\ ~Leases(call[t])' /\ ~Uses(call[t]) /\ ~Uses(call[t])'
  BY <1>1, <1>3 DEF Leases, Uses, Ends, Elsewhere
<1>9. \A u \in Threads : OwnsSame(u)
  BY <1>1, <1>2, <1>3 DEF OwnsSame, Submitted, Owns, Ends, Elsewhere
<1>10. HoldsNothing(t)'
  BY <1>3 DEF HoldsNothing, Owns, Ends, Leases, Uses, Locked, Submitted
<1>11. ShapeInv'
  BY <1>1, <1>2, <1>3 DEF IInv, ShapeInv, Shape, Submitted, Ends, Elsewhere
<1>12. MutexInv'
  BY <1>1, <1>3, <1>4, Basics DEF IInv, MutexInv, Locked, Ends, Elsewhere
<1>13. LesseeInv'
  BY <1>3, <1>4, <1>8, OneLessLessee DEF Ends, Elsewhere
<1>14. UserInv'
  BY <1>3, <1>6, <1>8, SameUsers DEF Ends, Elsewhere
<1>15. HandleInv'
  BY <1>1, <1>3, <1>6 DEF IInv, HandleInv, RegistryTypes, Handles, Ends, Elsewhere
<1>16. RuntimeInv'
  BY <1>1, <1>2, <1>3, <1>4, <1>5, <1>6, <1>8, <1>9, <1>10, Basics DEF IInv, RuntimeInv, Published,
     Creates, Ends, Elsewhere, OwnsSame, RuntimeSame, HoldsNothing
<1>17. CloseInv'
  BY <1>1, <1>2, <1>3, <1>4, <1>5, <1>6, <1>8, <1>9, <1>10, Basics DEF IInv, CloseInv, Closing,
     Closes, Ends, Elsewhere, OwnsSame, RuntimeSame, HoldsNothing
<1>18. LeaseInv'
  BY <1>1, <1>2, <1>3, <1>4, <1>5, <1>6, <1>8, <1>9, <1>10, Basics DEF IInv, LeaseInv, Ends,
     Elsewhere, OwnsSame, RuntimeSame, HoldsNothing
<1>19. RequestInv'
  BY <1>1, <1>2, <1>3, <1>4, <1>5, <1>6, <1>8, <1>9, <1>10, Basics DEF IInv, RequestInv, Life,
     Published, Creates, Ends, Elsewhere, OwnsSame, RuntimeSame, HoldsNothing
<1>20. RegisteredInv'
  BY <1>6, <1>9, Subjects DEF IInv, RegisteredInv, Registered, Ends, Elsewhere, OwnsSame,
     RuntimeSame, HoldsNothing
<1>21. OwnerInv'
  BY <1>1, <1>2, <1>3, <1>6, <1>8, <1>9, <1>10, Subjects DEF IInv, OwnerInv, Ends, Elsewhere,
     OwnsSame, RuntimeSame, HoldsNothing
<1>22. SubjectInv'
  BY <1>1, <1>2, <1>3, <1>6, <1>8, <1>9, <1>10, Subjects DEF IInv, SubjectInv, Ends, Elsewhere,
     OwnsSame, RuntimeSame, HoldsNothing
<1>23. DeletingInv'
  BY <1>1, <1>2, <1>3, <1>5, <1>6, <1>8, <1>9, <1>10, Subjects DEF IInv, DeletingInv, Ends,
     Elsewhere, OwnsSame, RuntimeSame, HoldsNothing
<1>24. NothingLeftBehind'
  BY <1>2, <1>4, <1>5, <1>6, <1>10, Basics DEF IInv, NothingLeftBehind, Ends, Elsewhere, OwnsSame,
     RuntimeSame, HoldsNothing
<1> QED
  BY <1>3, <1>7, <1>11, <1>12, <1>13, <1>14, <1>15, <1>16, <1>17, <1>18, <1>19, <1>20, <1>21, <1>22,
     <1>23, <1>24 DEF IInv

(* The one close of a runtime finds it not closing yet.                         *)
LEMMA MarkClosingKeeps ==
  ASSUME IInv, NEW t \in Threads, MarkClosing(t)
  PROVE  IInv'
<1>1. call[t].op = "close" /\ call[t].at = "closing"
  BY DEF MarkClosing, At
<1>2. call[t].rt \in Runtimes /\ Published(call[t].rt)
  BY <1>1, Basics DEF IInv, RuntimeInv
<1>3. Closing(t, call[t].rt) /\ ~runtime[call[t].rt].closing
  BY <1>1 DEF IInv, CloseInv, Closing
<1>4. Walks(t, "drain") /\ CallTypes'
  BY <1>3, GotoWalks DEF IInv, MarkClosing, Points
<1>5. /\ \A r \in Runtimes : /\ runtime'[r].native = runtime[r].native
                             /\ runtime'[r].refs = runtime[r].refs
                             /\ runtime'[r].active = runtime[r].active
                             /\ runtime'[r].lifecycle = runtime[r].lifecycle
      /\ \A r \in Runtimes : r # call[t].rt => runtime'[r].closing = runtime[r].closing
      /\ runtime'[call[t].rt].closing
  BY <1>2 DEF IInv, RuntimeTypes, RuntimeRecord, RuntimeSame, MarkClosing
<1>6. UNCHANGED <<g_next_handle, g_runtimes, g_requests, request>>
  BY DEF MarkClosing, registries
<1>7. runtime' = [runtime EXCEPT ![call[t].rt].closing = TRUE]
  BY DEF MarkClosing
<1>8. RuntimeTypes'
  BY <1>2, <1>7, ZenonT(30) DEF IInv, RuntimeTypes, RuntimeRecord
<1>9. RegistryTypes' /\ RequestTypes'
  BY <1>6 DEF IInv, RegistryTypes, RequestTypes
<1>10. \A u \in Threads : LeasesSame(u) /\ OwnsSame(u)
  BY <1>1, <1>4 DEF LeasesSame, OwnsSame, Elsewhere, Leases, Uses, Submitted, Owns, Walks
<1>11. /\ \A u \in Threads : call[u].op = "create" => call[u].rt # call[t].rt
       /\ \A h \in DOMAIN g_runtimes : g_runtimes[h] # call[t].rt
  BY <1>2, <1>3 DEF Published, Creates, Closing
<1>12. ShapeInv'
  BY <1>1, <1>2, <1>3, <1>4, <1>11, Basics DEF IInv, ShapeInv, Shape, Submitted, Walks, OwnsSame,
     LeasesSame
<1>13. MutexInv'
  BY <1>1, <1>4, <1>5, Basics DEF IInv, MutexInv, Locked, Walks, Elsewhere
<1>14. LesseeInv'
  BY <1>4, <1>5, <1>10, SameLessees DEF LeasesSame, Walks
<1>15. UserInv'
  BY <1>4, <1>6, <1>10, SameUsers DEF LeasesSame, Walks
<1>16. HandleInv'
  BY <1>3, <1>4, <1>6, <1>11 DEF IInv, HandleInv, Walks, OwnsSame, LeasesSame
<1>17. RuntimeInv'
  BY <1>1, <1>4, <1>5, <1>6, <1>11, Basics DEF IInv, RuntimeInv, Published, Creates, Walks,
     Elsewhere
<1>18. CloseInv'
  BY <1>1, <1>2, <1>3, <1>4, <1>5, <1>6, <1>10, <1>11, Basics DEF IInv, CloseInv, Closing, Closes,
     Walks, Elsewhere, OwnsSame, LeasesSame
<1>19. LeaseInv'
  BY <1>4, <1>5, <1>6, <1>10, <1>11, Basics DEF IInv, LeaseInv, Walks, Elsewhere, OwnsSame,
     LeasesSame
<1>20. RequestInv'
  BY <1>1, <1>2, <1>3, <1>4, <1>5, <1>6, <1>10, <1>11, Basics DEF IInv, RequestInv, Life, Published,
     Creates, Walks, Elsewhere, OwnsSame, LeasesSame
<1>21. RegisteredInv'
  BY <1>6, <1>10, Subjects DEF IInv, RegisteredInv, Registered, OwnsSame, LeasesSame
<1>22. OwnerInv'
  BY <1>4, <1>6, <1>10, <1>11, Subjects DEF IInv, OwnerInv, Walks, OwnsSame, LeasesSame
<1>23. SubjectInv'
  BY <1>4, <1>6, <1>10, <1>11, Subjects DEF IInv, SubjectInv, Walks, OwnsSame, LeasesSame
<1>24. DeletingInv'
  BY <1>4, <1>6, <1>10, <1>11, Subjects DEF IInv, DeletingInv, Walks, OwnsSame, LeasesSame
<1>25. NothingLeftBehind'
  BY <1>2, <1>5, <1>6, <1>11, Basics DEF IInv, NothingLeftBehind, Walks, OwnsSame, LeasesSame
<1> QED
  BY <1>4, <1>8, <1>9, <1>12, <1>13, <1>14, <1>15, <1>16, <1>17, <1>18, <1>19, <1>20, <1>21, <1>22,
     <1>23, <1>24, <1>25 DEF IInv

(* The buffers go after the runtime.                                            *)
LEMMA DeleteRuntimeRefsKeeps ==
  ASSUME IInv, NEW t \in Threads, DeleteRuntimeRefs(t)
  PROVE  IInv'
<1>1. call[t].op = "close" /\ call[t].at = "runtime_refs"
  BY DEF DeleteRuntimeRefs, At
<1>2. call[t].rt \in Runtimes /\ call[t].todo = {}
  BY <1>1, Basics DEF IInv, ShapeInv, Shape
<1>3. runtime[call[t].rt].native = "destroyed"
  BY <1>1 DEF IInv, CloseInv, Closing
<1>4. Walks(t, "unlock") /\ CallTypes'
  BY GotoWalks DEF IInv, DeleteRuntimeRefs, Points
<1>5. /\ \A r \in Runtimes : /\ runtime'[r].native = runtime[r].native
                             /\ runtime'[r].closing = runtime[r].closing
                             /\ runtime'[r].active = runtime[r].active
                             /\ runtime'[r].lifecycle = runtime[r].lifecycle
      /\ \A r \in Runtimes : r # call[t].rt => runtime'[r].refs = runtime[r].refs
  BY <1>2 DEF IInv, RuntimeTypes, RuntimeRecord, RuntimeSame, DeleteRuntimeRefs
<1>6. UNCHANGED <<g_next_handle, g_runtimes, g_requests, request>>
  BY DEF DeleteRuntimeRefs, registries
<1>7. runtime' = [runtime EXCEPT ![call[t].rt].refs = FALSE]
  BY DEF DeleteRuntimeRefs
<1>8. RuntimeTypes'
  BY <1>2, <1>7, ZenonT(30) DEF IInv, RuntimeTypes, RuntimeRecord
<1>9. RegistryTypes' /\ RequestTypes'
  BY <1>6 DEF IInv, RegistryTypes, RequestTypes
<1>10. \A u \in Threads : LeasesSame(u) /\ OwnsSame(u)
  BY <1>1, <1>2, <1>4 DEF LeasesSame, OwnsSame, Elsewhere, Leases, Uses, Submitted, Owns, Walks
<1>11. ShapeInv'
  BY <1>1, <1>2, <1>3, <1>4, Basics DEF IInv, ShapeInv, Shape, Submitted, Walks, OwnsSame,
     LeasesSame
<1>12. MutexInv'
  BY <1>1, <1>4, <1>5, Basics DEF IInv, MutexInv, Locked, Walks, Elsewhere
<1>13. LesseeInv'
  BY <1>4, <1>5, <1>10, SameLessees DEF LeasesSame, Walks
<1>14. UserInv'
  BY <1>4, <1>6, <1>10, SameUsers DEF LeasesSame, Walks
<1>15. HandleInv'
  BY <1>3, <1>4, <1>6 DEF IInv, HandleInv, Walks, OwnsSame, LeasesSame
<1>16. RuntimeInv'
  BY <1>1, <1>2, <1>3, <1>4, <1>5, <1>6, <1>10, Basics DEF IInv, RuntimeInv, Published, Creates,
     Walks, Elsewhere, OwnsSame, LeasesSame
<1>17. CloseInv'
  BY <1>1, <1>2, <1>3, <1>4, <1>5, <1>6, <1>10, Basics DEF IInv, CloseInv, Closing, Closes, Walks,
     Elsewhere, OwnsSame, LeasesSame
<1>18. LeaseInv'
  BY <1>4, <1>5, <1>6, <1>10, Basics DEF IInv, LeaseInv, Walks, Elsewhere, OwnsSame, LeasesSame
<1>19. RequestInv'
  BY <1>1, <1>2, <1>3, <1>4, <1>5, <1>6, <1>10, Basics DEF IInv, RequestInv, Life, Published,
     Creates, Walks, Elsewhere, OwnsSame, LeasesSame
<1>20. RegisteredInv'
  BY <1>6, <1>10, Subjects DEF IInv, RegisteredInv, Registered, OwnsSame, LeasesSame
<1>21. OwnerInv'
  BY <1>4, <1>6, <1>10, Subjects DEF IInv, OwnerInv, Walks, OwnsSame, LeasesSame
<1>22. SubjectInv'
  BY <1>4, <1>6, <1>10, Subjects DEF IInv, SubjectInv, Walks, OwnsSame, LeasesSame
<1>23. DeletingInv'
  BY <1>4, <1>6, <1>10, Subjects DEF IInv, DeletingInv, Walks, OwnsSame, LeasesSame
<1>24. NothingLeftBehind'
  BY <1>2, <1>5, <1>6, Basics DEF IInv, NothingLeftBehind, Walks, OwnsSame, LeasesSame
<1> QED
  BY <1>4, <1>8, <1>9, <1>11, <1>12, <1>13, <1>14, <1>15, <1>16, <1>17, <1>18, <1>19, <1>20, <1>21,
     <1>22, <1>23, <1>24 DEF IInv

-----------------------------------------------------------------------------

(* A lease is taken only on a request that nobody destroys.                      *)
LEMMA AcquireRequestKeeps ==
  ASSUME IInv, NEW t \in Threads, AcquireRequest(t),
         ~request[call[t].rq].destroying, ~request[call[t].rq].destroyed
  PROVE  IInv'
<1>1. call[t].op \in RequestOps /\ call[t].at = "acquire"
  BY DEF AcquireRequest, At
<1>2. call[t].rq \in Requests /\ call[t].todo = {}
  BY <1>1 DEF IInv, ShapeInv, Shape
<1>3. request[call[t].rq].native \in {"open", "done"}
  BY <1>1, <1>2, Basics DEF IInv, SubjectInv, RequestInv, Life
<1>4. Walks(t, "native") /\ CallTypes'
  BY GotoWalks DEF IInv, AcquireRequest, Points
<1>5. request' = [request EXCEPT ![call[t].rq].active = request[call[t].rq].active + 1]
  BY DEF AcquireRequest
<1>6. /\ \A q \in Requests : RequestSame(q)
      /\ \A q \in Requests : q # call[t].rq => request'[q].active = request[q].active
      /\ request'[call[t].rq].active = request[call[t].rq].active + 1
  BY <1>2, <1>5 DEF IInv, RequestTypes, RequestRecord, RequestSame
<1>7. UNCHANGED <<g_next_handle, g_runtimes, g_requests, runtime>>
  BY DEF AcquireRequest, registries
<1>8. RequestTypes'
  BY <1>2, <1>5 DEF IInv, RequestTypes, RequestRecord
<1>9. RegistryTypes' /\ RuntimeTypes'
  BY <1>7 DEF IInv, RegistryTypes, RuntimeTypes
<1>10. ~Uses(call[t]) /\ Uses(call[t])' /\ ~Leases(call[t]) /\ ~Leases(call[t])'
  BY <1>1, <1>4 DEF Leases, Uses, Walks
<1>11. \A u \in Threads : OwnsSame(u)
  BY <1>1, <1>4 DEF OwnsSame, Submitted, Owns, Walks, Elsewhere
<1>12. ShapeInv'
  BY <1>1, <1>2, <1>4, <1>10, Basics DEF IInv, ShapeInv, Shape, Submitted, Walks, OwnsSame,
     RequestSame
<1>13. MutexInv'
  BY <1>1, <1>4, <1>7, Basics DEF IInv, MutexInv, Locked, Walks, Elsewhere
<1>14. LesseeInv'
  BY <1>4, <1>7, <1>10, SameLessees DEF Walks
<1>15. UserInv'
  BY <1>4, <1>6, <1>10, OneMoreUser DEF Walks
<1>16. HandleInv'
  BY <1>4, <1>6, <1>7, <1>10 DEF IInv, HandleInv, Walks, OwnsSame, RequestSame
<1>17. RuntimeInv'
  BY <1>1, <1>2, <1>3, <1>4, <1>6, <1>7, <1>10, <1>11, Basics, SMTT(30)
  DEF IInv, RuntimeInv, Published, Creates, Walks, Elsewhere, OwnsSame, RequestSame
<1>18. CloseInv'
  BY <1>1, <1>2, <1>3, <1>4, <1>6, <1>7, <1>10, <1>11, Basics DEF IInv, CloseInv, Closing, Closes,
     Walks, Elsewhere, OwnsSame, RequestSame
<1>19. LeaseInv'
  BY <1>1, <1>2, <1>3, <1>4, <1>6, <1>7, <1>10, <1>11, Basics DEF IInv, LeaseInv, Walks, Elsewhere,
     OwnsSame, RequestSame
<1>20. RequestInv'
  BY <1>1, <1>2, <1>3, <1>4, <1>6, <1>7, <1>10, <1>11, Basics DEF IInv, RequestInv, Life, Published,
     Creates, Walks, Elsewhere, OwnsSame, RequestSame
<1>21. RegisteredInv'
  BY <1>6, <1>7, <1>11, Subjects DEF IInv, RegisteredInv, Registered, Walks, Elsewhere, OwnsSame,
     RequestSame
<1>22. OwnerInv'
  BY <1>1, <1>2, <1>4, <1>6, <1>7, <1>10, <1>11, Subjects DEF IInv, OwnerInv, Walks, OwnsSame,
     RequestSame
<1>23. SubjectInv'
  BY <1>1, <1>2, <1>4, <1>6, <1>7, <1>10, <1>11, Subjects DEF IInv, SubjectInv, Walks, OwnsSame,
     RequestSame
<1>24. DeletingInv'
  BY <1>1, <1>2, <1>4, <1>6, <1>7, <1>10, <1>11, Subjects DEF IInv, DeletingInv, Walks, OwnsSame,
     RequestSame
<1>25. NothingLeftBehind'
  BY <1>6, <1>7, Basics DEF IInv, NothingLeftBehind, Walks, OwnsSame, RequestSame
<1> QED
  BY <1>4, <1>8, <1>9, <1>12, <1>13, <1>14, <1>15, <1>16, <1>17, <1>18, <1>19, <1>20, <1>21, <1>22,
     <1>23, <1>24, <1>25 DEF IInv

(* The lease is given back at the end of the call.                              *)
LEMMA ReleaseRequestKeeps ==
  ASSUME IInv, NEW t \in Threads, ReleaseRequest(t)
  PROVE  IInv'
<1>1. call[t].op \in RequestOps /\ call[t].at = "release"
  BY DEF ReleaseRequest, At
<1>2. call[t].rq \in Requests /\ call[t].todo = {}
  BY <1>1 DEF IInv, ShapeInv, Shape
<1>3. Ends(t) /\ CallTypes'
  BY ReturnEnds DEF IInv, ReleaseRequest
<1>4. request' = [request EXCEPT ![call[t].rq].active = Less(request[call[t].rq].active)]
  BY DEF ReleaseRequest
<1>5. /\ \A q \in Requests : RequestSame(q)
      /\ \A q \in Requests : q # call[t].rq => request'[q].active = request[q].active
      /\ request'[call[t].rq].active = Less(request[call[t].rq].active)
  BY <1>2, <1>4 DEF IInv, RequestTypes, RequestRecord, RequestSame
<1>6. \A q \in Requests : request[q].active = 0 => request'[q].active = 0
  BY <1>5 DEF Less
<1>7. UNCHANGED <<g_next_handle, g_runtimes, g_requests, runtime>>
  BY DEF ReleaseRequest, registries
<1>8. RequestTypes'
  BY <1>2, <1>4 DEF IInv, RequestTypes, RequestRecord, Less
<1>9. RegistryTypes' /\ RuntimeTypes'
  BY <1>7 DEF IInv, RegistryTypes, RuntimeTypes
<1>10. Uses(call[t]) /\ ~Uses(call[t])' /\ ~Leases(call[t]) /\ ~Leases(call[t])'
  BY <1>1, <1>3 DEF Leases, Uses, Ends
<1>11. HoldsNothing(t)'
  BY <1>3 DEF HoldsNothing, Owns, Ends, Leases, Uses, Locked, Submitted
<1>12. \A u \in Threads : OwnsSame(u)
  BY <1>1, <1>2, <1>3 DEF OwnsSame, Submitted, Owns, Ends, Elsewhere
<1>13. ShapeInv'
  BY <1>1, <1>2, <1>3 DEF IInv, ShapeInv, Shape, Submitted, Ends, Elsewhere, OwnsSame, RequestSame,
     HoldsNothing
<1>14. MutexInv'
  BY <1>1, <1>3, <1>7, <1>11, Basics DEF IInv, MutexInv, HoldsNothing, Ends, Elsewhere
<1>15. LesseeInv'
  BY <1>3, <1>7, <1>10, SameLessees DEF Ends
<1>16. UserInv'
  BY <1>3, <1>5, <1>10, OneLessUser DEF Ends
<1>17. HandleInv'
  BY <1>1, <1>3, <1>7 DEF IInv, HandleInv, RegistryTypes, Handles, Ends, Elsewhere
<1>18. RuntimeInv'
  BY <1>1, <1>2, <1>3, <1>5, <1>6, <1>7, <1>10, <1>11, <1>12, Basics DEF IInv, RuntimeInv,
     Published, Creates, Ends, Elsewhere, OwnsSame, RequestSame, HoldsNothing
<1>19. CloseInv'
  BY <1>1, <1>2, <1>3, <1>5, <1>6, <1>7, <1>10, <1>11, <1>12, Basics DEF IInv, CloseInv, Closing,
     Closes, Ends, Elsewhere, OwnsSame, RequestSame, HoldsNothing
<1>20. LeaseInv'
  BY <1>1, <1>2, <1>3, <1>5, <1>6, <1>7, <1>10, <1>11, <1>12, Basics DEF IInv, LeaseInv, Ends,
     Elsewhere, OwnsSame, RequestSame, HoldsNothing
<1>21. RequestInv'
  BY <1>1, <1>2, <1>3, <1>5, <1>6, <1>7, <1>10, <1>11, <1>12, Basics DEF IInv, RequestInv, Life,
     Published, Creates, Ends, Elsewhere, OwnsSame, RequestSame, HoldsNothing
<1>22. RegisteredInv'
  BY <1>5, <1>7, <1>12, Subjects DEF IInv, RegisteredInv, Registered, Ends, Elsewhere, OwnsSame,
     RequestSame, HoldsNothing
<1>23. OwnerInv'
  BY <1>1, <1>2, <1>3, <1>5, <1>7, <1>10, <1>11, <1>12, Subjects DEF IInv, OwnerInv, Ends,
     Elsewhere, OwnsSame, RequestSame, HoldsNothing
<1>24. SubjectInv'
  BY <1>1, <1>2, <1>3, <1>5, <1>7, <1>10, <1>11, <1>12, Subjects DEF IInv, SubjectInv, Ends,
     Elsewhere, OwnsSame, RequestSame, HoldsNothing
<1>25. DeletingInv'
  BY <1>1, <1>2, <1>3, <1>5, <1>6, <1>7, <1>10, <1>11, <1>12, Subjects DEF IInv, DeletingInv, Ends,
     Elsewhere, OwnsSame, RequestSame, HoldsNothing
<1>26. NothingLeftBehind'
  BY <1>2, <1>5, <1>6, <1>7, <1>11, Basics DEF IInv, NothingLeftBehind, Ends, Elsewhere, OwnsSame,
     RequestSame, HoldsNothing
<1> QED
  BY <1>3, <1>8, <1>9, <1>13, <1>14, <1>15, <1>16, <1>17, <1>18, <1>19, <1>20, <1>21, <1>22, <1>23,
     <1>24, <1>25, <1>26 DEF IInv

(* Cancelling changes nothing else.                                              *)
LEMMA NativeCancelKeeps ==
  ASSUME IInv, NEW t \in Threads, NativeCancel(t)
  PROVE  IInv'
<1>1. call[t].op \in {"cancel"} /\ call[t].at = "native"
  BY DEF NativeCancel, At
<1>2. call[t].rq \in Requests /\ call[t].todo = {}
  BY <1>1 DEF IInv, ShapeInv, Shape
<1>3. Walks(t, "release") /\ CallTypes'
  BY GotoWalks DEF IInv, NativeCancel, Points
<1>4. request' = [request EXCEPT ![call[t].rq].cancelled = TRUE]
  BY DEF NativeCancel
<1>5. \A q \in Requests : RequestSame(q) /\ request'[q].active = request[q].active
  BY <1>2, <1>4 DEF IInv, RequestTypes, RequestRecord, RequestSame
<1>6. UNCHANGED <<g_next_handle, g_runtimes, g_requests, runtime>>
  BY DEF NativeCancel, registries
<1>7. RequestTypes'
  BY <1>2, <1>4, ZenonT(30) DEF IInv, RequestTypes, RequestRecord
<1>8. RegistryTypes' /\ RuntimeTypes'
  BY <1>6 DEF IInv, RegistryTypes, RuntimeTypes
<1>9. \A u \in Threads : LeasesSame(u) /\ OwnsSame(u)
  BY <1>1, <1>3 DEF LeasesSame, OwnsSame, Elsewhere, Leases, Uses, Submitted, Owns, Walks
<1>10. ShapeInv'
  BY <1>1, <1>2, <1>3, Basics DEF IInv, ShapeInv, Shape, Submitted, Walks
<1>11. MutexInv'
  BY <1>1, <1>3, <1>6, Basics DEF IInv, MutexInv, Locked, Walks, Elsewhere
<1>12. LesseeInv'
  BY <1>3, <1>6, <1>9, SameLessees DEF LeasesSame, Walks
<1>13. UserInv'
  BY <1>3, <1>5, <1>9, SameUsers DEF LeasesSame, Walks
<1>14. HandleInv'
  BY <1>3, <1>5, <1>6 DEF IInv, HandleInv, Walks, OwnsSame, LeasesSame, RequestSame
<1>15. RuntimeInv'
  BY <1>1, <1>2, <1>3, <1>5, <1>6, <1>9, Basics DEF IInv, RuntimeInv, Published, Creates, Walks
<1>16. CloseInv'
  BY <1>1, <1>2, <1>3, <1>5, <1>6, <1>9, Basics DEF IInv, CloseInv, Closing, Closes, Walks,
     Elsewhere, OwnsSame, LeasesSame, RequestSame
<1>17. LeaseInv'
  BY <1>1, <1>2, <1>3, <1>5, <1>6, <1>9, Basics DEF IInv, LeaseInv, Walks, Elsewhere, OwnsSame,
     LeasesSame, RequestSame
<1>18. RequestInv'
  BY <1>1, <1>2, <1>3, <1>5, <1>6, <1>9, Basics DEF IInv, RequestInv, Life, Published, Creates,
     Walks, Elsewhere, OwnsSame, LeasesSame, RequestSame
<1>19. RegisteredInv'
  BY <1>5, <1>6, <1>9, Subjects DEF IInv, RegisteredInv, Registered, Walks, Elsewhere, OwnsSame,
     LeasesSame, RequestSame
<1>20. OwnerInv'
  BY <1>1, <1>2, <1>3, <1>5, <1>6, <1>9, Subjects DEF IInv, OwnerInv, Walks, OwnsSame, LeasesSame,
     RequestSame
<1>21. SubjectInv'
  BY <1>1, <1>2, <1>3, <1>5, <1>6, <1>9, Subjects DEF IInv, SubjectInv, Walks, OwnsSame, LeasesSame,
     RequestSame
<1>22. DeletingInv'
  BY <1>1, <1>2, <1>3, <1>5, <1>6, <1>9, Subjects DEF IInv, DeletingInv, Walks, OwnsSame,
     LeasesSame, RequestSame
<1>23. NothingLeftBehind'
  BY <1>2, <1>5, <1>6, Basics DEF IInv, NothingLeftBehind, LeasesSame, RequestSame
<1> QED
  BY <1>3, <1>7, <1>8, <1>10, <1>11, <1>12, <1>13, <1>14, <1>15, <1>16, <1>17, <1>18, <1>19, <1>20,
     <1>21, <1>22, <1>23 DEF IInv

(* A drained request is cancelled, and no lease on it is taken any more.         *)
LEMMA RequestDrainedKeeps ==
  ASSUME IInv, NEW t \in Threads, RequestDrained(t)
  PROVE  IInv'
<1>1. call[t].op \in {"submit", "destroy", "close"} /\ call[t].at = "drain_request"
      /\ request[call[t].rq].active = 0
  BY DEF RequestDrained, At
<1>2. call[t].rq \in Requests
  BY <1>1 DEF IInv, ShapeInv, Shape
<1>3. Walks(t, "delete") /\ CallTypes'
  BY GotoWalks DEF IInv, RequestDrained, Points
<1>4. request' = [request EXCEPT ![call[t].rq].cancelled = TRUE]
  BY DEF RequestDrained
<1>5. \A q \in Requests : RequestSame(q) /\ request'[q].active = request[q].active
  BY <1>2, <1>4 DEF IInv, RequestTypes, RequestRecord, RequestSame
<1>6. UNCHANGED <<g_next_handle, g_runtimes, g_requests, runtime>>
  BY DEF RequestDrained, registries
<1>7. RequestTypes'
  BY <1>2, <1>4, ZenonT(30) DEF IInv, RequestTypes, RequestRecord
<1>8. RegistryTypes' /\ RuntimeTypes'
  BY <1>6 DEF IInv, RegistryTypes, RuntimeTypes
<1>9. \A u \in Threads : LeasesSame(u) /\ OwnsSame(u)
  BY <1>1, <1>3 DEF LeasesSame, OwnsSame, Elsewhere, Leases, Uses, Submitted, Owns, Walks
<1>10. ShapeInv'
  BY <1>1, <1>2, <1>3, Basics DEF IInv, ShapeInv, Shape, Submitted, Walks
<1>11. MutexInv'
  BY <1>1, <1>3, <1>6, Basics DEF IInv, MutexInv, Locked, Walks, Elsewhere
<1>12. LesseeInv'
  BY <1>3, <1>6, <1>9, SameLessees DEF LeasesSame, Walks
<1>13. UserInv'
  BY <1>3, <1>5, <1>9, SameUsers DEF LeasesSame, Walks
<1>14. HandleInv'
  BY <1>3, <1>5, <1>6 DEF IInv, HandleInv, Walks, OwnsSame, LeasesSame, RequestSame
<1>15. RuntimeInv'
  BY <1>1, <1>2, <1>3, <1>5, <1>6, <1>9, Basics DEF IInv, RuntimeInv, Published, Creates, Walks
<1>16. CloseInv'
  BY <1>1, <1>2, <1>3, <1>5, <1>6, <1>9, Basics DEF IInv, CloseInv, Closing, Closes, Walks,
     Elsewhere, OwnsSame, LeasesSame, RequestSame
<1>17. LeaseInv'
  BY <1>1, <1>2, <1>3, <1>5, <1>6, <1>9, Basics DEF IInv, LeaseInv, Walks, Elsewhere, OwnsSame,
     LeasesSame, RequestSame
<1>18. RequestInv'
  BY <1>1, <1>2, <1>3, <1>5, <1>6, <1>9, Basics DEF IInv, RequestInv, Life, Published, Creates,
     Walks, Elsewhere, OwnsSame, LeasesSame, RequestSame
<1>19. RegisteredInv'
  BY <1>5, <1>6, <1>9, Subjects DEF IInv, RegisteredInv, Registered, Walks, Elsewhere, OwnsSame,
     LeasesSame, RequestSame
<1>20. OwnerInv'
  BY <1>1, <1>2, <1>3, <1>5, <1>6, <1>9, Subjects DEF IInv, OwnerInv, Walks, OwnsSame, LeasesSame,
     RequestSame
<1>21. SubjectInv'
  BY <1>1, <1>2, <1>3, <1>5, <1>6, <1>9, Subjects DEF IInv, SubjectInv, Walks, OwnsSame, LeasesSame,
     RequestSame
<1>22. DeletingInv'
  BY <1>1, <1>2, <1>3, <1>5, <1>6, <1>9, Subjects DEF IInv, DeletingInv, Walks, OwnsSame,
     LeasesSame, RequestSame
<1>23. NothingLeftBehind'
  BY <1>2, <1>5, <1>6, Basics DEF IInv, NothingLeftBehind, LeasesSame, RequestSame
<1> QED
  BY <1>3, <1>7, <1>8, <1>10, <1>11, <1>12, <1>13, <1>14, <1>15, <1>16, <1>17, <1>18, <1>19, <1>20,
     <1>21, <1>22, <1>23 DEF IInv

-----------------------------------------------------------------------------

(* The workers end a request: it was open, so its runtime is live.              *)
LEMMA NativeDoneKeeps ==
  ASSUME IInv, NEW q \in Requests, NativeDone(q)
  PROVE  IInv'
<1>1. request[q].native = "open"
  BY DEF NativeDone
<1>2. request' = [request EXCEPT ![q].native = "done"]
  BY DEF NativeDone
<1>3. /\ \A x \in Requests : /\ request'[x].refs = request[x].refs /\ request'[x].owner = request[x].owner
                             /\ request'[x].destroying = request[x].destroying
                             /\ request'[x].destroyed = request[x].destroyed
                             /\ request'[x].active = request[x].active
                             /\ x # q => request'[x].native = request[x].native
      /\ request'[q].native = "done"
  BY <1>2 DEF IInv, RequestTypes, RequestRecord
<1>4. UNCHANGED <<g_next_handle, g_runtimes, g_requests, runtime, call>>
  BY DEF NativeDone, registries
<1>5. RequestTypes'
  BY <1>2 DEF IInv, RequestTypes, RequestRecord
<1>6. RegistryTypes' /\ RuntimeTypes' /\ CallTypes' /\ ShapeInv'
  BY <1>4 DEF IInv, RegistryTypes, RuntimeTypes, CallTypes, ShapeInv
<1>7. MutexInv'
  BY <1>4 DEF IInv, MutexInv
<1>8. LesseeInv'
  BY <1>4 DEF IInv, LesseeInv, Lessees
<1>9. UserInv'
  BY <1>3, <1>4 DEF IInv, UserInv, Users
<1>10. HandleInv' /\ RuntimeInv'
  BY <1>4 DEF IInv, HandleInv, RuntimeInv, Published, Creates
<1>11. CloseInv'
  BY <1>3, <1>4, Subjects DEF IInv, CloseInv, Closing, Closes
<1>12. LeaseInv'
  BY <1>3, <1>4, Subjects DEF IInv, LeaseInv
<1>13. RequestInv'
  BY <1>1, <1>3, <1>4 DEF IInv, RequestInv, Life, Published, Creates
<1>14. RegisteredInv'
  BY <1>3, <1>4, Subjects DEF IInv, RegisteredInv, Registered
<1>15. OwnerInv'
  BY <1>3, <1>4 DEF IInv, OwnerInv
<1>16. SubjectInv'
  BY <1>3, <1>4, Subjects DEF IInv, SubjectInv
<1>17. DeletingInv'
  BY <1>1, <1>3, <1>4, Subjects DEF IInv, DeletingInv
<1>18. NothingLeftBehind'
  BY <1>1, <1>3, <1>4, Subjects DEF IInv, NothingLeftBehind
<1> QED
  BY <1>5, <1>6, <1>7, <1>8, <1>9, <1>10, <1>11, <1>12, <1>13, <1>14, <1>15, <1>16, <1>17, <1>18 DEF
     IInv

(* A request is deleted by the one call that owns it, after the last lease.        *)
LEMMA DeleteRequestKeeps ==
  ASSUME IInv, NEW t \in Threads, DeleteRequest(t)
  PROVE  IInv'
<1>1. /\ call[t].op \in {"submit", "destroy", "close"} /\ call[t].at = "delete"
      /\ request[call[t].rq].native = "done"
  BY DEF DeleteRequest, At
<1>2. /\ call[t].rq \in Requests /\ Owns(call[t], call[t].rq)
      /\ request[call[t].rq].destroying /\ request[call[t].rq].active = 0
  BY <1>1, Subjects DEF IInv, Owns, DeletingInv
<1>3. /\ \A u \in Threads : u # t /\ (call[u].at \in Deleting \/ Submitted(call[u])) => call[u].rq # call[t].rq
      /\ \A h \in DOMAIN g_requests : g_requests[h] # call[t].rq
      /\ \A u \in Threads : Uses(call[u]) => call[u].rq # call[t].rq
  BY <1>2, OwnsAlone, NoLessee
<1>4. Walks(t, "delete_refs") /\ CallTypes'
  BY GotoWalks DEF IInv, DeleteRequest, Points
<1>5. request' = [request EXCEPT ![call[t].rq].native = "deleted"]
  BY DEF DeleteRequest
<1>6. /\ \A q \in Requests : q # call[t].rq => RequestSame(q)
      /\ \A q \in Requests : /\ request'[q].refs = request[q].refs /\ request'[q].owner = request[q].owner
                             /\ request'[q].active = request[q].active
                             /\ request'[q].destroying = request[q].destroying
                             /\ request'[q].destroyed = request[q].destroyed
      /\ request'[call[t].rq].native = "deleted"
  BY <1>2, <1>5 DEF IInv, RequestTypes, RequestRecord, RequestSame
<1>7. UNCHANGED <<g_next_handle, g_runtimes, g_requests, runtime>>
  BY DEF DeleteRequest, registries
<1>8. RequestTypes'
  BY <1>2, <1>5 DEF IInv, RequestTypes, RequestRecord
<1>9. RegistryTypes' /\ RuntimeTypes'
  BY <1>7 DEF IInv, RegistryTypes, RuntimeTypes
<1>10. \A u \in Threads : LeasesSame(u) /\ OwnsSame(u)
  BY <1>1, <1>4 DEF LeasesSame, OwnsSame, Elsewhere, Leases, Uses, Submitted, Owns, Walks
<1>11. ShapeInv'
  BY <1>1, <1>2, <1>3, <1>4, Basics DEF IInv, ShapeInv, Shape, Submitted, Walks, OwnsSame,
     LeasesSame, RequestSame
<1>12. MutexInv'
  BY <1>1, <1>4, <1>7, Basics DEF IInv, MutexInv, Locked, Walks, Elsewhere
<1>13. LesseeInv'
  BY <1>4, <1>7, <1>10, SameLessees DEF LeasesSame, Walks
<1>14. UserInv'
  BY <1>4, <1>6, <1>10, SameUsers DEF LeasesSame, Walks
<1>15. HandleInv'
  BY <1>4, <1>6, <1>7 DEF IInv, HandleInv, Walks
<1>16. RuntimeInv'
  BY <1>1, <1>2, <1>3, <1>4, <1>6, <1>7, <1>10, Basics DEF IInv, RuntimeInv, Published, Creates,
     Walks, Elsewhere, OwnsSame, LeasesSame, RequestSame
<1>17. CloseInv'
  BY <1>1, <1>2, <1>3, <1>4, <1>6, <1>7, <1>10, Basics DEF IInv, CloseInv, Closing, Closes, Walks,
     Elsewhere, OwnsSame, LeasesSame, RequestSame
<1>18. LeaseInv'
  BY <1>1, <1>2, <1>3, <1>4, <1>6, <1>7, <1>10, Basics DEF IInv, LeaseInv, Walks, Elsewhere,
     OwnsSame, LeasesSame, RequestSame
<1>19. RequestInv'
  BY <1>1, <1>2, <1>3, <1>4, <1>6, <1>7, <1>10, Basics DEF IInv, RequestInv, Life, Published,
     Creates, Walks, Elsewhere, OwnsSame, LeasesSame, RequestSame
<1>20. RegisteredInv'
  BY <1>6, <1>7, <1>10, <1>3, Subjects DEF IInv, RegisteredInv, Registered, OwnsSame, RequestSame
<1>21. OwnerInv'
  BY <1>4, <1>6, <1>7, <1>10, Subjects DEF IInv, OwnerInv, Walks, OwnsSame, LeasesSame, RequestSame
<1>22. SubjectInv'
  BY <1>1, <1>2, <1>3, <1>4, <1>6, <1>7, <1>10, Subjects DEF IInv, SubjectInv, Walks, OwnsSame,
     LeasesSame, RequestSame
<1>23. DeletingInv'
  BY <1>1, <1>2, <1>3, <1>4, <1>6, <1>7, <1>10, Subjects DEF IInv, DeletingInv, Walks, OwnsSame,
     LeasesSame, RequestSame
<1>24. NothingLeftBehind'
  BY <1>6, <1>7, Basics DEF IInv, NothingLeftBehind, Walks, OwnsSame, LeasesSame, RequestSame
<1> QED
  BY <1>4, <1>8, <1>9, <1>11, <1>12, <1>13, <1>14, <1>15, <1>16, <1>17, <1>18, <1>19, <1>20, <1>21,
     <1>22, <1>23, <1>24 DEF IInv

(* Then its buffers go, and it is destroyed.                                       *)
LEMMA DeleteRequestRefsKeeps ==
  ASSUME IInv, NEW t \in Threads, DeleteRequestRefs(t)
  PROVE  IInv'
<1>1. call[t].op \in {"submit", "destroy", "close"} /\ call[t].at = "delete_refs"
  BY DEF DeleteRequestRefs, At
<1>2. /\ call[t].rq \in Requests /\ Owns(call[t], call[t].rq)
      /\ request[call[t].rq].native = "deleted" /\ call[t].rq \notin call[t].todo
  BY <1>1, Subjects DEF IInv, Owns, DeletingInv
<1>3. /\ \A u \in Threads : u # t /\ (call[u].at \in Deleting \/ Submitted(call[u])) => call[u].rq # call[t].rq
      /\ \A h \in DOMAIN g_requests : g_requests[h] # call[t].rq
  BY <1>2, OwnsAlone
<1>4. Walks(t, "destroy") /\ CallTypes'
  BY GotoWalks DEF IInv, DeleteRequestRefs, Points
<1>5. request' = [request EXCEPT ![call[t].rq] = [request[call[t].rq] EXCEPT
                         !.refs = FALSE, !.destroyed = TRUE, !.destroying = FALSE]]
  BY DEF DeleteRequestRefs
<1>6. request[call[t].rq] \in RequestRecord /\ call[t].rt \in Runtimes
  BY <1>1, <1>2, Basics DEF IInv, RequestTypes
<1>7. [request[call[t].rq] EXCEPT !.refs = FALSE, !.destroyed = TRUE, !.destroying = FALSE]
        \in RequestRecord
  BY <1>2, <1>6, WrittenRequests
<1>8. /\ \A q \in Requests : q # call[t].rq => RequestSame(q)
      /\ \A q \in Requests : /\ request'[q].native = request[q].native /\ request'[q].owner = request[q].owner
                             /\ request'[q].active = request[q].active
      /\ ~request'[call[t].rq].refs /\ request'[call[t].rq].destroyed /\ ~request'[call[t].rq].destroying
  BY <1>2, <1>5 DEF IInv, RequestTypes, RequestRecord, RequestSame
<1>9. UNCHANGED <<g_next_handle, g_runtimes, g_requests, runtime>>
  BY DEF DeleteRequestRefs, registries
<1>10. RequestTypes'
  BY <1>2, <1>5, <1>7 DEF IInv, RequestTypes
<1>11. RegistryTypes' /\ RuntimeTypes'
  BY <1>9 DEF IInv, RegistryTypes, RuntimeTypes
<1>12. /\ ~Submitted(call[t]) /\ ~Submitted(call[t])' /\ call'[t].at \notin Deleting
       /\ \A q \in Requests : Owns(call[t], q)' <=> q # call[t].rq /\ Owns(call[t], q)
  BY <1>1, <1>2, <1>4 DEF Submitted, Walks, Owns
<1>13. \A u \in Threads : LeasesSame(u) /\ (u # t => OwnsSame(u))
  BY <1>1, <1>4 DEF LeasesSame, OwnsSame, Elsewhere, Leases, Uses, Submitted, Owns, Walks
<1>14. ShapeInv'
  BY <1>1, <1>4 DEF IInv, ShapeInv, Shape, Submitted, Walks
<1>15. MutexInv'
  BY <1>1, <1>4, <1>9, Basics DEF IInv, MutexInv, Locked, Walks, Elsewhere
<1>16. LesseeInv'
  BY <1>4, <1>9, <1>13, SameLessees DEF LeasesSame, Walks
<1>17. UserInv'
  BY <1>4, <1>8, <1>13, SameUsers DEF LeasesSame, Walks
<1>18. HandleInv'
  BY <1>4, <1>8, <1>9, <1>12 DEF IInv, HandleInv, Walks, OwnsSame, LeasesSame, RequestSame
<1>19. RuntimeInv'
  BY <1>1, <1>2, <1>3, <1>4, <1>8, <1>9, <1>12, <1>13, Basics DEF IInv, RuntimeInv, Published,
     Creates, Walks, Elsewhere, OwnsSame, LeasesSame, RequestSame
<1>20. CloseInv'
  BY <1>1, <1>2, <1>3, <1>4, <1>8, <1>9, <1>12, <1>13, Basics DEF IInv, CloseInv, Closing, Closes,
     Walks, Elsewhere, OwnsSame, LeasesSame, RequestSame
<1>21. LeaseInv'
  BY <1>1, <1>2, <1>3, <1>4, <1>8, <1>9, <1>12, <1>13, Basics DEF IInv, LeaseInv, Walks, Elsewhere,
     OwnsSame, LeasesSame, RequestSame
<1>22. RequestInv'
  BY <1>1, <1>2, <1>3, <1>4, <1>8, <1>9, <1>12, <1>13, Basics DEF IInv, RequestInv, Life, Published,
     Creates, Walks, Elsewhere, OwnsSame, LeasesSame, RequestSame
<1>23. RegisteredInv'
  BY <1>8, <1>9, <1>12, <1>13, <1>3, Subjects DEF IInv, RegisteredInv, Registered, OwnsSame,
     RequestSame
<1>24. OwnerInv'
  BY <1>4, <1>8, <1>9, <1>12, <1>13, Subjects DEF IInv, OwnerInv, Walks, OwnsSame, LeasesSame,
     RequestSame
<1>25. SubjectInv'
  BY <1>4, <1>8, <1>9, <1>12, <1>13, Subjects DEF IInv, SubjectInv, Walks, OwnsSame, LeasesSame,
     RequestSame
<1>26. DeletingInv'
  BY <1>1, <1>2, <1>3, <1>4, <1>8, <1>9, <1>12, <1>13, Subjects DEF IInv, DeletingInv, Walks,
     OwnsSame, LeasesSame, RequestSame
<1>27. NothingLeftBehind'
  BY <1>8, <1>9, Basics DEF IInv, NothingLeftBehind, Walks, OwnsSame, LeasesSame, RequestSame
<1> QED
  BY <1>4, <1>10, <1>11, <1>14, <1>15, <1>16, <1>17, <1>18, <1>19, <1>20, <1>21, <1>22, <1>23,
     <1>24, <1>25, <1>26, <1>27 DEF IInv


(* The steps of NativeSubmit and DestroyNext for one request.                  *)
Makes(t, q) ==
  /\ At(t, {"submit"}, "native") /\ request[q].native = "none"
  /\ request' = [request EXCEPT ![q].native = "open", ![q].refs = TRUE, ![q].owner = call[t].rt]
  /\ call' = [call EXCEPT ![t].at = "token", ![t].rq = q]
  /\ UNCHANGED <<registries, runtime>>
PassesOver(t, q) ==
  /\ At(t, {"submit", "destroy", "close"}, "destroy") /\ q \in call[t].todo
  /\ request[q].destroying \/ request[q].destroyed
  /\ call' = [call EXCEPT ![t].todo = @ \ {q}]
  /\ UNCHANGED <<registries, runtime, request>>
Destroys(t, q) ==
  /\ At(t, {"submit", "destroy", "close"}, "destroy") /\ q \in call[t].todo
  /\ ~request[q].destroying /\ ~request[q].destroyed
  /\ request' = [request EXCEPT ![q].destroying = TRUE]
  /\ call' = [call EXCEPT ![t].at = "drain_request", ![t].rq = q, ![t].todo = @ \ {q}]
  /\ UNCHANGED <<registries, runtime>>


(* The lease keeps the runtime live while a request of it is made.                  *)
LEMMA NativeSubmitKeeps ==
  ASSUME IInv, NEW t \in Threads, NEW q \in Requests, Makes(t, q)
  PROVE  IInv'
<1>1. /\ call[t].op = "submit" /\ call[t].at = "native" /\ Leases(call[t]) /\ Locked(call[t])
      /\ request[q].native = "none"
  BY DEF Makes, At, Leases, Locked
<1>2. call[t].rt \in Runtimes /\ Published(call[t].rt) /\ runtime[call[t].rt].native = "live"
  BY <1>1, Basics DEF IInv, RuntimeInv, LeaseInv
<1>3. call[t].todo = {} /\ ~Submitted(call[t])
  BY <1>1 DEF IInv, ShapeInv, Shape, Submitted
<1>4. /\ ~request[q].destroying /\ ~request[q].destroyed /\ request[q].owner = NoObject
      /\ \A h \in DOMAIN g_requests : g_requests[h] # q
      /\ \A u \in Threads : /\ ~Owns(call[u], q) /\ call[u].rq # q /\ q \notin call[u].todo
  BY <1>1 DEF IInv, RequestInv, Life, RegisteredInv, OwnerInv, SubjectInv, Owns
<1>5. /\ Elsewhere(t)
      /\ \A u \in Threads : /\ call'[u].op = call[u].op /\ call'[u].handle = call[u].handle
                            /\ call'[u].rt = call[u].rt /\ call'[u].todo = call[u].todo
                            /\ u # t => call'[u].at = call[u].at /\ call'[u].rq = call[u].rq
      /\ call'[t].at = "token" /\ call'[t].rq = q
  BY DEF IInv, Makes, CallTypes, CallRecord, Elsewhere
<1>6. call' = [call EXCEPT ![t].at = "token", ![t].rq = q]
  BY DEF Makes
<1>7. "token" \in Points
  BY DEF Points
<1>8. CallTypes'
  BY <1>6, <1>7, ZenonT(30) DEF IInv, CallTypes, CallRecord
<1>9. request' = [request EXCEPT ![q] = [request[q] EXCEPT !.native = "open", !.refs = TRUE,
                                                          !.owner = call[t].rt]]
  BY DEF Makes
<1>10. [request[q] EXCEPT !.native = "open", !.refs = TRUE, !.owner = call[t].rt] \in RequestRecord
  BY <1>2, WrittenRequests DEF IInv, RequestTypes
<1>11. /\ \A x \in Requests : x # q => RequestSame(x)
       /\ \A x \in Requests : /\ request'[x].active = request[x].active
                              /\ request'[x].destroying = request[x].destroying
                              /\ request'[x].destroyed = request[x].destroyed
       /\ request'[q].native = "open" /\ request'[q].refs /\ request'[q].owner = call[t].rt
  BY <1>9 DEF IInv, RequestTypes, RequestRecord, RequestSame
<1>12. UNCHANGED <<g_next_handle, g_runtimes, g_requests, runtime>>
  BY DEF Makes, registries
<1>13. RequestTypes'
  BY <1>9, <1>10 DEF IInv, RequestTypes
<1>14. RegistryTypes' /\ RuntimeTypes'
  BY <1>12 DEF IInv, RegistryTypes, RuntimeTypes
<1>15. /\ Submitted(call[t])' /\ call[t].at \notin Deleting /\ call'[t].at \notin Deleting
       /\ \A x \in Requests : ~Owns(call[t], x) /\ (Owns(call[t], x)' <=> x = q)
  BY <1>1, <1>3, <1>5 DEF Submitted, Owns
<1>16. \A u \in Threads : LeasesSame(u) /\ (u # t => OwnsSame(u))
  BY <1>1, <1>5 DEF LeasesSame, OwnsSame, Elsewhere, Leases, Uses, Submitted, Owns
<1>17. ShapeInv'
  BY <1>1, <1>3, <1>5, <1>2 DEF IInv, ShapeInv, Shape, Submitted, Elsewhere
<1>18. MutexInv'
  BY <1>1, <1>5, <1>12, Basics DEF IInv, MutexInv, Locked
<1>19. LesseeInv'
  BY <1>5, <1>12, <1>16, SameLessees DEF LeasesSame
<1>20. UserInv'
  BY <1>1, <1>5, <1>11, <1>16, SameUsers DEF LeasesSame, Uses
<1>21. HandleInv'
  BY <1>4, <1>5, <1>11, <1>12, <1>15 DEF IInv, HandleInv, OwnsSame, LeasesSame, RequestSame
<1>22. RuntimeInv'
  BY <1>5, <1>11, <1>12, <1>15, <1>16, Basics DEF IInv, RuntimeInv, Published, Creates, OwnsSame,
     LeasesSame, RequestSame
<1>23. CloseInv'
  BY <1>1, <1>2, <1>3, <1>4, <1>5, <1>11, <1>12, <1>15, <1>16, Basics DEF IInv, CloseInv, Closing,
     Closes, OwnsSame, LeasesSame, RequestSame
<1>24. LeaseInv'
  BY <1>4, <1>5, <1>11, <1>12, <1>15, <1>16, Basics DEF IInv, LeaseInv, OwnsSame, LeasesSame,
     RequestSame
<1>25. RequestInv'
  BY <1>1, <1>2, <1>3, <1>4, <1>5, <1>11, <1>12, <1>15, <1>16, Basics DEF IInv, RequestInv, Life,
     Published, Creates, OwnsSame, LeasesSame, RequestSame
<1>26. RegisteredInv'
  BY <1>11, <1>12, <1>15, <1>16, <1>4, Subjects DEF IInv, RegisteredInv, Registered, OwnsSame,
     RequestSame
<1>27. OwnerInv'
  BY <1>4, <1>5, <1>11, <1>12, <1>15, <1>16, Subjects DEF IInv, OwnerInv, OwnsSame, LeasesSame,
     RequestSame
<1>28. SubjectInv'
  BY <1>4, <1>5, <1>11, <1>12, <1>15, <1>16, Subjects DEF IInv, SubjectInv, OwnsSame, LeasesSame,
     RequestSame
<1>29. DeletingInv'
  BY <1>4, <1>5, <1>11, Subjects DEF IInv, DeletingInv, OwnsSame, LeasesSame, RequestSame
<1>30. NothingLeftBehind'
  BY <1>2, <1>3, <1>4, <1>11, <1>12, Basics DEF IInv, NothingLeftBehind, OwnsSame, LeasesSame,
     RequestSame
<1> QED
  BY <1>5, <1>8, <1>13, <1>14, <1>17, <1>18, <1>19, <1>20, <1>21, <1>22, <1>23, <1>24, <1>25, <1>26,
     <1>27, <1>28, <1>29, <1>30 DEF IInv

(* A request that another call destroys, or has destroyed, is passed over.          *)
LEMMA PassedOverKeeps ==
  ASSUME IInv, NEW t \in Threads, NEW q, PassesOver(t, q)
  PROVE  IInv'
<1>1. call[t].op \in {"submit", "destroy", "close"} /\ call[t].at = "destroy"
  BY DEF PassesOver, At
<1>2. q \in Requests /\ Owns(call[t], q) /\ ~Submitted(call[t]) /\ Locked(call[t])
  BY <1>1, Basics DEF PassesOver, Owns, Submitted, Locked
<1>3. /\ Elsewhere(t)
      /\ \A u \in Threads : /\ call'[u].op = call[u].op /\ call'[u].at = call[u].at /\ call'[u].handle = call[u].handle
                            /\ call'[u].rt = call[u].rt /\ call'[u].rq = call[u].rq
                            /\ u # t => call'[u].todo = call[u].todo
      /\ call'[t].todo = call[t].todo \ {q}
  BY DEF IInv, PassesOver, CallTypes, CallRecord, Elsewhere
<1>4. CallTypes'
  BY DEF IInv, PassesOver, CallTypes, CallRecord
<1>5. UNCHANGED <<g_next_handle, g_runtimes, g_requests, runtime, request>>
  BY DEF PassesOver, registries
<1>6. RegistryTypes' /\ RuntimeTypes' /\ RequestTypes'
  BY <1>5 DEF IInv, RegistryTypes, RuntimeTypes, RequestTypes
<1>7. /\ ~Submitted(call[t])' /\ call[t].at \notin Deleting
      /\ \A x \in Requests : Owns(call[t], x)' <=> x # q /\ Owns(call[t], x)
  BY <1>1, <1>2, <1>3 DEF Submitted, Owns
<1>8. \A u \in Threads : LeasesSame(u) /\ (u # t => OwnsSame(u))
  BY <1>1, <1>3 DEF LeasesSame, OwnsSame, Elsewhere, Leases, Uses, Submitted, Owns
<1>9. request[q].refs => \E u \in Threads : u # t /\ Owns(call[u], q)
  BY <1>1, <1>2 DEF IInv, PassesOver, RequestInv, Life, Owns
<1>10. ShapeInv'
  BY <1>7, <1>3 DEF IInv, ShapeInv, Shape, Elsewhere, Submitted
<1>11. MutexInv'
  BY <1>1, <1>3, <1>5, Basics DEF IInv, MutexInv, Locked
<1>12. LesseeInv'
  BY <1>3, <1>5, <1>8, SameLessees DEF LeasesSame
<1>13. UserInv'
  BY <1>3, <1>5, <1>8, SameUsers DEF LeasesSame, Uses
<1>14. HandleInv'
  BY <1>3, <1>5 DEF IInv, HandleInv, OwnsSame, LeasesSame
<1>15. RuntimeInv'
  BY <1>1, <1>2, <1>3, <1>5, <1>7, <1>8, <1>9, Basics DEF IInv, RuntimeInv, Published, Creates,
     OwnsSame, LeasesSame
<1>16. CloseInv'
  BY <1>1, <1>2, <1>3, <1>5, <1>7, <1>8, <1>9, Basics DEF IInv, CloseInv, Closing, Closes, OwnsSame,
     LeasesSame
<1>17. LeaseInv'
  BY <1>1, <1>2, <1>3, <1>5, <1>7, <1>8, <1>9, Basics DEF IInv, LeaseInv, OwnsSame, LeasesSame
<1>18. RequestInv'
  BY <1>1, <1>2, <1>3, <1>5, <1>7, <1>8, <1>9, Basics DEF IInv, RequestInv, Life, Published,
     Creates, OwnsSame, LeasesSame
<1>19. RegisteredInv'
  BY <1>2, <1>5, <1>7, <1>8, <1>9, Subjects DEF IInv, RegisteredInv, Registered, OwnsSame
<1>20. OwnerInv'
  BY <1>1, <1>2, <1>3, <1>5, <1>7, <1>8, <1>9, Subjects DEF IInv, OwnerInv, OwnsSame, LeasesSame
<1>21. SubjectInv'
  BY <1>1, <1>2, <1>3, <1>5, <1>7, <1>8, <1>9, Subjects DEF IInv, SubjectInv, OwnsSame, LeasesSame
<1>22. DeletingInv'
  BY <1>1, <1>2, <1>3, <1>5, <1>7, <1>8, <1>9, Subjects DEF IInv, DeletingInv, OwnsSame, LeasesSame
<1>23. NothingLeftBehind'
  BY <1>2, <1>5, <1>9, Basics DEF IInv, NothingLeftBehind, OwnsSame, LeasesSame
<1> QED
  BY <1>3, <1>4, <1>6, <1>10, <1>11, <1>12, <1>13, <1>14, <1>15, <1>16, <1>17, <1>18, <1>19, <1>20,
     <1>21, <1>22, <1>23 DEF IInv

(* Otherwise this call destroys it, and nobody else owns it.                        *)
LEMMA DestroyingKeeps ==
  ASSUME IInv, NEW t \in Threads, NEW q, Destroys(t, q)
  PROVE  IInv'
<1>1. call[t].op \in {"submit", "destroy", "close"} /\ call[t].at = "destroy"
  BY DEF Destroys, At
<1>2. q \in Requests /\ Owns(call[t], q) /\ ~Submitted(call[t]) /\ Locked(call[t])
  BY <1>1, Basics DEF Destroys, Owns, Submitted, Locked
<1>3. /\ request[q].native \in {"open", "done"} /\ ~request[q].destroyed /\ request[q].owner = call[t].rt
  BY <1>2, Basics DEF IInv, Destroys, RequestInv, Life, OwnerInv
<1>4. /\ \A u \in Threads : u # t /\ (call[u].at \in Deleting \/ Submitted(call[u])) => call[u].rq # q
      /\ \A h \in DOMAIN g_requests : g_requests[h] # q
  BY <1>2, OwnsAlone
<1>5. /\ Elsewhere(t)
      /\ \A u \in Threads : /\ call'[u].op = call[u].op /\ call'[u].handle = call[u].handle
                            /\ call'[u].rt = call[u].rt
                            /\ u # t => /\ call'[u].at = call[u].at /\ call'[u].rq = call[u].rq
                                        /\ call'[u].todo = call[u].todo
      /\ call'[t].at = "drain_request" /\ call'[t].rq = q /\ call'[t].todo = call[t].todo \ {q}
  BY DEF IInv, Destroys, CallTypes, CallRecord, Elsewhere
<1>6. CallTypes'
  BY <1>2 DEF IInv, Destroys, CallTypes, CallRecord, Points
<1>7. /\ \A x \in Requests : x # q => RequestSame(x)
      /\ \A x \in Requests : /\ request'[x].active = request[x].active /\ request'[x].native = request[x].native
                             /\ request'[x].refs = request[x].refs /\ request'[x].owner = request[x].owner
                             /\ request'[x].destroyed = request[x].destroyed
      /\ request'[q].destroying
  BY <1>2 DEF Destroys, IInv, RequestTypes, RequestRecord, RequestSame
<1>8. UNCHANGED <<g_next_handle, g_runtimes, g_requests, runtime>>
  BY DEF Destroys, registries
<1>9. RequestTypes'
  BY <1>2, ZenonT(30) DEF IInv, Destroys, RequestTypes, RequestRecord
<1>10. RegistryTypes' /\ RuntimeTypes'
  BY <1>8 DEF IInv, RegistryTypes, RuntimeTypes
<1>11. /\ ~Submitted(call[t])' /\ call[t].at \notin Deleting /\ call'[t].at \in Deleting
       /\ \A x \in Requests : Owns(call[t], x)' <=> Owns(call[t], x)
  BY <1>1, <1>2, <1>5 DEF Submitted, Owns
<1>12. \A u \in Threads : LeasesSame(u) /\ (u # t => OwnsSame(u))
  BY <1>1, <1>5 DEF LeasesSame, OwnsSame, Elsewhere, Leases, Uses, Submitted, Owns
<1>13. ShapeInv'
  BY <1>1, <1>2, <1>11, <1>5 DEF IInv, ShapeInv, Shape, Elsewhere, Submitted
<1>14. MutexInv'
  BY <1>1, <1>5, <1>8, Basics DEF IInv, MutexInv, Locked
<1>15. LesseeInv'
  BY <1>5, <1>8, <1>12, SameLessees DEF LeasesSame
<1>16. UserInv'
  BY <1>1, <1>5, <1>7, <1>12, SameUsers DEF LeasesSame, Uses
<1>17. HandleInv'
  BY <1>4, <1>5, <1>7, <1>8, <1>11 DEF IInv, HandleInv, OwnsSame, LeasesSame, RequestSame
<1>18. RuntimeInv'
  BY <1>5, <1>7, <1>8, <1>11, <1>12, Basics DEF IInv, RuntimeInv, Published, Creates, OwnsSame,
     LeasesSame, RequestSame
<1>19. CloseInv'
  BY <1>1, <1>2, <1>3, <1>4, <1>5, <1>7, <1>8, <1>11, <1>12, Basics DEF IInv, CloseInv, Closing,
     Closes, OwnsSame, LeasesSame, RequestSame
<1>20. LeaseInv'
  BY <1>1, <1>2, <1>3, <1>4, <1>5, <1>7, <1>8, <1>11, <1>12, Basics DEF IInv, LeaseInv, OwnsSame,
     LeasesSame, RequestSame
<1>21. RequestInv'
  BY <1>1, <1>2, <1>3, <1>4, <1>5, <1>7, <1>8, <1>11, <1>12, Basics DEF IInv, RequestInv, Life,
     Published, Creates, OwnsSame, LeasesSame, RequestSame
<1>22. RegisteredInv'
  BY <1>7, <1>8, <1>11, <1>12, <1>4, Subjects DEF IInv, RegisteredInv, Registered, OwnsSame,
     RequestSame
<1>23. OwnerInv'
  BY <1>4, <1>5, <1>7, <1>8, <1>11, <1>12, Subjects DEF IInv, OwnerInv, OwnsSame, LeasesSame,
     RequestSame
<1>24. SubjectInv'
  BY <1>1, <1>2, <1>3, <1>4, <1>5, <1>7, <1>8, <1>11, <1>12, Subjects DEF IInv, SubjectInv,
     OwnsSame, LeasesSame, RequestSame
<1>25. DeletingInv'
  BY <1>1, <1>2, <1>3, <1>4, <1>5, <1>7, Subjects DEF IInv, DeletingInv, OwnsSame, LeasesSame,
     RequestSame
<1>26. NothingLeftBehind'
  BY <1>4, <1>7, <1>8, Basics DEF IInv, NothingLeftBehind, OwnsSame, LeasesSame, RequestSame
<1> QED
  BY <1>5, <1>6, <1>9, <1>10, <1>13, <1>14, <1>15, <1>16, <1>17, <1>18, <1>19, <1>20, <1>21, <1>22,
     <1>23, <1>24, <1>25, <1>26 DEF IInv

-----------------------------------------------------------------------------

(* A request leaves the registry for the call that will destroy it.                 *)
LEMMA EraseRequestKeeps ==
  ASSUME IInv, NEW t \in Threads, EraseRequest(t), call[t].handle \in DOMAIN g_requests
  PROVE  IInv'
<1>1. call[t].op = "destroy" /\ call[t].at = "erase" /\ Locked(call[t])
  BY DEF EraseRequest, At, Locked
<1>2. /\ call[t].rq \in Requests /\ call[t].todo = {} /\ ~Submitted(call[t])
      /\ g_requests[call[t].handle] = call[t].rq /\ request[call[t].rq].owner = call[t].rt
      /\ request[call[t].rq].native \in {"open", "done"}
  BY <1>1, Subjects DEF IInv, ShapeInv, Shape, HandleInv, SubjectInv, RegisteredInv, Submitted
<1>3. /\ DOMAIN g_requests' = DOMAIN g_requests \ {call[t].handle}
      /\ \A h \in DOMAIN g_requests' : g_requests'[h] = g_requests[h]
  BY DEF EraseRequest, Without, Restrict
<1>4. /\ \A h \in DOMAIN g_requests' : g_requests'[h] # call[t].rq
      /\ \A h \in DOMAIN g_requests : h \in DOMAIN g_requests' \/ g_requests[h] = call[t].rq
  BY <1>2, <1>3 DEF IInv, RegisteredInv
<1>5. call' = [call EXCEPT ![t].at = "destroy", ![t].todo = {call[t].rq}]
  BY DEF EraseRequest
<1>6. "destroy" \in Points
  BY DEF Points
<1>7. /\ Elsewhere(t)
      /\ \A u \in Threads : /\ call'[u].op = call[u].op /\ call'[u].handle = call[u].handle
                            /\ call'[u].rt = call[u].rt /\ call'[u].rq = call[u].rq
                            /\ u # t => call'[u].at = call[u].at /\ call'[u].todo = call[u].todo
      /\ call'[t].at = "destroy" /\ call'[t].todo = {call[t].rq}
  BY <1>5 DEF IInv, CallTypes, CallRecord, Elsewhere
<1>8. {call[t].rq} \in SUBSET Requests
  BY <1>2
<1>9. CallTypes'
  BY <1>8, <1>5, <1>6, WrittenCalls DEF IInv
<1>10. UNCHANGED <<g_next_handle, g_runtimes, runtime, request>>
  BY DEF EraseRequest
<1>11. RegistryTypes'
  BY <1>3, <1>10 DEF IInv, RegistryTypes
<1>12. RuntimeTypes' /\ RequestTypes'
  BY <1>10 DEF IInv, RuntimeTypes, RequestTypes
<1>13. /\ ~Submitted(call[t])' /\ call[t].at \notin Deleting /\ call'[t].at \notin Deleting
       /\ \A x \in Requests : ~Owns(call[t], x) /\ (Owns(call[t], x)' <=> x = call[t].rq)
  BY <1>1, <1>2, <1>7 DEF Submitted, Owns
<1>14. \A u \in Threads : LeasesSame(u) /\ (u # t => OwnsSame(u))
  BY <1>1, <1>7 DEF LeasesSame, OwnsSame, Elsewhere, Leases, Uses, Submitted, Owns
<1>15. ShapeInv'
  BY <1>1, <1>2, <1>13, <1>7 DEF IInv, ShapeInv, Shape, Elsewhere, Submitted
<1>16. MutexInv'
  BY <1>1, <1>7, <1>10, Basics DEF IInv, MutexInv, Locked
<1>17. LesseeInv'
  BY <1>7, <1>10, <1>14, SameLessees DEF LeasesSame
<1>18. UserInv'
  BY <1>7, <1>10, <1>14, SameUsers DEF LeasesSame, Uses
<1>19. HandleInv'
  BY <1>3, <1>4, <1>7, <1>10, <1>13 DEF IInv, HandleInv, OwnsSame, LeasesSame
<1>20. RuntimeInv'
  BY <1>4, <1>7, <1>10 DEF IInv, RuntimeInv, Published, Creates, OwnsSame
<1>21. CloseInv'
  BY <1>1, <1>2, <1>3, <1>4, <1>7, <1>10 DEF IInv, CloseInv, Closing, Closes, OwnsSame
<1>22. LeaseInv'
  BY <1>4, <1>7, <1>10, <1>13, <1>14, Basics DEF IInv, LeaseInv, OwnsSame, LeasesSame
<1>23. RequestInv'
  BY <1>7, <1>10, <1>13, <1>14, Basics DEF IInv, RequestInv, Life, Published, Creates, OwnsSame,
     LeasesSame
<1>24. RegisteredInv'
  BY <1>2, <1>3, <1>10, <1>13, <1>14, <1>4, Subjects DEF IInv, RegisteredInv, Registered, OwnsSame
<1>25. OwnerInv'
  BY <1>1, <1>2, <1>3, <1>4, <1>7, <1>10, <1>13, <1>14, Subjects DEF IInv, OwnerInv, OwnsSame,
     LeasesSame
<1>26. SubjectInv'
  BY <1>4, <1>7, <1>10, <1>13, <1>14, Subjects DEF IInv, SubjectInv, OwnsSame, LeasesSame
<1>27. DeletingInv'
  BY <1>4, <1>7, <1>10 DEF IInv, DeletingInv, OwnsSame
<1>28. NothingLeftBehind'
  BY <1>2, <1>3, <1>4, <1>10, Basics DEF IInv, NothingLeftBehind, OwnsSame, LeasesSame
<1> QED
  BY <1>7, <1>9, <1>11, <1>12, <1>15, <1>16, <1>17, <1>18, <1>19, <1>20, <1>21, <1>22, <1>23, <1>24,
     <1>25, <1>26, <1>27, <1>28 DEF IInv

(* A close takes all the registered requests of its runtime.                        *)
LEMMA CollectRequestsKeeps ==
  ASSUME IInv, NEW t \in Threads, CollectRequests(t)
  PROVE  IInv'
<1>1. call[t].op = "close" /\ call[t].at = "collect" /\ Locked(call[t])
  BY DEF CollectRequests, At, Locked
<1>2. call[t].rt \in Runtimes /\ call[t].todo = {} /\ ~Submitted(call[t])
  BY <1>1, Basics DEF IInv, ShapeInv, Shape, Submitted
<1> DEFINE owned == {h \in DOMAIN g_requests : request[g_requests[h]].owner = call[t].rt}
<1>3. /\ DOMAIN g_requests' = DOMAIN g_requests \ owned
      /\ \A h \in DOMAIN g_requests' : g_requests'[h] = g_requests[h]
  BY DEF CollectRequests, Without, Restrict
<1>4. call' = [call EXCEPT ![t].at = "destroy", ![t].todo = {g_requests[h] : h \in owned}]
  BY DEF CollectRequests
<1>5. "destroy" \in Points
  BY DEF Points
<1>6. /\ Elsewhere(t)
      /\ \A u \in Threads : /\ call'[u].op = call[u].op /\ call'[u].handle = call[u].handle
                            /\ call'[u].rt = call[u].rt /\ call'[u].rq = call[u].rq
                            /\ u # t => call'[u].at = call[u].at /\ call'[u].todo = call[u].todo
      /\ call'[t].at = "destroy" /\ call'[t].todo = {g_requests[h] : h \in owned}
  BY <1>4 DEF IInv, CallTypes, CallRecord, Elsewhere
<1>7. /\ \A x \in call'[t].todo : /\ x \in Requests /\ request[x].owner = call[t].rt
                                  /\ request[x].native # "none"
                                  /\ \A h \in DOMAIN g_requests' : g_requests'[h] # x
      /\ \A h \in DOMAIN g_requests : h \in DOMAIN g_requests' \/ g_requests[h] \in call'[t].todo
      /\ \A h \in DOMAIN g_requests' : request[g_requests'[h]].owner # call[t].rt
  BY <1>3, <1>6, Subjects DEF IInv, RegisteredInv
<1>8. {g_requests[h] : h \in owned} \in SUBSET Requests
  BY Subjects
<1>9. CallTypes'
  BY <1>8, <1>4, <1>5, WrittenCalls DEF IInv
<1>10. UNCHANGED <<g_next_handle, g_runtimes, runtime, request>>
  BY DEF CollectRequests
<1>11. RegistryTypes'
  BY <1>3, <1>10 DEF IInv, RegistryTypes
<1>12. RuntimeTypes' /\ RequestTypes'
  BY <1>10 DEF IInv, RuntimeTypes, RequestTypes
<1>13. /\ ~Submitted(call[t])' /\ call[t].at \notin Deleting /\ call'[t].at \notin Deleting
       /\ \A x \in Requests : ~Owns(call[t], x) /\ (Owns(call[t], x)' <=> x \in call'[t].todo)
  BY <1>1, <1>2, <1>6 DEF Submitted, Owns
<1>14. \A u \in Threads : LeasesSame(u) /\ (u # t => OwnsSame(u))
  BY <1>1, <1>6 DEF LeasesSame, OwnsSame, Elsewhere, Leases, Uses, Submitted, Owns
<1> HIDE DEF owned
<1>15. ShapeInv'
  BY <1>1, <1>2, <1>13, <1>6 DEF IInv, ShapeInv, Shape, Elsewhere, Submitted
<1>16. MutexInv'
  BY <1>1, <1>6, <1>10, Basics DEF IInv, MutexInv, Locked
<1>17. LesseeInv'
  BY <1>6, <1>10, <1>14, SameLessees DEF LeasesSame
<1>18. UserInv'
  BY <1>6, <1>10, <1>14, SameUsers DEF LeasesSame, Uses
<1>19. HandleInv'
  BY <1>3, <1>6, <1>7, <1>10, <1>13 DEF IInv, HandleInv, OwnsSame, LeasesSame
<1>20. RuntimeInv'
  BY <1>6, <1>7, <1>10 DEF IInv, RuntimeInv, Published, Creates, OwnsSame
<1>21. CloseInv'
  BY <1>1, <1>2, <1>3, <1>6, <1>7, <1>10 DEF IInv, CloseInv, Closing, Closes, OwnsSame
<1>22. LeaseInv'
  BY <1>6, <1>7, <1>10, <1>13, <1>14, Basics DEF IInv, LeaseInv, OwnsSame, LeasesSame
<1>23. RequestInv'
  BY <1>1, <1>2, <1>3, <1>6, <1>7, <1>10, <1>13, <1>14, Basics DEF IInv, RequestInv, Life,
     Published, Creates, OwnsSame, LeasesSame
<1>24. RegisteredInv'
  BY <1>2, <1>3, <1>10, <1>13, <1>14, <1>7, Subjects DEF IInv, RegisteredInv, Registered, OwnsSame
<1>25. OwnerInv'
  BY <1>1, <1>2, <1>3, <1>6, <1>7, <1>10, <1>13, <1>14, Subjects DEF IInv, OwnerInv, OwnsSame,
     LeasesSame
<1>26. SubjectInv'
  BY <1>6, <1>7, <1>10, <1>13, <1>14, Subjects DEF IInv, SubjectInv, OwnsSame, LeasesSame
<1>27. DeletingInv'
  BY <1>6, <1>7, <1>10 DEF IInv, DeletingInv, OwnsSame
<1>28. NothingLeftBehind'
  BY <1>2, <1>3, <1>7, <1>10, Basics DEF IInv, NothingLeftBehind, OwnsSame, LeasesSame
<1> QED
  BY <1>6, <1>9, <1>11, <1>12, <1>15, <1>16, <1>17, <1>18, <1>19, <1>20, <1>21, <1>22, <1>23, <1>24,
     <1>25, <1>26, <1>27, <1>28 DEF IInv

(* The handle of a runtime goes with its close: there is only one.                  *)
LEMMA BeginCloseKeeps ==
  ASSUME IInv, NEW t \in Threads, NEW h \in Handles, BeginClose(t, h)
  PROVE  IInv'
<1>1. h \in DOMAIN g_runtimes /\ call[t] = Idle
  BY DEF BeginClose
<1>2. /\ g_runtimes[h] \in Runtimes /\ Published(g_runtimes[h]) /\ ~runtime[g_runtimes[h]].closing
      /\ runtime[g_runtimes[h]].native = "live"
  BY <1>1, Basics DEF IInv, RuntimeInv, Published
<1>3. "close" \in Ops /\ "lock" \in Points /\ h \in 0..kHandleMax
  BY DEF Ops, Points, Handles
<1>4. Begins(t, "close", "lock", h, g_runtimes[h], NoObject) /\ CallTypes'
  BY <1>1, <1>2, <1>3, BeginBegins DEF IInv, BeginClose
<1>5. /\ DOMAIN g_runtimes' = DOMAIN g_runtimes \ {h}
      /\ \A k \in DOMAIN g_runtimes' : g_runtimes'[k] = g_runtimes[k]
  BY DEF BeginClose, Without, Restrict
<1>6. /\ \A k \in DOMAIN g_runtimes' : g_runtimes'[k] # g_runtimes[h]
      /\ \A u \in Threads : ~Closes(u, g_runtimes[h])
  BY <1>1, <1>5 DEF IInv, RuntimeInv, CloseInv, Closing, Closes
<1>7. UNCHANGED <<g_next_handle, g_requests, runtime, request>>
  BY DEF BeginClose
<1>8. RegistryTypes'
  BY <1>5, <1>7 DEF IInv, RegistryTypes
<1>9. RuntimeTypes' /\ RequestTypes'
  BY <1>7 DEF IInv, RuntimeTypes, RequestTypes
<1>10. HoldsNothing(t) /\ HoldsNothing(t)'
  BY <1>4 DEF HoldsNothing, Begins, Leases, Uses, Locked, Submitted, Owns
<1>11. \A u \in Threads : LeasesSame(u) /\ OwnsSame(u)
  BY <1>10, <1>4 DEF HoldsNothing, Begins, LeasesSame, OwnsSame, Elsewhere, Leases, Uses, Submitted,
     Owns
<1>12. ShapeInv'
  BY <1>2, <1>4 DEF IInv, ShapeInv, Shape, Elsewhere, Submitted, Begins
<1>13. MutexInv'
  BY <1>4, <1>7, <1>10, Basics DEF IInv, MutexInv, HoldsNothing, Begins, Elsewhere
<1>14. LesseeInv'
  BY <1>4, <1>7, <1>10, SameLessees DEF HoldsNothing, Begins
<1>15. UserInv'
  BY <1>4, <1>7, <1>10, SameUsers DEF HoldsNothing, Begins
<1>16. HandleInv'
  BY <1>1, <1>2, <1>4, <1>5, <1>6, <1>7, <1>10 DEF IInv, HandleInv, Begins, Elsewhere, OwnsSame,
     LeasesSame, HoldsNothing
<1>17. RuntimeInv'
  BY <1>1, <1>2, <1>4, <1>5, <1>6, <1>7, <1>10, <1>11, Basics DEF IInv, RuntimeInv, Published,
     Creates, Begins, Elsewhere, OwnsSame, LeasesSame, HoldsNothing
<1>18. CloseInv'
  BY <1>1, <1>2, <1>4, <1>5, <1>6, <1>7, <1>10, <1>11, Basics DEF IInv, CloseInv, Closing, Closes,
     Begins, Elsewhere, OwnsSame, LeasesSame, HoldsNothing
<1>19. LeaseInv'
  BY <1>1, <1>2, <1>4, <1>5, <1>6, <1>7, <1>10, <1>11, Basics DEF IInv, LeaseInv, Begins, Elsewhere,
     OwnsSame, LeasesSame, HoldsNothing
<1>20. RequestInv'
  BY <1>1, <1>2, <1>4, <1>5, <1>6, <1>7, <1>10, <1>11, Basics DEF IInv, RequestInv, Life, Published,
     Creates, Begins, Elsewhere, OwnsSame, LeasesSame, HoldsNothing
<1>21. RegisteredInv'
  BY <1>5, <1>7, <1>11, Subjects DEF IInv, RegisteredInv, Registered, Begins, Elsewhere, OwnsSame,
     LeasesSame, HoldsNothing
<1>22. OwnerInv'
  BY <1>1, <1>2, <1>4, <1>5, <1>6, <1>7, <1>10, <1>11, Subjects DEF IInv, OwnerInv, Begins,
     Elsewhere, OwnsSame, LeasesSame, HoldsNothing
<1>23. SubjectInv'
  BY <1>1, <1>2, <1>4, <1>5, <1>6, <1>7, <1>10, <1>11, Subjects DEF IInv, SubjectInv, Begins,
     Elsewhere, OwnsSame, LeasesSame, HoldsNothing
<1>24. DeletingInv'
  BY <1>1, <1>2, <1>4, <1>5, <1>6, <1>7, <1>10, <1>11, Subjects DEF IInv, DeletingInv, Begins,
     Elsewhere, OwnsSame, LeasesSame, HoldsNothing
<1>25. NothingLeftBehind'
  BY <1>2, <1>5, <1>6, <1>7, <1>10, Basics DEF IInv, NothingLeftBehind, Begins, Elsewhere, OwnsSame,
     LeasesSame, HoldsNothing
<1> QED
  BY <1>4, <1>8, <1>9, <1>12, <1>13, <1>14, <1>15, <1>16, <1>17, <1>18, <1>19, <1>20, <1>21, <1>22,
     <1>23, <1>24, <1>25 DEF IInv

-----------------------------------------------------------------------------
(* The step of Create for one runtime.                                        *)
Creating(t, r) ==
  /\ call[t] = Idle /\ runtime[r].native = "none"
  /\ runtime' = [runtime EXCEPT ![r].native = "live", ![r].refs = TRUE]
  /\ Begin(t, "create", "token", 0, r, NoObject)
  /\ UNCHANGED <<registries, request>>

(* A new runtime is known to its creator only.                                     *)
LEMMA CreatingKeeps ==
  ASSUME IInv, NEW t \in Threads, NEW r \in Runtimes, Creating(t, r)
  PROVE  IInv'
<1>1. call[t] = Idle /\ runtime[r].native = "none"
  BY DEF Creating
<1>2. "create" \in Ops /\ "token" \in Points /\ 0 \in 0..kHandleMax
  BY DEF Ops, Points
<1>3. Begins(t, "create", "token", 0, r, NoObject) /\ CallTypes'
  BY <1>1, <1>2, BeginBegins DEF IInv, Creating
<1>4. runtime' = [runtime EXCEPT ![r].native = "live", ![r].refs = TRUE]
  BY DEF Creating
<1>5. /\ \A s \in Runtimes : /\ s # r => RuntimeSame(s) /\ runtime'[s].closing = runtime[s].closing
                             /\ runtime'[s].active = runtime[s].active
                             /\ runtime'[s].lifecycle = runtime[s].lifecycle
      /\ runtime'[r].native = "live" /\ runtime'[r].refs
  BY <1>4 DEF IInv, RuntimeTypes, RuntimeRecord, RuntimeSame
<1>6. \A s \in Runtimes : runtime'[s].closing = runtime[s].closing
  BY <1>4 DEF IInv, RuntimeTypes, RuntimeRecord
<1>7. /\ \A h \in DOMAIN g_runtimes : g_runtimes[h] # r
      /\ \A u \in Threads : call[u].op \in RuntimeOps \cup {"create"} \/ Leases(call[u]) \/ Locked(call[u])
                              => call[u].rt # r
      /\ \A q \in Requests : request[q].native # "none" => request[q].owner # r
      /\ \A q \in Requests : request[q].native = "none" => request[q].owner = NoObject
  BY <1>1 DEF IInv, RuntimeInv, Published, RequestInv, Life, Leases, Locked
<1>8. ~runtime[r].closing
  BY <1>1 DEF IInv, RuntimeInv
<1>9. UNCHANGED <<g_next_handle, g_runtimes, g_requests, request>>
  BY DEF Creating, registries
<1>10. RuntimeTypes'
  BY <1>4, ZenonT(30) DEF IInv, RuntimeTypes, RuntimeRecord
<1>11. RegistryTypes' /\ RequestTypes'
  BY <1>9 DEF IInv, RegistryTypes, RequestTypes
<1>12. HoldsNothing(t) /\ HoldsNothing(t)'
  BY <1>3 DEF HoldsNothing, Begins, Leases, Uses, Locked, Submitted, Owns
<1>13. \A u \in Threads : LeasesSame(u) /\ OwnsSame(u)
  BY <1>12, <1>3 DEF HoldsNothing, Begins, LeasesSame, OwnsSame, Elsewhere, Leases, Uses, Submitted,
     Owns
<1>14. ShapeInv'
  BY <1>3 DEF IInv, ShapeInv, Shape, Elsewhere, Submitted, Begins
<1>15. MutexInv'
  BY <1>3, <1>5, <1>12, Basics DEF IInv, MutexInv, HoldsNothing, Begins, Elsewhere
<1>16. LesseeInv'
  BY <1>3, <1>5, <1>12, SameLessees DEF HoldsNothing, Begins
<1>17. UserInv'
  BY <1>3, <1>9, <1>12, SameUsers DEF HoldsNothing, Begins
<1>18. HandleInv'
  BY <1>3, <1>9 DEF IInv, HandleInv, RegistryTypes, Handles, Begins, Elsewhere
<1>19. RuntimeInv'
  BY <1>1, <1>3, <1>5, <1>6, <1>7, <1>8, <1>9, <1>12, <1>13, Basics DEF IInv, RuntimeInv, Published,
     Creates, Begins, Elsewhere, OwnsSame, LeasesSame, HoldsNothing, RuntimeSame
<1>20. CloseInv'
  BY <1>1, <1>3, <1>5, <1>6, <1>7, <1>8, <1>9, <1>12, <1>13, Basics DEF IInv, CloseInv, Closing,
     Closes, Begins, Elsewhere, OwnsSame, LeasesSame, HoldsNothing, RuntimeSame
<1>21. LeaseInv'
  BY <1>1, <1>3, <1>5, <1>6, <1>7, <1>8, <1>9, <1>12, <1>13, Basics DEF IInv, LeaseInv, Begins,
     Elsewhere, OwnsSame, LeasesSame, HoldsNothing, RuntimeSame
<1>22. RequestInv'
  BY <1>1, <1>3, <1>5, <1>6, <1>7, <1>8, <1>9, <1>12, <1>13, Basics DEF IInv, RequestInv, Life,
     Published, Creates, Begins, Elsewhere, OwnsSame, LeasesSame, HoldsNothing, RuntimeSame
<1>23. RegisteredInv'
  BY <1>9, <1>13, Subjects DEF IInv, RegisteredInv, Registered, Begins, Elsewhere, OwnsSame
<1>24. OwnerInv'
  BY <1>1, <1>3, <1>6, <1>7, <1>8, <1>9, <1>12, <1>13, Subjects DEF IInv, OwnerInv, Begins,
     Elsewhere, OwnsSame, LeasesSame, HoldsNothing, RuntimeSame
<1>25. SubjectInv'
  BY <1>1, <1>3, <1>6, <1>7, <1>8, <1>9, <1>12, <1>13, Subjects DEF IInv, SubjectInv, Begins,
     Elsewhere, OwnsSame, LeasesSame, HoldsNothing, RuntimeSame
<1>26. DeletingInv'
  BY <1>1, <1>3, <1>6, <1>7, <1>8, <1>9, <1>12, <1>13, Subjects DEF IInv, DeletingInv, Begins,
     Elsewhere, OwnsSame, LeasesSame, HoldsNothing, RuntimeSame
<1>27. NothingLeftBehind'
  BY <1>5, <1>6, <1>7, <1>8, <1>9, <1>12, Basics DEF IInv, NothingLeftBehind, Begins, Elsewhere,
     OwnsSame, LeasesSame, HoldsNothing, RuntimeSame
<1> QED
  BY <1>3, <1>10, <1>11, <1>14, <1>15, <1>16, <1>17, <1>18, <1>19, <1>20, <1>21, <1>22, <1>23,
     <1>24, <1>25, <1>26, <1>27 DEF IInv

(* The next number is larger than all that were taken.                             *)
LEMMA TakeHandleKeeps ==
  ASSUME IInv, NEW t \in Threads, TakeHandle(t), g_next_handle < kHandleMax
  PROVE  IInv'
<1>1. call[t].op \in {"create", "submit"} /\ call[t].at = "token"
  BY DEF TakeHandle, At
<1>2. call[t].todo = {}
  BY <1>1 DEF IInv, ShapeInv, Shape
<1>3. call' = [call EXCEPT ![t].at = "register", ![t].handle = g_next_handle]
  BY DEF TakeHandle
<1>4. g_next_handle \in Int /\ g_next_handle \in Handles /\ g_next_handle' = g_next_handle + 1
  BY DEF TakeHandle, IInv, RegistryTypes, Handles
<1>5. /\ Elsewhere(t)
      /\ \A u \in Threads : /\ call'[u].op = call[u].op /\ call'[u].rt = call[u].rt /\ call'[u].rq = call[u].rq
                            /\ call'[u].todo = call[u].todo
                            /\ u # t => call'[u].at = call[u].at /\ call'[u].handle = call[u].handle
      /\ call'[t].at = "register" /\ call'[t].handle = g_next_handle
  BY <1>3 DEF IInv, CallTypes, CallRecord, Elsewhere
<1>6. "register" \in Points /\ g_next_handle \in 0..kHandleMax
  BY <1>4 DEF Points, Handles
<1>7. CallTypes'
  BY <1>3, <1>6, ZenonT(30) DEF IInv, CallTypes, CallRecord
<1>8. UNCHANGED <<g_runtimes, g_requests, runtime, request>>
  BY DEF TakeHandle
<1>9. RegistryTypes'
  BY <1>4, <1>8 DEF IInv, RegistryTypes, Handles
<1>10. RuntimeTypes' /\ RequestTypes'
  BY <1>8 DEF IInv, RuntimeTypes, RequestTypes
<1>11. \A u \in Threads : LeasesSame(u) /\ OwnsSame(u)
  BY <1>1, <1>5 DEF LeasesSame, OwnsSame, Elsewhere, Leases, Uses, Submitted, Owns
<1>12. ShapeInv'
  BY <1>1, <1>2, <1>5 DEF IInv, ShapeInv, Shape, Elsewhere, Submitted
<1>13. MutexInv'
  BY <1>1, <1>5, <1>8, Basics DEF IInv, MutexInv, Locked
<1>14. LesseeInv'
  BY <1>5, <1>8, <1>11, SameLessees DEF LeasesSame
<1>15. UserInv'
  BY <1>5, <1>8, <1>11, SameUsers DEF LeasesSame, Uses
<1>16. HandleInv'
  BY <1>1, <1>5, <1>4, <1>8, Basics DEF IInv, HandleInv, Handles
<1>17. RuntimeInv'
  BY <1>5, <1>8, <1>11, Basics DEF IInv, RuntimeInv, Published, Creates, OwnsSame, LeasesSame
<1>18. CloseInv'
  BY <1>1, <1>2, <1>4, <1>5, <1>8, <1>11, Basics DEF IInv, CloseInv, Closing, Closes, OwnsSame,
     LeasesSame
<1>19. LeaseInv'
  BY <1>4, <1>5, <1>8, <1>11, Basics DEF IInv, LeaseInv, OwnsSame, LeasesSame
<1>20. RequestInv'
  BY <1>5, <1>8, <1>11, Basics DEF IInv, RequestInv, Life, Published, Creates, OwnsSame, LeasesSame
<1>21. RegisteredInv'
  BY <1>4, <1>8, <1>11, Subjects DEF IInv, RegisteredInv, Registered, OwnsSame, LeasesSame
<1>22. OwnerInv'
  BY <1>4, <1>5, <1>8, <1>11, Subjects DEF IInv, OwnerInv, OwnsSame, LeasesSame
<1>23. SubjectInv'
  BY <1>4, <1>5, <1>8, <1>11, Subjects DEF IInv, SubjectInv, OwnsSame, LeasesSame
<1>24. DeletingInv'
  BY <1>4, <1>5, <1>8, <1>11, Subjects DEF IInv, DeletingInv, OwnsSame, LeasesSame
<1>25. NothingLeftBehind'
  BY <1>2, <1>4, <1>8, Basics DEF IInv, NothingLeftBehind, OwnsSame, LeasesSame
<1> QED
  BY <1>5, <1>7, <1>9, <1>10, <1>12, <1>13, <1>14, <1>15, <1>16, <1>17, <1>18, <1>19, <1>20, <1>21,
     <1>22, <1>23, <1>24, <1>25 DEF IInv

(* Without a number the new runtime is destroyed, as nobody else knows it.          *)
LEMMA NoHandleCreateKeeps ==
  ASSUME IInv, NEW t \in Threads, TakeHandle(t), g_next_handle = kHandleMax, call[t].op = "create"
  PROVE  IInv'
<1>1. call[t].op = "create" /\ call[t].at = "token"
  BY DEF TakeHandle, At
<1>2. call[t].todo = {} /\ call[t].rt \in Runtimes
  BY <1>1 DEF IInv, ShapeInv, Shape
<1>3. \A s \in {g_next_handle} : ~(s < kHandleMax)
  BY DEF IInv, RegistryTypes
<1>4. runtime' = [runtime EXCEPT ![call[t].rt].native = "destroyed", ![call[t].rt].refs = FALSE]
  BY <1>1, <1>3 DEF TakeHandle
<1>5. Ends(t) /\ CallTypes'
  BY <1>1, <1>3, ReturnEnds DEF IInv, TakeHandle
<1>6. \A s \in Runtimes : s # call[t].rt => runtime'[s] = runtime[s]
  BY <1>2, <1>4 DEF IInv, RuntimeTypes
<1>7. /\ runtime'[call[t].rt].active = runtime[call[t].rt].active
      /\ runtime'[call[t].rt].lifecycle = runtime[call[t].rt].lifecycle
      /\ runtime'[call[t].rt].native = "destroyed"
  BY <1>2, <1>4 DEF IInv, RuntimeTypes, RuntimeRecord
<1>8. \A s \in Runtimes : runtime'[s].closing = runtime[s].closing
  BY <1>2, <1>4 DEF IInv, RuntimeTypes, RuntimeRecord
<1>9. /\ \A h \in DOMAIN g_runtimes : g_runtimes[h] # call[t].rt
      /\ \A u \in Threads : /\ call[u].op \in RuntimeOps \/ Leases(call[u]) \/ Locked(call[u])
                                 => call[u].rt # call[t].rt
                            /\ u # t /\ call[u].op = "create" => call[u].rt # call[t].rt
      /\ \A q \in Requests : request[q].native # "none" => request[q].owner # call[t].rt
      /\ \A q \in Requests : request[q].native = "none" => request[q].owner = NoObject
  BY DEF IInv, RuntimeInv, Published, Creates, RequestInv, Life, Leases, Locked
<1>10. \A q \in Requests : request[q].owner # call[t].rt
  BY <1>9, <1>2
<1>11. UNCHANGED <<g_next_handle, g_runtimes, g_requests, request>>
  BY <1>1, <1>3 DEF TakeHandle
<1>12. RuntimeTypes'
  BY <1>2, <1>4 DEF IInv, RuntimeTypes, RuntimeRecord
<1>13. RegistryTypes' /\ RequestTypes'
  BY <1>11 DEF IInv, RegistryTypes, RequestTypes
<1>14. HoldsNothing(t) /\ HoldsNothing(t)'
  BY <1>1, <1>2, <1>5 DEF HoldsNothing, Ends, Leases, Uses, Locked, Submitted, Owns
<1>15. \A u \in Threads : LeasesSame(u) /\ OwnsSame(u)
  BY <1>14, <1>5 DEF HoldsNothing, Ends, LeasesSame, OwnsSame, Elsewhere, Leases, Uses, Submitted,
     Owns
<1>16. ShapeInv'
  BY <1>5 DEF IInv, ShapeInv, Shape, Elsewhere, Submitted, Ends
<1>17. MutexInv'
  BY <1>5, <1>6, <1>7, <1>14, Basics DEF IInv, MutexInv, HoldsNothing, Ends, Elsewhere
<1>18. LesseeInv'
  BY <1>5, <1>6, <1>7, <1>14, SameLessees DEF HoldsNothing, Ends
<1>19. UserInv'
  BY <1>5, <1>11, <1>14, SameUsers DEF HoldsNothing, Ends
<1>20. HandleInv'
  BY <1>1, <1>5, <1>11 DEF IInv, HandleInv, RegistryTypes, Handles, Ends, Elsewhere
<1>21. RuntimeInv'
  BY <1>1, <1>2, <1>5, <1>6, <1>7, <1>8, <1>9, <1>10, <1>11, <1>14, <1>15, Basics, SMTT(30)
  DEF IInv, RuntimeInv, Published, Creates, Ends, Elsewhere, OwnsSame, LeasesSame, HoldsNothing,
      RuntimeSame
<1>22. CloseInv'
  BY <1>1, <1>2, <1>5, <1>6, <1>7, <1>8, <1>9, <1>10, <1>11, <1>14, <1>15, Basics DEF IInv,
     CloseInv, Closing, Closes, Ends, Elsewhere, OwnsSame, LeasesSame, HoldsNothing, RuntimeSame
<1>23. LeaseInv'
  BY <1>1, <1>2, <1>5, <1>6, <1>7, <1>8, <1>9, <1>10, <1>11, <1>14, <1>15, Basics DEF IInv,
     LeaseInv, Ends, Elsewhere, OwnsSame, LeasesSame, HoldsNothing, RuntimeSame
<1>24. RequestInv'
  BY <1>1, <1>2, <1>5, <1>6, <1>7, <1>8, <1>9, <1>10, <1>11, <1>14, <1>15, Basics DEF IInv,
     RequestInv, Life, Published, Creates, Ends, Elsewhere, OwnsSame, LeasesSame, HoldsNothing,
     RuntimeSame
<1>25. RegisteredInv'
  BY <1>11, <1>15, Subjects DEF IInv, RegisteredInv, Registered, Ends, Elsewhere, OwnsSame
<1>26. OwnerInv'
  BY <1>1, <1>2, <1>5, <1>7, <1>8, <1>9, <1>10, <1>11, <1>14, <1>15, Subjects DEF IInv, OwnerInv,
     Ends, Elsewhere, OwnsSame, LeasesSame, HoldsNothing, RuntimeSame
<1>27. SubjectInv'
  BY <1>1, <1>2, <1>5, <1>7, <1>8, <1>9, <1>10, <1>11, <1>14, <1>15, Subjects DEF IInv, SubjectInv,
     Ends, Elsewhere, OwnsSame, LeasesSame, HoldsNothing, RuntimeSame
<1>28. DeletingInv'
  BY <1>1, <1>2, <1>5, <1>7, <1>8, <1>9, <1>10, <1>11, <1>14, <1>15, Subjects DEF IInv, DeletingInv,
     Ends, Elsewhere, OwnsSame, LeasesSame, HoldsNothing, RuntimeSame
<1>29. NothingLeftBehind'
  BY <1>2, <1>6, <1>7, <1>8, <1>9, <1>10, <1>11, <1>14, Basics DEF IInv, NothingLeftBehind, Ends,
     Elsewhere, OwnsSame, LeasesSame, HoldsNothing, RuntimeSame
<1> QED
  BY <1>5, <1>12, <1>13, <1>16, <1>17, <1>18, <1>19, <1>20, <1>21, <1>22, <1>23, <1>24, <1>25,
     <1>26, <1>27, <1>28, <1>29 DEF IInv

(* Without a number the new request is destroyed by the call that made it.           *)
LEMMA NoHandleSubmitKeeps ==
  ASSUME IInv, NEW t \in Threads, TakeHandle(t), g_next_handle = kHandleMax, call[t].op = "submit"
  PROVE  IInv'
<1>1. call[t].op = "submit" /\ call[t].at = "token"
  BY DEF TakeHandle, At
<1>2. call[t].todo = {} /\ call[t].rq \in Requests /\ Submitted(call[t])
  BY <1>1 DEF IInv, ShapeInv, Shape, Submitted
<1>3. \A s \in {g_next_handle} : ~(s < kHandleMax)
  BY DEF IInv, RegistryTypes
<1>4. call' = [call EXCEPT ![t].at = "destroy", ![t].todo = {call[t].rq}]
  BY <1>1, <1>3 DEF TakeHandle
<1>5. "destroy" \in Points
  BY DEF Points
<1>6. /\ Elsewhere(t)
      /\ \A u \in Threads : /\ call'[u].op = call[u].op /\ call'[u].handle = call[u].handle
                            /\ call'[u].rt = call[u].rt /\ call'[u].rq = call[u].rq
                            /\ u # t => call'[u].at = call[u].at /\ call'[u].todo = call[u].todo
      /\ call'[t].at = "destroy" /\ call'[t].todo = {call[t].rq}
  BY <1>4 DEF IInv, CallTypes, CallRecord, Elsewhere
<1>7. {call[t].rq} \in SUBSET Requests
  BY <1>2
<1>8. CallTypes'
  BY <1>7, <1>4, <1>5, WrittenCalls DEF IInv
<1>9. UNCHANGED <<g_next_handle, g_runtimes, g_requests, runtime, request>>
  BY <1>1, <1>3 DEF TakeHandle
<1>10. RegistryTypes' /\ RuntimeTypes' /\ RequestTypes'
  BY <1>9 DEF IInv, RegistryTypes, RuntimeTypes, RequestTypes
<1>11. /\ ~Submitted(call[t])' /\ call[t].at \notin Deleting /\ call'[t].at \notin Deleting
       /\ \A x \in Requests : Owns(call[t], x)' <=> Owns(call[t], x)
  BY <1>1, <1>2, <1>6 DEF Submitted, Owns
<1>12. \A u \in Threads : LeasesSame(u) /\ (u # t => OwnsSame(u))
  BY <1>1, <1>6 DEF LeasesSame, OwnsSame, Elsewhere, Leases, Uses, Submitted, Owns
<1>13. ShapeInv'
  BY <1>11, <1>6 DEF IInv, ShapeInv, Shape, Elsewhere, Submitted
<1>14. MutexInv'
  BY <1>1, <1>6, <1>9, Basics DEF IInv, MutexInv, Locked
<1>15. LesseeInv'
  BY <1>6, <1>9, <1>12, SameLessees DEF LeasesSame
<1>16. UserInv'
  BY <1>6, <1>9, <1>12, SameUsers DEF LeasesSame, Uses
<1>17. HandleInv'
  BY <1>6, <1>9, <1>11 DEF IInv, HandleInv, OwnsSame, LeasesSame
<1>18. RuntimeInv'
  BY <1>1, <1>2, <1>6, <1>9, <1>11, <1>12, Basics DEF IInv, RuntimeInv, Published, Creates,
     OwnsSame, LeasesSame
<1>19. CloseInv'
  BY <1>1, <1>2, <1>6, <1>9, <1>11, <1>12, Basics DEF IInv, CloseInv, Closing, Closes, OwnsSame,
     LeasesSame
<1>20. LeaseInv'
  BY <1>6, <1>9, <1>11, <1>12, Basics DEF IInv, LeaseInv, OwnsSame, LeasesSame
<1>21. RequestInv'
  BY <1>1, <1>2, <1>6, <1>9, <1>11, <1>12, Basics DEF IInv, RequestInv, Life, Published, Creates,
     OwnsSame, LeasesSame
<1>22. RegisteredInv'
  BY <1>9, <1>11, <1>12, Subjects DEF IInv, RegisteredInv, Registered, OwnsSame
<1>23. OwnerInv'
  BY <1>6, <1>9, <1>11, <1>12, Subjects DEF IInv, OwnerInv, OwnsSame, LeasesSame
<1>24. SubjectInv'
  BY <1>6, <1>9, <1>11, <1>12, Subjects DEF IInv, SubjectInv, OwnsSame, LeasesSame
<1>25. DeletingInv'
  BY <1>6, <1>9, Subjects DEF IInv, DeletingInv, OwnsSame
<1>26. NothingLeftBehind'
  BY <1>2, <1>9, Basics DEF IInv, NothingLeftBehind, OwnsSame, LeasesSame
<1> QED
  BY <1>6, <1>8, <1>10, <1>13, <1>14, <1>15, <1>16, <1>17, <1>18, <1>19, <1>20, <1>21, <1>22, <1>23,
     <1>24, <1>25, <1>26 DEF IInv

(* A runtime is registered once, by its creator.                                   *)
LEMMA RegisterRuntimeKeeps ==
  ASSUME IInv, NEW t \in Threads, Register(t), call[t].op = "create"
  PROVE  IInv'
<1>1. call[t].op = "create" /\ call[t].at = "register"
  BY DEF Register, At
<1>2. /\ call[t].todo = {} /\ call[t].rt \in Runtimes
      /\ call[t].handle \in Handles /\ call[t].handle \notin DOMAIN g_runtimes
  BY <1>1 DEF IInv, ShapeInv, Shape, HandleInv
<1>3. /\ DOMAIN g_runtimes' = DOMAIN g_runtimes \cup {call[t].handle}
      /\ g_runtimes'[call[t].handle] = call[t].rt
      /\ \A h \in DOMAIN g_runtimes : g_runtimes'[h] = g_runtimes[h]
  BY <1>1, <1>2 DEF Register, With
<1>4. Ends(t) /\ CallTypes'
  BY <1>1, ReturnEnds DEF IInv, Register
<1>5. /\ \A h \in DOMAIN g_runtimes : g_runtimes[h] # call[t].rt
      /\ \A u \in Threads : /\ call[u].op \in RuntimeOps => call[u].rt # call[t].rt
                            /\ u # t => ~Creates(u, call[t].rt)
      /\ runtime[call[t].rt].native = "live" /\ ~runtime[call[t].rt].closing
  BY <1>1, <1>2 DEF IInv, RuntimeInv, Published, Creates
<1>6. UNCHANGED <<g_next_handle, g_requests, runtime, request>>
  BY <1>1 DEF Register
<1>7. RegistryTypes'
  BY <1>2, <1>3, <1>6 DEF IInv, RegistryTypes
<1>8. RuntimeTypes' /\ RequestTypes'
  BY <1>6 DEF IInv, RuntimeTypes, RequestTypes
<1>9. HoldsNothing(t) /\ HoldsNothing(t)'
  BY <1>1, <1>2, <1>4 DEF HoldsNothing, Ends, Leases, Uses, Locked, Submitted, Owns
<1>10. \A u \in Threads : LeasesSame(u) /\ OwnsSame(u)
  BY <1>9, <1>4 DEF HoldsNothing, Ends, LeasesSame, OwnsSame, Elsewhere, Leases, Uses, Submitted,
     Owns
<1>11. ShapeInv'
  BY <1>4 DEF IInv, ShapeInv, Shape, Elsewhere, Submitted, Ends
<1>12. MutexInv'
  BY <1>4, <1>6, <1>9, Basics DEF IInv, MutexInv, HoldsNothing, Ends, Elsewhere
<1>13. LesseeInv'
  BY <1>4, <1>6, <1>9, SameLessees DEF HoldsNothing, Ends
<1>14. UserInv'
  BY <1>4, <1>6, <1>9, SameUsers DEF HoldsNothing, Ends
<1>15. HandleInv'
  BY <1>1, <1>2, <1>3, <1>4, <1>6 DEF IInv, HandleInv, RegistryTypes, Handles, Ends, Elsewhere
<1>16. RuntimeInv'
  BY <1>1, <1>2, <1>3, <1>4, <1>5, <1>6, <1>9, <1>10, Basics, SMTT(30)
  DEF IInv, RuntimeInv, Published, Creates, Ends, Elsewhere, OwnsSame, LeasesSame, HoldsNothing
<1>17. CloseInv'
  BY <1>1, <1>2, <1>3, <1>4, <1>5, <1>6, <1>9, <1>10, Basics DEF IInv, CloseInv, Closing, Closes,
     Ends, Elsewhere, OwnsSame, LeasesSame, HoldsNothing
<1>18. LeaseInv'
  BY <1>1, <1>2, <1>3, <1>4, <1>5, <1>6, <1>9, <1>10, Basics DEF IInv, LeaseInv, Ends, Elsewhere,
     OwnsSame, LeasesSame, HoldsNothing
<1>19. RequestInv'
  BY <1>1, <1>2, <1>3, <1>4, <1>5, <1>6, <1>9, <1>10, Basics DEF IInv, RequestInv, Life, Published,
     Creates, Ends, Elsewhere, OwnsSame, LeasesSame, HoldsNothing
<1>20. RegisteredInv'
  BY <1>3, <1>6, <1>10, Subjects DEF IInv, RegisteredInv, Registered, Ends, Elsewhere, OwnsSame,
     LeasesSame, HoldsNothing
<1>21. OwnerInv'
  BY <1>1, <1>2, <1>3, <1>4, <1>5, <1>6, <1>9, <1>10, Subjects DEF IInv, OwnerInv, Ends, Elsewhere,
     OwnsSame, LeasesSame, HoldsNothing
<1>22. SubjectInv'
  BY <1>1, <1>2, <1>3, <1>4, <1>5, <1>6, <1>9, <1>10, Subjects DEF IInv, SubjectInv, Ends,
     Elsewhere, OwnsSame, LeasesSame, HoldsNothing
<1>23. DeletingInv'
  BY <1>1, <1>2, <1>3, <1>4, <1>5, <1>6, <1>9, <1>10, Subjects DEF IInv, DeletingInv, Ends,
     Elsewhere, OwnsSame, LeasesSame, HoldsNothing
<1>24. NothingLeftBehind'
  BY <1>2, <1>3, <1>5, <1>6, <1>9, Basics DEF IInv, NothingLeftBehind, Ends, Elsewhere, OwnsSame,
     LeasesSame, HoldsNothing
<1> QED
  BY <1>4, <1>7, <1>8, <1>11, <1>12, <1>13, <1>14, <1>15, <1>16, <1>17, <1>18, <1>19, <1>20, <1>21,
     <1>22, <1>23, <1>24 DEF IInv

(* A request is registered once, while its runtime cannot be closed.               *)
LEMMA RegisterRequestKeeps ==
  ASSUME IInv, NEW t \in Threads, Register(t), call[t].op = "submit"
  PROVE  IInv'
<1>1. /\ call[t].op = "submit" /\ call[t].at = "register" /\ Submitted(call[t])
      /\ Locked(call[t]) /\ Leases(call[t])
  BY DEF Register, At, Submitted, Locked, Leases
<1>2. /\ call[t].todo = {} /\ call[t].rq \in Requests
      /\ call[t].handle \in Handles /\ call[t].handle \notin DOMAIN g_requests
  BY <1>1 DEF IInv, ShapeInv, Shape, HandleInv
<1>3. runtime[call[t].rt].native = "live" /\ call[t].rt \in Runtimes
  BY <1>1, Basics DEF IInv, LeaseInv
<1>4. /\ Owns(call[t], call[t].rq) /\ request[call[t].rq].owner = call[t].rt
      /\ request[call[t].rq].native \in {"open", "done"} /\ ~request[call[t].rq].destroying
  BY <1>1, <1>2 DEF IInv, Owns, OwnerInv, SubjectInv
<1>5. /\ DOMAIN g_requests' = DOMAIN g_requests \cup {call[t].handle}
      /\ g_requests'[call[t].handle] = call[t].rq
      /\ \A h \in DOMAIN g_requests : g_requests'[h] = g_requests[h]
  BY <1>1, <1>2 DEF Register, With
<1>6. Walks(t, "release") /\ CallTypes'
  BY <1>1, GotoWalks DEF IInv, Register, Points
<1>7. /\ \A h \in DOMAIN g_requests : g_requests[h] # call[t].rq
      /\ \A u \in Threads : u # t => ~Owns(call[u], call[t].rq)
  BY <1>2, <1>4, OwnsAlone
<1>8. \A u \in Threads : call[u].op = "close" /\ call[u].at # "lock" => call[u].rt # call[t].rt
  BY <1>1 DEF IInv, MutexInv, Locked
<1>9. UNCHANGED <<g_next_handle, g_runtimes, runtime, request>>
  BY <1>1 DEF Register
<1>10. RegistryTypes'
  BY <1>2, <1>5, <1>9 DEF IInv, RegistryTypes
<1>11. RuntimeTypes' /\ RequestTypes'
  BY <1>9 DEF IInv, RuntimeTypes, RequestTypes
<1>12. /\ ~Submitted(call[t])' /\ call[t].at \notin Deleting /\ call'[t].at \notin Deleting
       /\ \A x \in Requests : ~Owns(call[t], x)' /\ (Owns(call[t], x) <=> x = call[t].rq)
  BY <1>1, <1>2, <1>6 DEF Submitted, Owns, Walks
<1>13. \A u \in Threads : LeasesSame(u) /\ (u # t => OwnsSame(u))
  BY <1>1, <1>6 DEF Walks, LeasesSame, OwnsSame, Elsewhere, Leases, Uses, Submitted, Owns
<1>14. ShapeInv'
  BY <1>1, <1>2, <1>6, <1>12 DEF IInv, ShapeInv, Shape, Submitted, Walks
<1>15. MutexInv'
  BY <1>1, <1>6, <1>9, Basics DEF IInv, MutexInv, Locked, Walks, Elsewhere
<1>16. LesseeInv'
  BY <1>6, <1>9, <1>13, SameLessees DEF LeasesSame, Walks
<1>17. UserInv'
  BY <1>6, <1>9, <1>13, SameUsers DEF LeasesSame, Walks
<1>18. HandleInv'
  BY <1>1, <1>2, <1>5, <1>6, <1>9 DEF IInv, HandleInv, RegistryTypes, Walks
<1>19. RuntimeInv'
  BY <1>6, <1>7, <1>8, <1>9, <1>12, <1>13, Basics DEF IInv, RuntimeInv, Published, Creates, Walks,
     Elsewhere, OwnsSame, LeasesSame
<1>20. CloseInv'
  BY <1>1, <1>4, <1>5, <1>6, <1>8, <1>9 DEF IInv, CloseInv, Closing, Closes, Walks
<1>21. LeaseInv'
  BY <1>5, <1>6, <1>7, <1>8, <1>9, <1>12, <1>13, Basics DEF IInv, LeaseInv, Walks, Elsewhere,
     OwnsSame, LeasesSame
<1>22. RequestInv'
  BY <1>6, <1>7, <1>8, <1>9, <1>12, <1>13, Basics DEF IInv, RequestInv, Life, Published, Creates,
     Walks, Elsewhere, OwnsSame, LeasesSame
<1>23. RegisteredInv'
  BY <1>2, <1>4, <1>5, <1>9, <1>12, <1>13, <1>7, Subjects DEF IInv, RegisteredInv, Registered,
     OwnsSame
<1>24. OwnerInv'
  BY <1>1, <1>2, <1>4, <1>5, <1>6, <1>7, <1>8, <1>9, <1>12, <1>13, Subjects DEF IInv, OwnerInv,
     Walks, OwnsSame, LeasesSame
<1>25. SubjectInv'
  BY <1>6, <1>7, <1>8, <1>9, <1>12, <1>13, Subjects DEF IInv, SubjectInv, Walks, OwnsSame,
     LeasesSame
<1>26. DeletingInv'
  BY <1>6, <1>7, <1>8, <1>9, <1>12, <1>13, Subjects DEF IInv, DeletingInv, Walks, OwnsSame,
     LeasesSame
<1>27. NothingLeftBehind'
  BY <1>3, <1>4, <1>5, <1>9 DEF IInv, NothingLeftBehind
<1> QED
  BY <1>6, <1>10, <1>11, <1>14, <1>15, <1>16, <1>17, <1>18, <1>19, <1>20, <1>21, <1>22, <1>23,
     <1>24, <1>25, <1>26, <1>27 DEF IInv

(* A close has deleted all the requests of its runtime before it destroys it.        *)
LEMMA DestroyRuntimeKeeps ==
  ASSUME IInv, NEW t \in Threads, DestroyRuntime(t)
  PROVE  IInv'
<1>1. call[t].op = "close" /\ call[t].at = "runtime" /\ Locked(call[t])
  BY DEF DestroyRuntime, At, Locked
<1>2. call[t].rt \in Runtimes /\ call[t].todo = {} /\ Closing(t, call[t].rt) /\ Published(call[t].rt)
  BY <1>1, Basics DEF IInv, ShapeInv, Shape, CloseInv, RuntimeInv
<1>3. /\ runtime[call[t].rt].native = "live" /\ runtime[call[t].rt].closing
      /\ runtime[call[t].rt].active = 0
      /\ \A h \in DOMAIN g_runtimes : g_runtimes[h] # call[t].rt
      /\ \A h \in DOMAIN g_requests : request[g_requests[h]].owner # call[t].rt
      /\ \A u \in Threads : u # t => ~Closes(u, call[t].rt)
  BY <1>1, <1>2 DEF Closing
<1>4. \A q \in Requests, u \in Threads : Owns(call[u], q) => request[q].owner # call[t].rt
  <2> SUFFICES ASSUME NEW q \in Requests, NEW u \in Threads, Owns(call[u], q),
                      request[q].owner = call[t].rt
               PROVE  FALSE
    OBVIOUS
  <2>1. Locked(call[u]) /\ call[u].rt = call[t].rt
    BY OwnsAlone DEF IInv, OwnerInv
  <2>2. u = t
    BY <1>1, <2>1 DEF IInv, MutexInv
  <2> QED
    BY <1>1, <1>2, <2>2 DEF Owns, Submitted
<1>5. \A q \in Requests : request[q].owner = call[t].rt => ~request[q].refs
  BY <1>3, <1>4 DEF IInv, RegisteredInv, Registered
<1>6. \A q \in Requests : request[q].owner = call[t].rt => request[q].native = "deleted" /\ ~request[q].refs
  BY <1>2, <1>5, Basics DEF IInv, RequestInv, Life
<1>7. \A q \in Requests : ~(request[q].owner = call[t].rt /\ request[q].native = "open")
  BY <1>6
<1>8. request' = [q \in Requests |-> request[q]]
  BY <1>7 DEF DestroyRuntime
<1>9. request' = request
  BY <1>8 DEF IInv, RequestTypes
<1>10. runtime' = [runtime EXCEPT ![call[t].rt].native = "destroyed"]
  BY DEF DestroyRuntime
<1>11. /\ \A r \in Runtimes : /\ runtime'[r].refs = runtime[r].refs /\ (runtime'[r].closing <=> runtime[r].closing)
                              /\ runtime'[r].active = runtime[r].active
                              /\ runtime'[r].lifecycle = runtime[r].lifecycle
       /\ \A r \in Runtimes : r # call[t].rt => runtime'[r].native = runtime[r].native
       /\ runtime'[call[t].rt].native = "destroyed"
  BY <1>2, <1>10 DEF IInv, RuntimeTypes, RuntimeRecord
<1>12. Walks(t, "runtime_refs") /\ CallTypes'
  BY GotoWalks DEF IInv, DestroyRuntime, Points
<1>13. \A u \in Threads : Leases(call[u]) => call[u].rt # call[t].rt
  BY <1>3, NoLessee
<1>14. UNCHANGED <<g_next_handle, g_runtimes, g_requests, request>>
  BY <1>9 DEF DestroyRuntime, registries
<1>15. RuntimeTypes'
  BY <1>2, <1>10 DEF IInv, RuntimeTypes, RuntimeRecord
<1>16. RegistryTypes' /\ RequestTypes'
  BY <1>14 DEF IInv, RegistryTypes, RequestTypes
<1>17. /\ \A u \in Threads : call[u].op = "create" => call[u].rt # call[t].rt
  BY <1>2 DEF Published, Creates
<1>18. \A u \in Threads : call'[u].op = call[u].op /\ call'[u].rt = call[u].rt /\ call'[u].rq = call[u].rq
  BY <1>12 DEF Walks
<1>19. \A r \in Runtimes : Published(r) => Published(r)'
  <2> SUFFICES ASSUME NEW r \in Runtimes, Published(r)
               PROVE  Published(r)'
    OBVIOUS
  <2>1. \A u \in Threads : ~Creates(u, r)'
    BY <1>18 DEF Published, Creates
  <2>2. CASE r = call[t].rt
    <3>1. runtime'[r].native = "destroyed" /\ runtime'[r].closing
      BY <1>3, <1>11, <2>2
    <3> QED
      BY <2>1, <3>1 DEF Published
  <2>3. CASE r # call[t].rt
    <3>1. runtime'[r].native = runtime[r].native /\ (runtime'[r].closing <=> runtime[r].closing)
      BY <1>11, <2>3
    <3> QED
      BY <2>1, <3>1 DEF Published
  <2> QED
    BY <2>2, <2>3
<1>20. \A u \in Threads : LeasesSame(u) /\ OwnsSame(u)
  BY <1>1, <1>2, <1>12 DEF LeasesSame, OwnsSame, Elsewhere, Leases, Uses, Submitted, Owns, Walks
<1>21. ShapeInv'
  BY <1>1, <1>2, <1>3, <1>4, <1>5, <1>6, <1>7, <1>8, <1>9, <1>12 DEF IInv, ShapeInv, Shape,
     Submitted, Walks, OwnsSame, LeasesSame
<1>22. MutexInv'
  BY <1>1, <1>12, <1>11, Basics DEF IInv, MutexInv, Locked, Walks, Elsewhere
<1>23. LesseeInv'
  BY <1>12, <1>11, <1>20, SameLessees DEF LeasesSame, Walks
<1>24. UserInv'
  BY <1>12, <1>14, <1>20, SameUsers DEF LeasesSame, Walks
<1>25. HandleInv'
  BY <1>6, <1>7, <1>8, <1>9, <1>12, <1>13, <1>14, <1>17, <1>18, <1>19 DEF IInv, HandleInv, Walks,
     OwnsSame, LeasesSame
<1>26. RuntimeInv'
  BY <1>3, <1>11, <1>18, <1>19, <1>14, <1>17, Basics DEF IInv, RuntimeInv, Creates
<1>27. CloseInv'
  <2> SUFFICES ASSUME NEW u \in Threads, call'[u].op = "close"
               PROVE  Closing(u, call[u].rt)'
    BY DEF CloseInv
  <2>1. call[u].op = "close" /\ Closing(u, call[u].rt) /\ call[u].rt \in Runtimes
    BY <1>18, Basics DEF IInv, CloseInv
  <2>2. CASE u = t
    BY <2>2, <1>1, <1>2, <1>3, <1>11, <1>12, <1>14 DEF Closing, Closes, Walks
  <2>3. CASE u # t
    <3>1. call[u].rt # call[t].rt /\ call'[u] = call[u]
      BY <2>3, <1>3, <1>12 DEF Closes, Walks, Elsewhere
    <3> QED
      BY <2>1, <3>1, <1>11, <1>18, <1>14 DEF Closing, Closes
  <2> QED
    BY <2>2, <2>3
<1>28. LeaseInv'
  BY <1>7, <1>8, <1>9, <1>11, <1>12, <1>13, <1>14, <1>17, <1>18, <1>19, <1>20, Basics DEF IInv,
     LeaseInv, Walks, Elsewhere, OwnsSame, LeasesSame
<1>29. RequestInv'
  BY <1>18, <1>6, <1>11, <1>19, <1>20, <1>14 DEF IInv, RequestInv, Life, OwnsSame, Walks
<1>30. RegisteredInv'
  BY <1>14, <1>20, Subjects DEF IInv, RegisteredInv, Registered, OwnsSame, LeasesSame
<1>31. OwnerInv'
  BY <1>13, <1>14, <1>17, <1>18, <1>19, <1>20, Subjects DEF IInv, OwnerInv, Walks, OwnsSame,
     LeasesSame
<1>32. SubjectInv'
  BY <1>6, <1>7, <1>8, <1>9, <1>12, <1>20, Subjects DEF IInv, SubjectInv, Walks, OwnsSame,
     LeasesSame
<1>33. DeletingInv'
  BY <1>6, <1>7, <1>8, <1>9, <1>12, <1>20, Subjects DEF IInv, DeletingInv, Walks, OwnsSame,
     LeasesSame
<1>34. NothingLeftBehind'
  BY <1>3, <1>6, <1>11, <1>14 DEF IInv, NothingLeftBehind
<1> QED
  BY <1>12, <1>15, <1>16, <1>21, <1>22, <1>23, <1>24, <1>25, <1>26, <1>27, <1>28, <1>29, <1>30,
     <1>31, <1>32, <1>33, <1>34 DEF IInv
-----------------------------------------------------------------------------
LEMMA InitIInv == Init => IInv
<1> SUFFICES ASSUME Init PROVE IInv
  OBVIOUS
<1>1. \A t \in Threads : call[t] = Idle
  BY DEF Init
<1>2. \A t \in Threads : /\ call[t].op = "none" /\ call[t].at = "idle" /\ call[t].handle = 0
                         /\ call[t].rq = NoObject /\ call[t].todo = {}
  BY <1>1 DEF Idle
<1>3. \A t \in Threads : HoldsNothing(t)
  BY <1>2 DEF HoldsNothing, Leases, Uses, Locked, Submitted, Owns
<1>4. \A r \in Runtimes : /\ runtime[r].native = "none" /\ ~runtime[r].closing
                          /\ runtime[r].active = 0
  BY DEF Init
<1>5. \A q \in Requests : /\ request[q].native = "none" /\ ~request[q].refs /\ request[q].active = 0
                          /\ request[q].owner = NoObject
                          /\ ~request[q].destroying /\ ~request[q].destroyed
  BY DEF Init
<1>6. DOMAIN g_runtimes = {} /\ DOMAIN g_requests = {} /\ g_next_handle = 1
  BY DEF Init
<1>7. RegistryTypes
  BY <1>6 DEF RegistryTypes
<1>8. RuntimeTypes
  BY DEF Init, RuntimeTypes, RuntimeRecord
<1>9. RequestTypes
  BY DEF Init, RequestTypes, RequestRecord
<1>10. CallTypes
  <2>1. Idle \in CallRecord
    BY DEF Idle, CallRecord, Ops, Points
  <2> QED
    BY <2>1 DEF Init, CallTypes
<1>11. ShapeInv
  BY <1>2 DEF ShapeInv, Shape, Submitted
<1>12. MutexInv /\ LeaseInv
  BY <1>3 DEF HoldsNothing, MutexInv, LeaseInv
<1>13. \A r, q : Lessees(r) = {} /\ Users(q) = {}
  BY <1>3 DEF HoldsNothing, Lessees, Users
<1>14. LesseeInv /\ UserInv
  BY <1>4, <1>5, <1>13, FS_EmptySet DEF LesseeInv, UserInv
<1>15. HandleInv
  BY <1>2, <1>6 DEF HandleInv
<1>16. RuntimeInv /\ CloseInv
  BY <1>2, <1>4, <1>6 DEF RuntimeInv, CloseInv
<1>17. RequestInv /\ RegisteredInv
  BY <1>5, <1>6 DEF RequestInv, Life, RegisteredInv
<1>18. OwnerInv
  BY <1>3 DEF OwnerInv, HoldsNothing
<1>19. SubjectInv /\ DeletingInv
  BY <1>2, <1>3 DEF SubjectInv, DeletingInv, HoldsNothing
<1>20. NothingLeftBehind
  BY <1>4 DEF NothingLeftBehind
<1> QED
  BY <1>7, <1>8, <1>9, <1>10, <1>11, <1>12, <1>14, <1>15, <1>16, <1>17, <1>18, <1>19, <1>20 DEF IInv

(* Calls on a runtime, on a request, those that destroy one, and closes.       *)
LEMMA RuntimeCallKeeps ==
  ASSUME IInv, NEW t \in Threads, RuntimeCall(t)
  PROVE  IInv'
<1>1. ASSUME NEW h \in Handles, BeginSubmit(t, h) PROVE IInv'
  <2>1. g_runtimes[h] \in Runtimes /\ h \in DOMAIN g_runtimes
    BY <1>1, Basics DEF BeginSubmit
  <2> QED
    BY <1>1, <2>1, BeginKeeps DEF BeginSubmit, Ops, Points
<1>2. ASSUME NEW h \in Handles, BeginStats(t, h) PROVE IInv'
  <2>1. g_runtimes[h] \in Runtimes /\ h \in DOMAIN g_runtimes
    BY <1>2, Basics DEF BeginStats
  <2> QED
    BY <1>2, <2>1, BeginKeeps DEF BeginStats, Ops, Points
<1>3. CASE LookupAgain(t)
  <2> DEFINE point == IF call[t].handle \in DOMAIN g_runtimes THEN "acquire" ELSE "unlock"
  <2>1. point \in Points /\ Moves(t, point)
    BY <1>3 DEF LookupAgain, At, Points, Moves
  <2>2. call[t].todo = {}
    BY <1>3 DEF LookupAgain, At, IInv, ShapeInv, Shape
  <2>3. Goto(t, point) /\ UNCHANGED <<registries, runtime, request>>
    BY <1>3 DEF LookupAgain
  <2> HIDE DEF point
  <2> QED
    BY <2>1, <2>2, <2>3, MovesKeep
<1>4. CASE AcquireRuntime(t) /\ ~runtime[call[t].rt].closing
  BY <1>4, AcquireRuntimeKeeps
<1>5. CASE AcquireRuntime(t) /\ runtime[call[t].rt].closing /\ call[t].op = "submit"
  <2>1. /\ "unlock" \in Points /\ Moves(t, "unlock") /\ Goto(t, "unlock")
        /\ UNCHANGED <<registries, runtime, request>>
    BY <1>5 DEF AcquireRuntime, At, Points, Moves
  <2>2. call[t].todo = {}
    BY <1>5 DEF AcquireRuntime, At, IInv, ShapeInv, Shape
  <2> QED
    BY <2>1, <2>2, MovesKeep
<1>6. CASE AcquireRuntime(t) /\ runtime[call[t].rt].closing /\ call[t].op # "submit"
  BY <1>6, RefusedKeeps DEF AcquireRuntime, At
<1>7. CASE NativeSubmit(t)
  <2>1. PICK q \in Requests : Makes(t, q)
    BY <1>7 DEF NativeSubmit, Makes
  <2> QED
    BY <2>1, NativeSubmitKeeps
<1>8. CASE NativeSubmitFails(t) \/ NativeStats(t)
  <2>1. /\ "release" \in Points /\ Moves(t, "release") /\ Goto(t, "release")
        /\ UNCHANGED <<registries, runtime, request>>
    BY <1>8 DEF NativeSubmitFails, NativeStats, At, Points, Moves
  <2>2. call[t].todo = {}
    BY <1>8 DEF NativeSubmitFails, NativeStats, At, IInv, ShapeInv, Shape
  <2> QED
    BY <2>1, <2>2, MovesKeep
<1>9. CASE ReleaseRuntime(t)
  BY <1>9, ReleaseSubmitKeeps, ReleaseStatsKeeps DEF ReleaseRuntime, At
<1> QED
  BY <1>1, <1>2, <1>3, <1>4, <1>5, <1>6, <1>7, <1>8, <1>9 DEF RuntimeCall

LEMMA RequestCallKeeps ==
  ASSUME IInv, NEW t \in Threads, RequestCall(t)
  PROVE  IInv'
<1>1. ASSUME NEW h \in Handles, NEW op \in {"wait", "timed_wait", "cancel"}, BeginRequestCall(t, op, h)
      PROVE  IInv'
  <2>1. g_requests[h] \in Requests /\ h \in DOMAIN g_requests
    BY <1>1, Basics DEF BeginRequestCall
  <2> QED
    BY <1>1, <2>1, BeginKeeps DEF BeginRequestCall, Ops, Points
<1>2. CASE AcquireRequest(t) /\ (request[call[t].rq].destroying \/ request[call[t].rq].destroyed)
  BY <1>2, RefusedKeeps DEF AcquireRequest, At
<1>3. CASE AcquireRequest(t) /\ ~(request[call[t].rq].destroying \/ request[call[t].rq].destroyed)
  BY <1>3, AcquireRequestKeeps
<1>4. CASE NativeWait(t)
  <2>1. /\ "release" \in Points /\ Moves(t, "release") /\ Goto(t, "release")
        /\ UNCHANGED <<registries, runtime, request>>
    BY <1>4 DEF NativeWait, At, Points, Moves
  <2>2. call[t].todo = {}
    BY <1>4 DEF NativeWait, At, IInv, ShapeInv, Shape
  <2> QED
    BY <2>1, <2>2, MovesKeep
<1>5. CASE NativeCancel(t) \/ ReleaseRequest(t)
  BY <1>5, NativeCancelKeeps, ReleaseRequestKeeps
<1> QED
  BY <1>1, <1>2, <1>3, <1>4, <1>5 DEF RequestCall

LEMMA DestroyCallKeeps ==
  ASSUME IInv, NEW t \in Threads, DestroyCall(t)
  PROVE  IInv'
<1>1. ASSUME NEW h \in Handles, BeginDestroy(t, h) PROVE IInv'
  <2>1. g_requests[h] \in Requests /\ h \in DOMAIN g_requests
    BY <1>1, Basics DEF BeginDestroy
  <2>2. request[g_requests[h]].owner \in Runtimes
    BY <2>1 DEF IInv, RegisteredInv, RequestInv, Life
  <2> QED
    BY <1>1, <2>1, <2>2, BeginKeeps DEF BeginDestroy, Ops, Points
<1>2. CASE EraseRequest(t) /\ call[t].handle \in DOMAIN g_requests
  BY <1>2, EraseRequestKeeps
<1>3. CASE EraseRequest(t) /\ call[t].handle \notin DOMAIN g_requests
  <2>1. /\ "unlock" \in Points /\ Moves(t, "unlock") /\ Goto(t, "unlock")
        /\ UNCHANGED <<registries, runtime, request>>
    BY <1>3 DEF EraseRequest, At, Points, Moves, registries
  <2>2. call[t].todo = {}
    BY <1>3 DEF EraseRequest, At, IInv, ShapeInv, Shape
  <2> QED
    BY <2>1, <2>2, MovesKeep
<1>4. CASE DestroyNext(t)
  <2>1. PICK q \in call[t].todo : PassesOver(t, q) \/ Destroys(t, q)
    BY <1>4 DEF DestroyNext, PassesOver, Destroys
  <2> QED
    BY <2>1, PassedOverKeeps, DestroyingKeeps
<1>5. CASE DestroyNone(t)
  <2> DEFINE point == CASE call[t].op = "submit" -> "release" [] call[t].op = "destroy" -> "unlock"
                        [] OTHER -> "runtime"
  <2>1. point \in Points /\ Moves(t, point)
    BY <1>5 DEF DestroyNone, At, Points, Moves
  <2>2. call[t].todo = {} /\ Goto(t, point) /\ UNCHANGED <<registries, runtime, request>>
    BY <1>5 DEF DestroyNone
  <2> HIDE DEF point
  <2> QED
    BY <2>1, <2>2, MovesKeep
<1>6. CASE RequestDrained(t) \/ DeleteRequest(t) \/ DeleteRequestRefs(t)
  BY <1>6, RequestDrainedKeeps, DeleteRequestKeeps, DeleteRequestRefsKeeps
<1> QED
  BY <1>1, <1>2, <1>3, <1>4, <1>5, <1>6 DEF DestroyCall

LEMMA CloseCallKeeps ==
  ASSUME IInv, NEW t \in Threads, CloseCall(t)
  PROVE  IInv'
<1>1. ASSUME NEW h \in Handles, BeginClose(t, h) PROVE IInv'
  BY <1>1, BeginCloseKeeps
<1>2. CASE RuntimeDrained(t)
  <2>1. /\ "collect" \in Points /\ Moves(t, "collect") /\ Goto(t, "collect")
        /\ UNCHANGED <<registries, runtime, request>>
    BY <1>2 DEF RuntimeDrained, At, Points, Moves
  <2>2. call[t].todo = {}
    BY <1>2 DEF RuntimeDrained, At, IInv, ShapeInv, Shape
  <2> QED
    BY <2>1, <2>2, MovesKeep
<1>3. CASE \/ MarkClosing(t) \/ CollectRequests(t) \/ DestroyRuntime(t) \/ DeleteRuntimeRefs(t)
  BY <1>3, MarkClosingKeeps, CollectRequestsKeeps, DestroyRuntimeKeeps, DeleteRuntimeRefsKeeps
<1> QED
  BY <1>1, <1>2, <1>3 DEF CloseCall

LEMMA ThreadStepKeeps ==
  ASSUME IInv, NEW t \in Threads, ThreadStep(t)
  PROVE  IInv'
<1>1. CASE Create(t)
  <2>1. PICK r \in Runtimes : Creating(t, r)
    BY <1>1 DEF Create, Creating
  <2> QED
    BY <2>1, CreatingKeeps
<1>2. CASE TakeHandle(t)
  <2>1. g_next_handle < kHandleMax \/ g_next_handle = kHandleMax
    BY DEF IInv, RegistryTypes
  <2>2. call[t].op \in {"create", "submit"}
    BY <1>2 DEF TakeHandle, At
  <2> QED
    BY <1>2, <2>1, <2>2, TakeHandleKeeps, NoHandleCreateKeeps, NoHandleSubmitKeeps
<1>3. CASE Register(t)
  BY <1>3, RegisterRuntimeKeeps, RegisterRequestKeeps DEF Register, At
<1>4. CASE Lock(t) \/ Unlock(t)
  BY <1>4, LockKeeps, UnlockKeeps
<1>5. CASE RuntimeCall(t) \/ RequestCall(t) \/ DestroyCall(t) \/ CloseCall(t)
  BY <1>5, RuntimeCallKeeps, RequestCallKeeps, DestroyCallKeeps, CloseCallKeeps
<1> QED
  BY <1>1, <1>2, <1>3, <1>4, <1>5 DEF ThreadStep

LEMMA StutterKeeps ==
  ASSUME IInv, UNCHANGED vars
  PROVE  IInv'
<1>1. UNCHANGED <<g_next_handle, g_runtimes, g_requests, runtime, request, call>>
  BY DEF vars
<1>2. RegistryTypes' /\ RuntimeTypes' /\ RequestTypes' /\ CallTypes'
  BY <1>1 DEF IInv, RegistryTypes, RuntimeTypes, RequestTypes, CallTypes
<1>3. ShapeInv' /\ MutexInv' /\ LeaseInv' /\ HandleInv'
  BY <1>1 DEF IInv, ShapeInv, Shape, MutexInv, Locked, Submitted, LeaseInv, Leases, Uses, HandleInv
<1>4. \A r, q : Lessees(r)' = Lessees(r) /\ Users(q)' = Users(q)
  BY <1>1 DEF Lessees, Users, Leases, Uses
<1>5. LesseeInv' /\ UserInv'
  BY <1>1, <1>4 DEF IInv, LesseeInv, UserInv
<1>6. RuntimeInv' /\ CloseInv'
  BY <1>1 DEF IInv, RuntimeInv, Published, Creates, CloseInv, Closing, Closes
<1>7. RequestInv' /\ RegisteredInv'
  BY <1>1 DEF IInv, RequestInv, Life, Published, Creates, RegisteredInv, Registered, Owns, Submitted
<1>8. OwnerInv' /\ SubjectInv' /\ DeletingInv' /\ NothingLeftBehind'
  BY <1>1 DEF IInv, OwnerInv, Owns, Submitted, SubjectInv, DeletingInv, NothingLeftBehind
<1> QED
  BY <1>2, <1>3, <1>5, <1>6, <1>7, <1>8 DEF IInv

(* The inductive invariant holds of every state of the JNI layer.             *)
THEOREM Invariance == Spec => []IInv
<1>1. IInv /\ [Next]_vars => IInv'
  <2> SUFFICES ASSUME IInv, [Next]_vars PROVE IInv'
    OBVIOUS
  <2>1. CASE UNCHANGED vars
    BY <2>1, StutterKeeps
  <2>2. CASE Next
    BY <2>2, ThreadStepKeeps, NativeDoneKeeps DEF Next
  <2> QED
    BY <2>1, <2>2
<1> QED
  BY <1>1, InitIInv, PTL DEF Spec

(* The registries are well typed, and a handle denotes one object: two calls    *)
(* that take numbers and register under them in separate critical sections     *)
(* never meet, however many threads create and submit.                        *)
THEOREM RegistriesStaySound == Spec => []RegistriesSound
<1>1. IInv => TypeOK
  <2> SUFFICES ASSUME IInv PROVE TypeOK
    OBVIOUS
  <2>1. ASSUME NEW S, S \subseteq Threads PROVE Cardinality(S) \in 0..Cardinality(Threads)
    BY <2>1, FS_Subset, FS_CardinalityType
  <2>2. \A r \in Runtimes : runtime[r].active \in 0..Cardinality(Threads)
    <3>1. \A r : Lessees(r) \subseteq Threads
      BY DEF Lessees
    <3> QED
      BY <2>1, <3>1 DEF IInv, LesseeInv
  <2>3. \A q \in Requests : request[q].active \in 0..Cardinality(Threads)
    <3>1. \A q : Users(q) \subseteq Threads
      BY DEF Users
    <3> QED
      BY <2>1, <3>1 DEF IInv, UserInv
  <2>4. runtime \in [Runtimes -> [native : {"none", "live", "destroyed"}, refs : BOOLEAN,
                                  closing : BOOLEAN, active : 0..Cardinality(Threads),
                                  lifecycle : Threads \cup {NoThread}]]
    BY <2>2 DEF IInv, RuntimeTypes, RuntimeRecord
  <2>5. request \in [Requests -> [native : {"none", "open", "done", "deleted"}, refs : BOOLEAN,
                                  owner : Runtimes \cup {NoObject}, cancelled : BOOLEAN,
                                  destroying : BOOLEAN, destroyed : BOOLEAN,
                                  active : 0..Cardinality(Threads)]]
    BY <2>3 DEF IInv, RequestTypes, RequestRecord
  <2> QED
    BY <2>4, <2>5 DEF IInv, TypeOK, RegistryTypes, CallTypes, CallRecord
<1>2. IInv => HandlesDenoteOne
  <2> SUFFICES ASSUME IInv PROVE HandlesDenoteOne
    OBVIOUS
  <2>1. IsInjective(g_runtimes)
    BY DEF IInv, RuntimeInv, IsInjective
  <2>2. IsInjective(g_requests)
    BY DEF IInv, RegisteredInv, IsInjective
  <2> QED
    BY <2>1, <2>2 DEF IInv, HandleInv, HandlesDenoteOne, At
<1> QED
  BY <1>1, <1>2, Invariance, PTL DEF RegistriesSound

(* No native call is made on an object that another thread has destroyed, and   *)
(* the buffers of a request outlive its ranges.                              *)
THEOREM UseIsProtected == Spec => []UseProtected
<1>1. IInv => UseProtected
  <2> SUFFICES ASSUME IInv PROVE UseProtected
    OBVIOUS
  <2>1. ASSUME NEW t \in Threads,
               At(t, {"submit", "stats"}, "native") \/ At(t, {"close"}, "runtime")
        PROVE  runtime[call[t].rt].native = "live"
    BY <2>1 DEF IInv, LeaseInv, Leases, At, CloseInv, Closing
  <2>2. ASSUME NEW t \in Threads,
               \/ At(t, {"wait", "timed_wait", "cancel"}, "native")
               \/ At(t, {"submit", "destroy", "close"}, "delete")
        PROVE  request[call[t].rq].native \in {"open", "done"}
    BY <2>2 DEF IInv, LeaseInv, Uses, At, DeletingInv
  <2>3. ASSUME NEW q \in Requests, request[q].native = "open"
        PROVE  /\ request[q].refs /\ runtime[request[q].owner].refs
               /\ runtime[request[q].owner].native = "live"
    BY <2>3 DEF IInv, RequestInv, Life, RuntimeInv
  <2> QED
    BY <2>1, <2>2, <2>3 DEF UseProtected
<1> QED
  BY <1>1, Invariance, PTL

(* A closed runtime leaves no request, no buffer and no handle behind, however *)
(* submissions, destructions and the close interleave.                       *)
THEOREM CloseLeavesNothing == Spec => []NothingLeftBehind
<1>1. IInv => NothingLeftBehind
  BY DEF IInv
<1> QED
  BY <1>1, Invariance, PTL
=============================================================================
