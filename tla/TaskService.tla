----------------------------- MODULE TaskService -----------------------------
(***************************************************************************)
(* What a client of holy_fitra_dispatch may rely on, without queues,        *)
(* workers or thermal states: each submitted task is refused, or taken on   *)
(* and then settled exactly once; a shutdown refuses new tasks from its     *)
(* start and is over only when every task taken on is settled.              *)
(***************************************************************************)
CONSTANTS Tasks, TaskResult

VARIABLES status,  \* [Tasks -> "new", "refused", "open" or how it was settled]
          phase    \* "serving", "closing" or "closed"

svars == <<status, phase>>

ServiceInit == /\ status = [t \in Tasks |-> "new"]
               /\ phase = "serving"

Refuse(t) == /\ status[t] = "new"
             /\ status' = [status EXCEPT ![t] = "refused"]
             /\ UNCHANGED phase

TakeOn(t) == /\ status[t] = "new" /\ phase = "serving"
             /\ status' = [status EXCEPT ![t] = "open"]
             /\ UNCHANGED phase

Settle(t, r) == /\ status[t] = "open" /\ phase # "closed"
                /\ status' = [status EXCEPT ![t] = r]
                /\ UNCHANGED phase

StartClose == phase = "serving" /\ phase' = "closing" /\ UNCHANGED status

EndClose == /\ phase = "closing" /\ \A t \in Tasks : status[t] # "open"
            /\ phase' = "closed"
            /\ UNCHANGED status

ServiceNext == \/ \E t \in Tasks : \/ Refuse(t) \/ TakeOn(t)
                                   \/ \E r \in TaskResult : Settle(t, r)
               \/ StartClose \/ EndClose

ServiceSpec == ServiceInit /\ [][ServiceNext]_svars
=============================================================================
