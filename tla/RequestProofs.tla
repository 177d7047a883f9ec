---------------------------- MODULE RequestProofs ----------------------------
(***************************************************************************)
(* Proofs about the clients of the dispatcher, over any that is a             *)
(* TaskService.  RuntimeRequests, for any number of requests and of ranges   *)
(* in a batch: the receipt balances, the result is the worst of what it      *)
(* counts, what a waiter saw is final, and of the workers only the one that  *)
(* set done is still to touch a deleted request.  RaggedRequest, for any number of chunks: all waits say the    *)
(* same, Completed only of a computed batch, and its buffers may go when it   *)
(* is destroyed.                                                            *)
(***************************************************************************)
EXTENDS MCDispatchClients, FiniteSetTheorems, TLAPS

USE RangesAssumption

(* The ranges of a request that will still close a slot: those the          *)
(* dispatcher has, and those that were not sent yet.                        *)
Owed(r) == {i \in 1..req[r].total :
              \/ status[<<r, i>>] = "open"
              \/ i >= req[r].next /\ status[<<r, i>>] = "new"}

StatusTypes == status \in [Tasks -> TaskResult \cup {"new", "refused", "open"}]

RequestRecord == [at : RequestAt, next : Nat \ {0}, total : 0..MaxRanges, pending : Int,
                  done : BOOLEAN, result : hf_status, cancelled : BOOLEAN]
ReceiptRecord == [ReceiptFields -> Int]

RequestTypes == /\ req \in [Requests -> RequestRecord]
                /\ receipt \in [Requests -> ReceiptRecord]

(* A slot is pending for each range that is owed, and done when there is none. *)
SlotInv(r) ==
  /\ req[r].pending = Cardinality(Owed(r))
  /\ req[r].at # "unused" => (req[r].done <=> req[r].pending = 0)
  /\ req[r].at = "freed" => req[r].done

(* Where the submitter is decides which ranges the dispatcher has seen.      *)
SentInv(r) ==
  /\ req[r].at = "unused" => req[r].total = 0 /\ req[r].next = 1 /\ ~req[r].done
  /\ req[r].at \in {"unused", "submitting", "refused", "unsent"} =>
       \A i \in 1..MaxRanges : i >= req[r].next => status[<<r, i>>] = "new"
  /\ req[r].at = "submitting" => req[r].next <= req[r].total + 1
  /\ req[r].at = "admitting" =>
       /\ req[r].next <= req[r].total /\ status[<<r, req[r].next>>] # "new"
       /\ \A i \in 1..MaxRanges : i > req[r].next => status[<<r, i>>] = "new"
  /\ \A i \in 1..MaxRanges : status[<<r, i>>] = "open" => i <= req[r].total

(* What the counters of the receipt add up to.                              *)
CountInv(r) ==
  /\ receipt[r].planned = req[r].pending + Terminal(receipt[r])
  /\ req[r].at = "unused" => \A f \in ReceiptFields : receipt[r][f] = 0
  /\ req[r].at \in {"submitting", "admitting"} =>
       /\ receipt[r].planned = req[r].total /\ receipt[r].admitted = req[r].next - 1
       /\ receipt[r].rejected = 0
  /\ req[r].at \in {"live", "destroying"} =>
       receipt[r].admitted = receipt[r].planned /\ receipt[r].rejected = 0

RequestInv(r) == SlotInv(r) /\ SentInv(r) /\ CountInv(r)
BatchInv == StatusTypes /\ RequestTypes /\ \A r \in Requests : RequestInv(r)
-----------------------------------------------------------------------------
(* Every range of every request is a task of the dispatcher.                *)
LEMMA TaskPairs ==
  ASSUME NEW r \in Requests, NEW i \in 1..MaxRanges
  PROVE  <<r, i>> \in Tasks
BY DEF Tasks

(* The ranges of one request are finitely many.                             *)
LEMMA OwedFinite ==
  ASSUME RequestTypes, NEW r \in Requests
  PROVE  IsFiniteSet(Owed(r)) /\ Cardinality(Owed(r)) \in Nat
<1>1. req[r].total \in 0..MaxRanges
  BY DEF RequestTypes, RequestRecord
<1>2. IsFiniteSet(1..req[r].total)
  <2>1. 1 \in Int /\ req[r].total \in Int
    BY <1>1, RangesAssumption
  <2> QED
    BY ONLY <2>1, FS_Interval, ZenonT(30)
<1>3. Owed(r) \in SUBSET (1..req[r].total)
  BY DEF Owed
<1> QED
  BY <1>2, <1>3, FS_Subset, FS_CardinalityType

(* What an action leaves alone about a request.                              *)
Untouched(r) ==
  /\ req'[r] = req[r] /\ receipt'[r] = receipt[r]
  /\ \A i \in 1..MaxRanges : status'[<<r, i>>] = status[<<r, i>>]

(* What is said of a request lasts while no step touches it.                *)
LEMMA UntouchedKeeps ==
  ASSUME BatchInv, NEW r \in Requests, Untouched(r)
  PROVE  RequestInv(r)'
<1>1. req[r].total \in 0..MaxRanges /\ req[r].next \in Nat \ {0}
  BY DEF BatchInv, RequestTypes, RequestRecord
<1>2. Owed(r)' = Owed(r)
  BY <1>1 DEF Owed, Untouched
<1>3. SlotInv(r)'
  BY <1>2 DEF BatchInv, RequestInv, SlotInv, Untouched
<1>4. SentInv(r)'
  BY <1>1 DEF BatchInv, RequestInv, SentInv, Untouched
<1>5. CountInv(r)'
  BY DEF BatchInv, RequestInv, CountInv, Untouched, Terminal
<1> QED
  BY <1>3, <1>4, <1>5 DEF RequestInv

(* An owed range is owed no more: the slot that closes.                      *)
LEMMA OneLess ==
  ASSUME BatchInv, NEW r \in Requests, NEW i \in Owed(r), Owed(r)' = Owed(r) \ {i},
         req'[r].pending = req[r].pending - 1, req'[r].done <=> req[r].pending = 1,
         req'[r].at # "freed"
  PROVE  SlotInv(r)'
<1>1. IsFiniteSet(Owed(r)) /\ Cardinality(Owed(r)) \in Nat
  BY OwedFinite DEF BatchInv
<1>2. Cardinality(Owed(r) \ {i}) = Cardinality(Owed(r)) - 1
  BY <1>1, FS_RemoveElement
<1>3. req[r].pending = Cardinality(Owed(r))
  BY DEF BatchInv, RequestInv, SlotInv
<1>4. (req[r].pending = Cardinality(Owed(r)))'
  BY <1>2, <1>3
<1>5. req'[r].done <=> req'[r].pending = 0
  BY <1>1, <1>3
<1> QED
  BY <1>4, <1>5 DEF SlotInv

(* Nothing is submitted, so nothing is owed or counted.                     *)
LEMMA InitBatchInv == Init => BatchInv
<1> SUFFICES ASSUME Init PROVE BatchInv
  OBVIOUS
<1> USE DEF Init, ServiceInit, NewRequest
<1>1. StatusTypes
  BY DEF StatusTypes
<1>2. RequestTypes
  BY DEF RequestTypes, RequestRecord, ReceiptRecord, RequestAt, hf_status
<1>3. ASSUME NEW r \in Requests PROVE RequestInv(r)
  <2>1. Owed(r) = {}
    BY DEF Owed
  <2>2. SlotInv(r)
    BY <2>1, FS_EmptySet DEF SlotInv
  <2>3. SentInv(r)
    BY TaskPairs DEF SentInv
  <2>4. CountInv(r)
    BY DEF CountInv, Terminal, ReceiptFields
  <2> QED
    BY <2>2, <2>3, <2>4 DEF RequestInv
<1> QED
  BY <1>1, <1>2, <1>3 DEF BatchInv

(* What is counted moves Terminal by one, unless it is an admission.         *)
LEMMA CountEnded ==
  ASSUME NEW c \in ReceiptRecord,
         NEW f \in {"completed", "cancelled", "deadline_missed", "failed", "rejected"},
         NEW d, d = [c EXCEPT ![f] = @ + 1]
  PROVE  /\ d \in ReceiptRecord /\ Terminal(d) = Terminal(c) + 1
         /\ d.planned = c.planned /\ d.admitted = c.admitted
         /\ f # "rejected" => d.rejected = c.rejected
<1>1. d \in ReceiptRecord
  BY DEF ReceiptRecord, ReceiptFields
<1>2. /\ c.planned \in Int /\ c.admitted \in Int /\ c.completed \in Int /\ c.cancelled \in Int
      /\ c.deadline_missed \in Int /\ c.failed \in Int /\ c.rejected \in Int
  BY DEF ReceiptRecord, ReceiptFields
<1>3. \A g \in ReceiptFields : d[g] = IF g = f THEN c[g] + 1 ELSE c[g]
  BY DEF ReceiptRecord, ReceiptFields
<1>4. /\ d.planned = c.planned /\ d.admitted = c.admitted
      /\ f # "rejected" => d.rejected = c.rejected
  BY <1>3 DEF ReceiptFields
<1>5. /\ d.completed = IF f = "completed" THEN c.completed + 1 ELSE c.completed
      /\ d.cancelled = IF f = "cancelled" THEN c.cancelled + 1 ELSE c.cancelled
      /\ d.deadline_missed = IF f = "deadline_missed" THEN c.deadline_missed + 1 ELSE c.deadline_missed
      /\ d.failed = IF f = "failed" THEN c.failed + 1 ELSE c.failed
      /\ d.rejected = IF f = "rejected" THEN c.rejected + 1 ELSE c.rejected
  BY <1>3 DEF ReceiptFields
<1>6. Terminal(d) = Terminal(c) + 1
  BY <1>2, <1>5 DEF Terminal
<1> QED
  BY <1>1, <1>4, <1>6

(* What is planned or admitted leaves Terminal alone.                       *)
LEMMA CountOther ==
  ASSUME NEW c \in ReceiptRecord, NEW f \in {"planned", "admitted"}, NEW v \in Int,
         NEW d, d = [c EXCEPT ![f] = v]
  PROVE  /\ d \in ReceiptRecord /\ Terminal(d) = Terminal(c) /\ d.rejected = c.rejected
         /\ d.planned = IF f = "planned" THEN v ELSE c.planned
         /\ d.admitted = IF f = "admitted" THEN v ELSE c.admitted
<1>1. d \in ReceiptRecord
  BY DEF ReceiptRecord, ReceiptFields
<1>3. \A g \in ReceiptFields : d[g] = IF g = f THEN v ELSE c[g]
  BY DEF ReceiptRecord, ReceiptFields
<1> QED
  BY <1>1, <1>3 DEF Terminal, ReceiptFields

(* A step that replaces one request and its receipt, and keeps what is said *)
(* of them.                                                                 *)
LEMMA StepKeeps ==
  ASSUME BatchInv, NEW r \in Requests, NEW q \in RequestRecord, NEW c \in ReceiptRecord,
         req' = [req EXCEPT ![r] = q], receipt' = [receipt EXCEPT ![r] = c],
         StatusTypes', \A p \in Requests \ {r} : \A i \in 1..MaxRanges :
                         status'[<<p, i>>] = status[<<p, i>>],
         (req'[r] = q /\ receipt'[r] = c) => RequestInv(r)'
  PROVE  BatchInv'
<1> USE DEF BatchInv
<1>1. RequestTypes' /\ req'[r] = q /\ receipt'[r] = c
  BY DEF RequestTypes
<1>2. ASSUME NEW p \in Requests PROVE RequestInv(p)'
  <2>1. CASE p = r
    BY <2>1, <1>1
  <2>2. CASE p # r
    <3>1. Untouched(p)
      BY <2>2 DEF Untouched, RequestTypes
    <3> QED
      BY <3>1, UntouchedKeeps
  <2> QED
    BY <2>1, <2>2
<1> QED
  BY <1>1, <1>2

(* The fields of one request.                                               *)
LEMMA Fields ==
  ASSUME RequestTypes, NEW r \in Requests
  PROVE  /\ req[r] \in RequestRecord /\ receipt[r] \in ReceiptRecord
         /\ req[r].at \in RequestAt /\ req[r].next \in Nat \ {0} /\ req[r].total \in 0..MaxRanges
         /\ req[r].pending \in Int /\ req[r].done \in BOOLEAN
         /\ receipt[r].planned \in Int /\ receipt[r].admitted \in Int /\ receipt[r].rejected \in Int
         /\ Terminal(receipt[r]) \in Int
<1>1. req[r] \in RequestRecord /\ receipt[r] \in ReceiptRecord
  BY DEF RequestTypes
<1> QED
  BY <1>1 DEF RequestRecord, ReceiptRecord, ReceiptFields, Terminal

(* The submitter and the client go from place to place.                      *)
LEMMA MoveKeeps ==
  ASSUME BatchInv, NEW r \in Requests, NEW a \in RequestAt, NEW c \in BOOLEAN,
         UNCHANGED <<status, receipt>>,
         req' = [req EXCEPT ![r] = [@ EXCEPT !.at = a, !.cancelled = c]],
         \/ req[r].at = "submitting" /\ a = "live" /\ req[r].next > req[r].total
         \/ req[r].at = "refused" /\ a = "unsent"
         \/ req[r].at = "unsent" /\ a = "failed"
         \/ req[r].at = "live" /\ a \in {"live", "destroying"}
         \/ req[r].at \in {"failed", "destroying"} /\ a = "freed" /\ req[r].done
  PROVE  BatchInv'
<1> DEFINE q == [req[r] EXCEPT !.at = a, !.cancelled = c]
<1>1. RequestTypes /\ StatusTypes /\ RequestInv(r)
  BY DEF BatchInv
<1>2. /\ q \in RequestRecord
      /\ q.at = a /\ q.next = req[r].next /\ q.total = req[r].total
      /\ q.pending = req[r].pending /\ q.done = req[r].done
  <2>1. req[r] \in RequestRecord
    BY <1>1, Fields
  <2> QED
    BY <2>1 DEF RequestRecord
<1>3. receipt[r] \in ReceiptRecord /\ receipt' = [receipt EXCEPT ![r] = receipt[r]]
  BY <1>1, Fields DEF RequestTypes
<1>4. StatusTypes'
  BY <1>1 DEF StatusTypes
<1>5. ASSUME req'[r] = q, receipt'[r] = receipt[r] PROVE RequestInv(r)'
  <2>1. /\ req'[r].at = a /\ req'[r].next = req[r].next /\ req'[r].total = req[r].total
        /\ req'[r].pending = req[r].pending /\ req'[r].done = req[r].done
    BY <1>2, <1>5
  <2>2. Owed(r)' = Owed(r)
    BY <2>1 DEF Owed
  <2>3. SlotInv(r)'
    BY <1>1, <2>1, <2>2 DEF RequestInv, SlotInv
  <2>4. SentInv(r)'
    BY <1>1, <2>1 DEF RequestInv, SentInv
  <2>5. CountInv(r)'
    <3>1. CountInv(r) /\ SentInv(r)
      BY <1>1 DEF RequestInv
    <3>2. Terminal(receipt'[r]) = Terminal(receipt[r])
      BY <1>5
    <3>3. receipt'[r].planned = req'[r].pending + Terminal(receipt'[r])
      BY <1>5, <2>1, <3>1, <3>2 DEF CountInv
    <3>4. a \notin {"unused", "submitting", "admitting"}
      OBVIOUS
    <3>5. a \in {"live", "destroying"} =>
            receipt'[r].admitted = receipt'[r].planned /\ receipt'[r].rejected = 0
      BY <1>1, <1>5, <3>1, Fields DEF CountInv, SentInv
    <3> QED
      BY <2>1, <3>3, <3>4, <3>5 DEF CountInv
  <2> QED
    BY <2>3, <2>4, <2>5 DEF RequestInv
<1> HIDE DEF q
<1> QED
  BY <1>2, <1>3, <1>4, <1>5, StepKeeps DEF q
(* What closing a slot does to the fields of a request.                      *)
LEMMA CloseFields ==
  ASSUME NEW x \in RequestRecord, NEW s \in hf_status, NEW y, y = Close(x, s)
  PROVE  /\ y \in RequestRecord
         /\ y.at = x.at /\ y.next = x.next /\ y.total = x.total
         /\ y.pending = x.pending - 1 /\ y.done = (x.pending = 1)
<1>1. Worse(x.result, s) \in hf_status /\ x.pending - 1 \in Int
  BY DEF Worse, RequestRecord
<1>2. y = [x EXCEPT !.result = Worse(x.result, s), !.pending = x.pending - 1,
                    !.done = (x.pending = 1)]
  BY DEF Close
<1>3. y \in RequestRecord
  BY <1>1, <1>2 DEF RequestRecord
<1> QED
  BY <1>2, <1>3 DEF RequestRecord

(* A submission owes every range it plans.                                  *)
LEMMA SubmitKeeps ==
  ASSUME BatchInv, NEW r \in Requests, NEW n \in 1..MaxRanges, Submit(r, n)
  PROVE  BatchInv'
<1> DEFINE q == [req[r] EXCEPT !.at = "submitting", !.total = n, !.pending = n]
           c == [receipt[r] EXCEPT !.planned = n]
<1>1. RequestTypes /\ StatusTypes /\ RequestInv(r)
  BY DEF BatchInv
<1>2. req[r] \in RequestRecord /\ receipt[r] \in ReceiptRecord
  BY <1>1, Fields
<1>3. /\ q \in RequestRecord
      /\ q.at = "submitting" /\ q.next = req[r].next /\ q.total = n
      /\ q.pending = n /\ q.done = req[r].done
  <2>1. n \in 0..MaxRanges /\ n \in Int /\ "submitting" \in RequestAt
    BY DEF RequestAt
  <2>2. q \in RequestRecord
    BY <1>2, <2>1 DEF RequestRecord
  <2> QED
    BY <1>2, <2>2 DEF RequestRecord
<1>4. /\ c \in ReceiptRecord /\ Terminal(c) = Terminal(receipt[r]) /\ c.planned = n
      /\ c.admitted = receipt[r].admitted /\ c.rejected = receipt[r].rejected
  BY <1>2, CountOther
<1>5. req' = [req EXCEPT ![r] = q] /\ receipt' = [receipt EXCEPT ![r] = c]
  BY <1>1 DEF Submit, RequestTypes
<1>6. req[r].at = "unused" /\ UNCHANGED status
  BY DEF Submit
<1>7. /\ req[r].next = 1 /\ ~req[r].done
      /\ \A i \in 1..MaxRanges : status[<<r, i>>] = "new"
  BY <1>1, <1>6, Fields DEF RequestInv, SentInv
<1>8. Terminal(receipt[r]) = 0 /\ receipt[r].admitted = 0 /\ receipt[r].rejected = 0
  BY <1>1, <1>6 DEF RequestInv, CountInv, Terminal, ReceiptFields
<1> HIDE DEF q, c
<1>9. ASSUME req'[r] = q, receipt'[r] = c PROVE RequestInv(r)'
  <2>1. Owed(r)' = 1..n
    BY <1>3, <1>6, <1>7, <1>9 DEF Owed
  <2>2. Cardinality(1..n) = n
    BY FS_Interval
  <2>3. SlotInv(r)'
    BY <1>3, <1>7, <1>9, <2>1, <2>2 DEF SlotInv
  <2>4. SentInv(r)'
    BY <1>3, <1>6, <1>7, <1>9 DEF SentInv
  <2>5. CountInv(r)'
    BY <1>3, <1>4, <1>7, <1>8, <1>9 DEF CountInv
  <2> QED
    BY <2>3, <2>4, <2>5 DEF RequestInv
<1>10. StatusTypes'
  BY <1>1, <1>6 DEF StatusTypes
<1> QED
  BY <1>3, <1>4, <1>5, <1>6, <1>9, <1>10, StepKeeps

(* A range the dispatcher takes on is owed as it was.                       *)
LEMMA SendKeeps ==
  ASSUME BatchInv, NEW r \in Requests, SendRange(r)
  PROVE  BatchInv'
<1> DEFINE n == req[r].next
           q == [req[r] EXCEPT !.at = "admitting"]
<1>1. RequestTypes /\ StatusTypes /\ RequestInv(r)
  BY DEF BatchInv
<1>2. req[r] \in RequestRecord /\ receipt[r] \in ReceiptRecord
  BY <1>1, Fields
<1>3. /\ q \in RequestRecord
      /\ q.at = "admitting" /\ q.next = n /\ q.total = req[r].total
      /\ q.pending = req[r].pending /\ q.done = req[r].done
  BY <1>2 DEF RequestRecord, RequestAt
<1>4. req' = [req EXCEPT ![r] = q] /\ receipt' = [receipt EXCEPT ![r] = receipt[r]]
  BY <1>1 DEF SendRange, RequestTypes
<1>5. /\ req[r].at = "submitting" /\ n <= req[r].total /\ status[<<r, n>>] = "new"
      /\ status' = [status EXCEPT ![<<r, n>>] = "open"]
  BY DEF SendRange, TakeOn
<1>6. n \in 1..MaxRanges /\ <<r, n>> \in Tasks /\ req[r].total \in 0..MaxRanges
  <2>1. n \in 1..MaxRanges /\ req[r].total \in 0..MaxRanges
    BY <1>1, <1>5, Fields
  <2> QED
    BY <2>1, TaskPairs
<1> HIDE DEF n, q
<1>7. StatusTypes' /\ status'[<<r, n>>] = "open"
  BY <1>1, <1>5, <1>6 DEF StatusTypes
<1>8. \A p \in Requests, i \in 1..MaxRanges :
        p # r \/ i # n => status'[<<p, i>>] = status[<<p, i>>]
  BY <1>1, <1>5, <1>6, TaskPairs DEF StatusTypes
<1>9. ASSUME req'[r] = q, receipt'[r] = receipt[r] PROVE RequestInv(r)'
  <2>1. Owed(r)' = Owed(r)
    BY <1>3, <1>5, <1>6, <1>7, <1>8, <1>9 DEF Owed, n
  <2>2. SlotInv(r)'
    BY <1>1, <1>3, <1>5, <1>9, <2>1 DEF SlotInv, RequestInv
  <2>3. SentInv(r)'
    BY <1>1, <1>3, <1>5, <1>6, <1>7, <1>8, <1>9 DEF SentInv, RequestInv, n
  <2>4. CountInv(r)'
    BY <1>1, <1>3, <1>5, <1>9 DEF CountInv, RequestInv, n
  <2> QED
    BY <2>2, <2>3, <2>4 DEF RequestInv
<1> QED
  BY <1>2, <1>3, <1>4, <1>7, <1>8, <1>9, StepKeeps

(* An admission is counted, though its range may be over already.           *)
LEMMA AdmitKeeps ==
  ASSUME BatchInv, NEW r \in Requests, AdmitRange(r)
  PROVE  BatchInv'
<1> DEFINE q == [req[r] EXCEPT !.at = "submitting", !.next = @ + 1]
           c == [receipt[r] EXCEPT !.admitted = @ + 1]
<1>1. RequestTypes /\ StatusTypes /\ RequestInv(r)
  BY DEF BatchInv
<1>2. req[r] \in RequestRecord /\ receipt[r] \in ReceiptRecord /\ receipt[r].admitted \in Int
  BY <1>1, Fields
<1>3. /\ q \in RequestRecord
      /\ q.at = "submitting" /\ q.next = req[r].next + 1 /\ q.total = req[r].total
      /\ q.pending = req[r].pending /\ q.done = req[r].done
  <2>1. req[r].next + 1 \in Nat \ {0} /\ "submitting" \in RequestAt
    BY <1>1, Fields DEF RequestAt
  <2>2. q \in RequestRecord
    BY <1>2, <2>1 DEF RequestRecord
  <2> QED
    BY <1>2, <2>2 DEF RequestRecord
<1>4. /\ c \in ReceiptRecord /\ Terminal(c) = Terminal(receipt[r])
      /\ c.planned = receipt[r].planned /\ c.rejected = receipt[r].rejected
      /\ c.admitted = receipt[r].admitted + 1
  BY <1>2, CountOther
<1>5. req' = [req EXCEPT ![r] = q] /\ receipt' = [receipt EXCEPT ![r] = c]
  BY <1>1 DEF AdmitRange, Count, RequestTypes
<1>6. req[r].at = "admitting" /\ UNCHANGED status
  BY DEF AdmitRange
<1>7. req[r].next \in Nat \ {0} /\ req[r].total \in 0..MaxRanges
  BY <1>1, Fields
<1> HIDE DEF q, c
<1>9. ASSUME req'[r] = q, receipt'[r] = c PROVE RequestInv(r)'
  <2>1. Owed(r)' = Owed(r)
    BY <1>1, <1>3, <1>6, <1>7, <1>9 DEF Owed, RequestInv, SentInv
  <2>2. SlotInv(r)'
    BY <1>1, <1>3, <1>6, <1>9, <2>1 DEF SlotInv, RequestInv
  <2>3. SentInv(r)'
    BY <1>1, <1>3, <1>6, <1>7, <1>9 DEF SentInv, RequestInv
  <2>4. CountInv(r)'
    BY <1>1, <1>3, <1>4, <1>6, <1>7, <1>9 DEF CountInv, RequestInv
  <2> QED
    BY <2>2, <2>3, <2>4 DEF RequestInv
<1>10. StatusTypes'
  BY <1>1, <1>6 DEF StatusTypes
<1> QED
  BY <1>3, <1>4, <1>5, <1>6, <1>9, <1>10, StepKeeps
(* A refusal closes the slot of its own range.                              *)
LEMMA RefuseKeeps ==
  ASSUME BatchInv, NEW r \in Requests, NEW s \in hf_status, RefuseRange(r, s)
  PROVE  BatchInv'
<1> DEFINE n == req[r].next
           q == [Close(req[r], s) EXCEPT !.at = "refused", !.next = @ + 1]
           c == [receipt[r] EXCEPT !.rejected = @ + 1]
<1>1. RequestTypes /\ StatusTypes /\ RequestInv(r)
  BY DEF BatchInv
<1>2. req[r] \in RequestRecord /\ receipt[r] \in ReceiptRecord
  BY <1>1, Fields
<1>3. /\ q \in RequestRecord
      /\ q.at = "refused" /\ q.next = n + 1 /\ q.total = req[r].total
      /\ q.pending = req[r].pending - 1 /\ q.done = (req[r].pending = 1)
  <2> DEFINE x == Close(req[r], s)
  <2>1. /\ x \in RequestRecord /\ x.next = n /\ x.total = req[r].total
        /\ x.pending = req[r].pending - 1 /\ x.done = (req[r].pending = 1)
    BY <1>2, CloseFields
  <2> HIDE DEF x
  <2>2. q = [x EXCEPT !.at = "refused", !.next = n + 1]
    BY <2>1 DEF x
  <2>3. "refused" \in RequestAt /\ n + 1 \in Nat \ {0}
    BY <1>1, Fields DEF RequestAt
  <2> HIDE DEF n, q
  <2>4. q \in RequestRecord
    BY <2>1, <2>2, <2>3 DEF RequestRecord
  <2> QED
    BY <2>1, <2>2, <2>4 DEF RequestRecord
<1>4. c \in ReceiptRecord /\ Terminal(c) = Terminal(receipt[r]) + 1 /\ c.planned = receipt[r].planned
  BY <1>2, CountEnded
<1>5. req' = [req EXCEPT ![r] = q] /\ receipt' = [receipt EXCEPT ![r] = c]
  BY <1>1 DEF RefuseRange, Count, RequestTypes
<1>6. /\ req[r].at = "submitting" /\ n <= req[r].total /\ status[<<r, n>>] = "new"
      /\ status' = [status EXCEPT ![<<r, n>>] = "refused"]
  BY DEF RefuseRange, Refuse
<1>7. n \in 1..MaxRanges /\ <<r, n>> \in Tasks /\ req[r].total \in 0..MaxRanges
  <2>1. n \in 1..MaxRanges /\ req[r].total \in 0..MaxRanges
    BY <1>1, <1>6, Fields
  <2> QED
    BY <2>1, TaskPairs
<1>8. req[r].pending \in Int /\ receipt[r].planned \in Int /\ Terminal(receipt[r]) \in Int
  BY <1>1, Fields
<1> HIDE DEF n, q, c
<1>9. StatusTypes' /\ status'[<<r, n>>] = "refused"
  BY <1>1, <1>6, <1>7 DEF StatusTypes
<1>10. \A p \in Requests, i \in 1..MaxRanges :
         p # r \/ i # n => status'[<<p, i>>] = status[<<p, i>>]
  BY <1>1, <1>6, <1>7, TaskPairs DEF StatusTypes
<1>11. ASSUME req'[r] = q, receipt'[r] = c PROVE RequestInv(r)'
  <2>1. n \in Owed(r) /\ Owed(r)' = Owed(r) \ {n}
    BY <1>1, <1>3, <1>6, <1>7, <1>9, <1>10, <1>11 DEF Owed, n, RequestInv, SentInv
  <2>2. SlotInv(r)'
    BY <1>3, <1>11, <2>1, OneLess
  <2>3. SentInv(r)'
    BY <1>1, <1>3, <1>6, <1>7, <1>9, <1>10, <1>11 DEF SentInv, RequestInv, n
  <2>4. CountInv(r)'
    BY <1>1, <1>3, <1>4, <1>8, <1>11 DEF CountInv, RequestInv
  <2> QED
    BY <2>2, <2>3, <2>4 DEF RequestInv
<1> QED
  BY <1>3, <1>4, <1>5, <1>9, <1>10, <1>11, StepKeeps

(* A range never sent closes its slot as the submitter goes on.             *)
LEMMA CompleteUnsentKeeps ==
  ASSUME BatchInv, NEW r \in Requests, CompleteUnsent(r)
  PROVE  BatchInv'
<1> DEFINE n == req[r].next
           q == [Close(req[r], "HF_CANCELLED") EXCEPT !.next = @ + 1]
           c == [receipt[r] EXCEPT !.cancelled = @ + 1]
<1>1. RequestTypes /\ StatusTypes /\ RequestInv(r)
  BY DEF BatchInv
<1>2. req[r] \in RequestRecord /\ receipt[r] \in ReceiptRecord
  BY <1>1, Fields
<1>3. /\ q \in RequestRecord
      /\ q.at = req[r].at /\ q.next = n + 1 /\ q.total = req[r].total
      /\ q.pending = req[r].pending - 1 /\ q.done = (req[r].pending = 1)
  <2> DEFINE x == Close(req[r], "HF_CANCELLED")
  <2>1. /\ x \in RequestRecord
        /\ x.at = req[r].at /\ x.next = n /\ x.total = req[r].total
        /\ x.pending = req[r].pending - 1 /\ x.done = (req[r].pending = 1)
    BY <1>2, CloseFields DEF hf_status
  <2> HIDE DEF x
  <2>2. q = [x EXCEPT !.next = n + 1]
    BY <2>1 DEF x
  <2>3. n + 1 \in Nat \ {0}
    BY <1>1, Fields
  <2> HIDE DEF n, q
  <2>4. q \in RequestRecord
    BY <2>1, <2>2, <2>3 DEF RequestRecord
  <2> QED
    BY <2>1, <2>2, <2>4 DEF RequestRecord
<1>4. /\ c \in ReceiptRecord /\ Terminal(c) = Terminal(receipt[r]) + 1
      /\ c.planned = receipt[r].planned
  BY <1>2, CountEnded
<1>5. req' = [req EXCEPT ![r] = q] /\ receipt' = [receipt EXCEPT ![r] = c]
  BY <1>1 DEF CompleteUnsent, Count, RequestTypes
<1>6. req[r].at = "unsent" /\ n <= req[r].total /\ UNCHANGED status
  BY DEF CompleteUnsent
<1>7. n \in 1..MaxRanges /\ req[r].total \in 0..MaxRanges
  BY <1>1, <1>6, Fields
<1>8. req[r].pending \in Int /\ receipt[r].planned \in Int /\ Terminal(receipt[r]) \in Int
  BY <1>1, Fields
<1> HIDE DEF n, q, c
<1>9. StatusTypes'
  BY <1>1, <1>6 DEF StatusTypes
<1>10. ASSUME req'[r] = q, receipt'[r] = c PROVE RequestInv(r)'
  <2>1. n \in Owed(r) /\ Owed(r)' = Owed(r) \ {n}
    BY <1>1, <1>3, <1>6, <1>7, <1>10 DEF Owed, n, RequestInv, SentInv
  <2>2. SlotInv(r)'
    BY <1>3, <1>6, <1>10, <2>1, OneLess
  <2>3. SentInv(r)'
    BY <1>1, <1>3, <1>6, <1>7, <1>10 DEF SentInv, RequestInv, n
  <2>4. CountInv(r)'
    BY <1>1, <1>3, <1>4, <1>6, <1>8, <1>10 DEF CountInv, RequestInv
  <2> QED
    BY <2>2, <2>3, <2>4 DEF RequestInv
<1> QED
  BY <1>3, <1>4, <1>5, <1>6, <1>9, <1>10, StepKeeps

(* An open range closes its slot, in any state of its request but deleted.  *)
LEMMA CompleteKeeps ==
  ASSUME BatchInv, NEW r \in Requests, NEW i \in 1..MaxRanges, NEW result \in TaskResult,
         NEW s \in hf_status, CompleteRange(r, i, result, s)
  PROVE  BatchInv'
<1> DEFINE q == Close(req[r], s)
           c == [receipt[r] EXCEPT ![ReceiptField(s)] = @ + 1]
<1>1. RequestTypes /\ StatusTypes /\ RequestInv(r)
  BY DEF BatchInv
<1>2. req[r] \in RequestRecord /\ receipt[r] \in ReceiptRecord
  BY <1>1, Fields
<1>3. /\ q \in RequestRecord
      /\ q.at = req[r].at /\ q.next = req[r].next /\ q.total = req[r].total
      /\ q.pending = req[r].pending - 1 /\ q.done = (req[r].pending = 1)
  BY <1>2, CloseFields
<1>4. /\ c \in ReceiptRecord /\ Terminal(c) = Terminal(receipt[r]) + 1
      /\ c.planned = receipt[r].planned /\ c.admitted = receipt[r].admitted
      /\ c.rejected = receipt[r].rejected
  <2>1. ReceiptField(s) \in {"completed", "cancelled", "deadline_missed", "failed"}
    BY DEF ReceiptField, hf_status
  <2> QED
    BY <1>2, <2>1, CountEnded
<1>5. req' = [req EXCEPT ![r] = q] /\ receipt' = [receipt EXCEPT ![r] = c]
  BY DEF CompleteRange, Count
<1>6. /\ status[<<r, i>>] = "open" /\ <<r, i>> \in Tasks
      /\ status' = [status EXCEPT ![<<r, i>>] = result]
  BY TaskPairs DEF CompleteRange, Settle
<1>7. result \notin {"new", "open"}
  BY DEF TaskResult
<1>8. /\ req[r].pending \in Int /\ receipt[r].planned \in Int /\ Terminal(receipt[r]) \in Int
      /\ req[r].next \in Nat \ {0} /\ req[r].total \in 0..MaxRanges
  BY <1>1, Fields
<1> HIDE DEF q, c
<1>9. StatusTypes' /\ status'[<<r, i>>] = result
  BY <1>1, <1>6 DEF StatusTypes
<1>10. \A p \in Requests, j \in 1..MaxRanges :
         p # r \/ j # i => status'[<<p, j>>] = status[<<p, j>>]
  BY <1>1, <1>6, TaskPairs DEF StatusTypes
<1>11. i \in Owed(r) /\ ~req[r].done
  <2>1. i \in Owed(r)
    BY <1>1, <1>6, <1>8 DEF Owed, RequestInv, SentInv
  <2>2. req[r].pending # 0
    BY <1>1, <2>1, OwedFinite, FS_EmptySet DEF RequestInv, SlotInv
  <2>3. req[r].at # "unused"
    BY <1>1, <1>6, <1>8 DEF RequestInv, SentInv
  <2> QED
    BY <1>1, <2>1, <2>2, <2>3 DEF RequestInv, SlotInv
<1>12. ASSUME req'[r] = q, receipt'[r] = c PROVE RequestInv(r)'
  <2>1. Owed(r)' = Owed(r) \ {i}
    BY <1>3, <1>6, <1>7, <1>8, <1>9, <1>10, <1>12 DEF Owed
  <2>2. SlotInv(r)'
    BY <1>1, <1>3, <1>11, <1>12, <2>1, OneLess DEF RequestInv, SlotInv
  <2>3. SentInv(r)'
    BY <1>1, <1>3, <1>6, <1>7, <1>8, <1>9, <1>10, <1>12 DEF SentInv, RequestInv
  <2>4. CountInv(r)'
    <3>1. req[r].at # "unused"
      BY <1>1, <1>6, <1>8 DEF RequestInv, SentInv
    <3> QED
      BY <1>1, <1>3, <1>4, <1>8, <1>12, <3>1 DEF CountInv, RequestInv
  <2> QED
    BY <2>2, <2>3, <2>4 DEF RequestInv
<1> QED
  BY <1>3, <1>4, <1>5, <1>9, <1>10, <1>12, StepKeeps
(* Neither a notification nor the runtime's end touches a request.          *)
LEMMA ElseKeeps ==
  ASSUME BatchInv, UNCHANGED <<status, req, receipt>>
  PROVE  BatchInv'
<1>1. ASSUME NEW r \in Requests PROVE RequestInv(r)'
  BY UntouchedKeeps DEF Untouched
<1> QED
  BY <1>1 DEF BatchInv, StatusTypes, RequestTypes

(* Every step keeps the inductive invariant.                                *)
LEMMA NextBatchInv == BatchInv /\ [Next]_vars => BatchInv'
<1> SUFFICES ASSUME BatchInv, [Next]_vars PROVE BatchInv'
  OBVIOUS
<1>1. RequestTypes
  BY DEF BatchInv
<1>2. ASSUME NEW r \in Requests, NEW n \in 1..MaxRanges, Submit(r, n) PROVE BatchInv'
  BY <1>2, SubmitKeeps
<1>3. ASSUME NEW r \in Requests, SubmitStep(r) PROVE BatchInv'
  <2>1. req[r].cancelled \in BOOLEAN
    BY <1>1 DEF RequestTypes, RequestRecord
  <2>2. CASE SendRange(r)
    BY <2>2, SendKeeps
  <2>3. CASE AdmitRange(r)
    BY <2>3, AdmitKeeps
  <2>4. ASSUME NEW s \in {"HF_BUFFER_TOO_SMALL", "HF_KERNEL_FAILURE"}, RefuseRange(r, s)
        PROVE  BatchInv'
    BY <2>4, RefuseKeeps DEF hf_status
  <2>5. CASE CancelSent(r)
    <3>1. req' = [req EXCEPT ![r] = [@ EXCEPT !.at = "unsent", !.cancelled = TRUE]]
      BY <1>1, <2>5 DEF CancelSent, RequestTypes, RequestRecord
    <3> QED
      BY <2>5, <3>1, MoveKeeps DEF CancelSent, RequestAt
  <2>6. CASE CompleteUnsent(r)
    BY <2>6, CompleteUnsentKeeps
  <2>7. CASE WaitFailed(r)
    <3>1. req' = [req EXCEPT ![r] = [@ EXCEPT !.at = "failed", !.cancelled = req[r].cancelled]]
      BY <1>1, <2>7 DEF WaitFailed, RequestTypes, RequestRecord
    <3> QED
      BY <2>1, <2>7, <3>1, MoveKeeps DEF WaitFailed, RequestAt
  <2>8. CASE DeleteFailed(r)
    <3>1. req' = [req EXCEPT ![r] = [@ EXCEPT !.at = "freed", !.cancelled = req[r].cancelled]]
      BY <1>1, <2>8 DEF DeleteFailed, RequestTypes, RequestRecord
    <3> QED
      BY <2>1, <2>8, <3>1, MoveKeeps DEF DeleteFailed, RequestAt
  <2>9. CASE ReturnRequest(r)
    <3>1. req' = [req EXCEPT ![r] = [@ EXCEPT !.at = "live", !.cancelled = req[r].cancelled]]
      BY <1>1, <2>9 DEF ReturnRequest, RequestTypes, RequestRecord
    <3> QED
      BY <2>1, <2>9, <3>1, MoveKeeps DEF ReturnRequest, RequestAt
  <2> QED
    BY <1>3, <2>2, <2>3, <2>4, <2>5, <2>6, <2>7, <2>8, <2>9 DEF SubmitStep
<1>4. ASSUME NEW r \in Requests, RangeStep(r) PROVE BatchInv'
  <2>1. PICK i \in 1..MaxRanges :
          \/ \E result \in TaskResult : \E s \in Statuses(r, result) :
               CompleteRange(r, i, result, s)
          \/ Notify(r, i)
    BY <1>4 DEF RangeStep
  <2>2. ASSUME NEW result \in TaskResult, NEW s \in Statuses(r, result),
               CompleteRange(r, i, result, s)
        PROVE  BatchInv'
    BY <2>2, CompleteKeeps DEF Statuses, hf_status, TaskResult
  <2>3. CASE Notify(r, i)
    BY <2>3, ElseKeeps DEF Notify
  <2> QED
    BY <2>1, <2>2, <2>3
<1>5. ASSUME NEW r \in Requests, CancelRequest(r) \/ DestroyRequest(r) \/ DeleteRequest(r)
      PROVE  BatchInv'
  <2>1. req[r].cancelled \in BOOLEAN
    BY <1>1 DEF RequestTypes, RequestRecord
  <2>2. CASE CancelRequest(r)
    <3>1. req' = [req EXCEPT ![r] = [@ EXCEPT !.at = "live", !.cancelled = TRUE]]
      BY <1>1, <2>2 DEF CancelRequest, RequestTypes, RequestRecord
    <3> QED
      BY <2>2, <3>1, MoveKeeps DEF CancelRequest, RequestAt
  <2>3. CASE DestroyRequest(r)
    <3>1. req' = [req EXCEPT ![r] = [@ EXCEPT !.at = "destroying", !.cancelled = TRUE]]
      BY <1>1, <2>3 DEF DestroyRequest, RequestTypes, RequestRecord
    <3> QED
      BY <2>3, <3>1, MoveKeeps DEF DestroyRequest, RequestAt
  <2>4. CASE DeleteRequest(r)
    <3>1. req' = [req EXCEPT ![r] = [@ EXCEPT !.at = "freed", !.cancelled = req[r].cancelled]]
      BY <1>1, <2>4 DEF DeleteRequest, RequestTypes, RequestRecord
    <3> QED
      BY <2>1, <2>4, <3>1, MoveKeeps DEF DeleteRequest, RequestAt
  <2> QED
    BY <1>5, <2>2, <2>3, <2>4
<1>6. CASE DestroyRuntime \/ RuntimeDestroyed \/ UNCHANGED vars
  BY <1>6, ElseKeeps DEF DestroyRuntime, RuntimeDestroyed, StartClose, EndClose, vars
<1> QED
  BY <1>2, <1>3, <1>4, <1>5, <1>6 DEF Next

(* The inductive invariant holds at every step of every batch.              *)
THEOREM BatchInvariance == Spec => []BatchInv
BY InitBatchInv, NextBatchInv, PTL DEF Spec
-----------------------------------------------------------------------------
(* The receipt balances at every step of every batch.                       *)
THEOREM Balance == Spec => []ReceiptBalances
<1>1. BatchInv => ReceiptBalances
  BY DEF BatchInv, RequestInv, SlotInv, CountInv, ReceiptBalances
<1> QED
  BY <1>1, BatchInvariance, PTL

(* What is owed is not done.                                                *)
LEMMA OwedNotDone ==
  ASSUME BatchInv, NEW r \in Requests, NEW i \in Owed(r)
  PROVE  ~req[r].done
<1>1. req[r].pending # 0
  BY OwedFinite, FS_EmptySet DEF BatchInv, RequestInv, SlotInv
<1> QED
  BY <1>1 DEF BatchInv, RequestInv, SlotInv, SentInv

(* What the dispatcher has is owed.                                         *)
LEMMA OpenOwed ==
  ASSUME BatchInv, NEW r \in Requests, NEW i \in 1..MaxRanges, status[<<r, i>>] = "open"
  PROVE  i \in Owed(r)
<1>1. RequestTypes /\ SentInv(r)
  BY DEF BatchInv, RequestInv
<1>2. req[r].total \in 0..MaxRanges /\ i <= req[r].total
  BY <1>1, Fields DEF SentInv
<1> QED
  BY <1>2 DEF Owed

(* What a waiter may have seen of a request stays.                          *)
Settled(r) == req[r].done => /\ req'[r].done /\ req'[r].result = req[r].result
                             /\ Terminal(receipt'[r]) = Terminal(receipt[r])

(* A step leaves a request alone or is one of its own.                      *)
LEMMA OwnStep ==
  ASSUME BatchInv, Next, NEW p \in Requests
  PROVE  \/ req'[p] = req[p] /\ receipt'[p] = receipt[p]
         \/ \E n \in 1..MaxRanges : Submit(p, n)
         \/ SubmitStep(p)
         \/ \E i \in 1..MaxRanges, result \in TaskResult :
              \E s \in Statuses(p, result) : CompleteRange(p, i, result, s)
         \/ CancelRequest(p) \/ DestroyRequest(p) \/ DeleteRequest(p)
<1>1. req \in [Requests -> RequestRecord] /\ receipt \in [Requests -> ReceiptRecord]
  BY DEF BatchInv, RequestTypes
<1>2. ASSUME NEW r \in Requests, r # p,
             (\E n \in 1..MaxRanges : Submit(r, n)) \/ SubmitStep(r)
      PROVE  req'[p] = req[p] /\ receipt'[p] = receipt[p]
  BY <1>1, <1>2 DEF Submit, SubmitStep, SendRange, AdmitRange, RefuseRange, CancelSent,
     CompleteUnsent, WaitFailed, DeleteFailed, ReturnRequest, Count
<1>3. ASSUME NEW r \in Requests, r # p,
             RangeStep(r) \/ CancelRequest(r) \/ DestroyRequest(r) \/ DeleteRequest(r)
      PROVE  req'[p] = req[p] /\ receipt'[p] = receipt[p]
  BY <1>1, <1>3 DEF RangeStep, CompleteRange, Notify, CancelRequest, DestroyRequest,
     DeleteRequest, Count
<1>4. ASSUME DestroyRuntime \/ RuntimeDestroyed \/ \E i \in 1..MaxRanges : Notify(p, i)
      PROVE  req'[p] = req[p] /\ receipt'[p] = receipt[p]
  BY <1>4 DEF DestroyRuntime, RuntimeDestroyed, Notify
<1>5. PICK r \in Requests :
         \/ \E n \in 1..MaxRanges : Submit(r, n)
         \/ SubmitStep(r) \/ RangeStep(r)
         \/ CancelRequest(r) \/ DestroyRequest(r) \/ DeleteRequest(r)
         \/ DestroyRuntime \/ RuntimeDestroyed
  BY DEF Next
<1>6. CASE r = p
  <2>1. CASE RangeStep(p)
    BY <2>1, <1>4 DEF RangeStep
  <2> QED
    BY <1>4, <1>5, <1>6, <2>1
<1>7. CASE r # p
  BY <1>2, <1>3, <1>4, <1>5, <1>7
<1> QED
  BY <1>6, <1>7

(* A step that closes a slot finds the request not done, and no other step   *)
(* changes what a waiter has seen.                                          *)
LEMMA StepSettled ==
  ASSUME BatchInv, Next, NEW p \in Requests
  PROVE  Settled(p)
<1>1. /\ req \in [Requests -> RequestRecord] /\ receipt \in [Requests -> ReceiptRecord]
  BY DEF BatchInv, RequestTypes
<1>2. CASE req'[p] = req[p] /\ receipt'[p] = receipt[p]
  BY <1>2 DEF Settled
<1>3. ASSUME NEW n \in 1..MaxRanges, Submit(p, n) PROVE ~req[p].done
  BY <1>3 DEF Submit, BatchInv, RequestInv, SentInv
<1>4. ASSUME RefuseRange(p, "HF_BUFFER_TOO_SMALL") \/ RefuseRange(p, "HF_KERNEL_FAILURE")
      PROVE  ~req[p].done
  <2>1. req[p].next \in Owed(p)
    BY <1>4, Fields DEF RefuseRange, Refuse, Owed, BatchInv
  <2> QED
    BY <2>1, OwedNotDone
<1>5. ASSUME CompleteUnsent(p) PROVE ~req[p].done
  <2>1. req[p].next \in Owed(p)
    BY <1>5, Fields DEF CompleteUnsent, Owed, BatchInv, RequestInv, SentInv
  <2> QED
    BY <2>1, OwedNotDone
<1>6. ASSUME NEW i \in 1..MaxRanges, NEW result, NEW s, CompleteRange(p, i, result, s)
      PROVE  ~req[p].done
  <2>1. i \in Owed(p)
    BY <1>6, OpenOwed DEF CompleteRange, Settle
  <2> QED
    BY <2>1, OwedNotDone
<1>7. CASE SendRange(p) \/ CancelSent(p) \/ WaitFailed(p) \/ DeleteFailed(p) \/ ReturnRequest(p)
  BY <1>1, <1>7 DEF SendRange, CancelSent, WaitFailed, DeleteFailed, ReturnRequest, Settled,
                    RequestRecord
<1>8. CASE CancelRequest(p) \/ DestroyRequest(p) \/ DeleteRequest(p)
  BY <1>1, <1>8 DEF CancelRequest, DestroyRequest, DeleteRequest, Settled, RequestRecord
<1>9. CASE AdmitRange(p)
  <2>1. receipt[p] \in ReceiptRecord /\ receipt[p].admitted \in Int
    BY <1>1 DEF ReceiptRecord, ReceiptFields
  <2>2. receipt'[p] = [receipt[p] EXCEPT !.admitted = @ + 1]
    BY <1>1, <1>9 DEF AdmitRange, Count
  <2>3. Terminal(receipt'[p]) = Terminal(receipt[p])
    BY <2>1, <2>2, CountOther
  <2>4. req'[p].done = req[p].done /\ req'[p].result = req[p].result
    BY <1>1, <1>9 DEF AdmitRange, RequestRecord
  <2> QED
    BY <2>3, <2>4 DEF Settled
<1>10. CASE \E n \in 1..MaxRanges : Submit(p, n)
  BY <1>3, <1>10 DEF Settled
<1>11. CASE SubmitStep(p)
  BY <1>4, <1>5, <1>7, <1>9, <1>11 DEF SubmitStep, Settled
<1>12. CASE \E i \in 1..MaxRanges, result \in TaskResult :
              \E s \in Statuses(p, result) : CompleteRange(p, i, result, s)
  BY <1>6, <1>12 DEF Settled
<1> QED
  BY <1>2, <1>8, <1>10, <1>11, <1>12, OwnStep

(* Only the worker that set done notifies.                                   *)
NotifierInv ==
  \A r \in Requests : \A i \in 1..MaxRanges : <<r, i>> \in notifying =>
    /\ req[r].done
    /\ \A j \in 1..MaxRanges : <<r, j>> \in notifying => i = j

(* Who is to notify changes as a range is completed, or as it notifies.      *)
LEMMA NotifierStep ==
  ASSUME Next
  PROVE  \/ notifying' \subseteq notifying
         \/ \E r \in Requests, i \in 1..MaxRanges, result \in TaskResult :
              \E s \in Statuses(r, result) : CompleteRange(r, i, result, s)
<1>1. ASSUME NEW r \in Requests,
             (\E n \in 1..MaxRanges : Submit(r, n)) \/ SubmitStep(r)
               \/ CancelRequest(r) \/ DestroyRequest(r) \/ DeleteRequest(r)
      PROVE  notifying' = notifying
  BY <1>1 DEF Submit, SubmitStep, SendRange, AdmitRange, RefuseRange, CancelSent,
     CompleteUnsent, WaitFailed, DeleteFailed, ReturnRequest, CancelRequest, DestroyRequest,
     DeleteRequest
<1>2. ASSUME DestroyRuntime \/ RuntimeDestroyed PROVE notifying' = notifying
  BY <1>2 DEF DestroyRuntime, RuntimeDestroyed
<1>3. ASSUME NEW r \in Requests, NEW i \in 1..MaxRanges, Notify(r, i)
      PROVE  notifying' \subseteq notifying
  BY <1>3 DEF Notify
<1> QED
  BY <1>1, <1>2, <1>3 DEF Next, RangeStep

(* A range that closes the last slot finds the request not done, so nobody   *)
(* is to notify of it yet.                                                  *)
LEMMA NotifierKept ==
  ASSUME BatchInv, NotifierInv, Next
  PROVE  NotifierInv'
<1>1. \A r \in Requests : Settled(r)
  BY StepSettled
<1>2. CASE notifying' \subseteq notifying
  BY <1>1, <1>2 DEF NotifierInv, Settled
<1>3. ASSUME NEW r \in Requests, NEW i \in 1..MaxRanges, NEW result, NEW s,
             CompleteRange(r, i, result, s)
      PROVE  NotifierInv'
  <2>1. ~req[r].done
    <3>1. i \in Owed(r)
      BY <1>3, OpenOwed DEF CompleteRange, Settle
    <3> QED
      BY <3>1, OwedNotDone
  <2>2. \A j \in 1..MaxRanges : <<r, j>> \notin notifying
    BY <2>1 DEF NotifierInv
  <2>3. CASE req[r].pending # 1
    <3>1. notifying' = notifying
      BY <1>3, <2>3 DEF CompleteRange
    <3> QED
      BY <1>2, <3>1
  <2>4. CASE req[r].pending = 1
    <3>1. notifying' = notifying \cup {<<r, i>>}
      BY <1>3, <2>4 DEF CompleteRange
    <3>2. req'[r].done
      <4>1. req[r] \in RequestRecord /\ req' = [req EXCEPT ![r] = Close(req[r], s)]
        BY <1>3 DEF CompleteRange, BatchInv, RequestTypes
      <4>2. req'[r] = Close(req[r], s)
        BY <4>1 DEF BatchInv, RequestTypes
      <4> QED
        BY <2>4, <4>1, <4>2 DEF Close, RequestRecord
    <3> QED
      BY <1>1, <2>2, <3>1, <3>2 DEF NotifierInv, Settled
  <2> QED
    BY <2>3, <2>4
<1> QED
  BY <1>2, <1>3, NotifierStep

(* A request is deleted when it is done: none of its ranges is open then,     *)
(* and at most the worker that set done has yet to notify.                   *)
THEOREM Freed == Spec => []OnlyNotifierLeft
<1>1. ASSUME BatchInv, NEW r \in Requests, NEW i \in 1..MaxRanges, status[<<r, i>>] = "open"
      PROVE  req[r].at # "freed"
  <2>1. i \in Owed(r)
    BY <1>1, OpenOwed
  <2> QED
    BY <1>1, <2>1, OwedNotDone DEF BatchInv, RequestInv, SlotInv
<1>2. BatchInv /\ NotifierInv => OnlyNotifierLeft
  BY <1>1 DEF OnlyNotifierLeft, NotifierInv
<1>3. Init => NotifierInv
  BY DEF Init, NotifierInv
<1>4. BatchInv /\ NotifierInv /\ [Next]_vars => NotifierInv'
  <2>1. CASE Next
    BY <2>1, NotifierKept
  <2>2. CASE UNCHANGED vars
    BY <2>2 DEF vars, NotifierInv
  <2> QED
    BY <2>1, <2>2
<1> QED
  BY <1>2, <1>3, <1>4, BatchInvariance, PTL DEF Spec

(* Once done, the result and the counts of ended ranges never change.       *)
THEOREM Final == Spec => DoneIsFinal
<1>1. ASSUME BatchInv, Next PROVE \A r \in Requests : Settled(r)
  BY <1>1, StepSettled
<1>2. BatchInv /\ [Next]_vars =>
        [\A r \in Requests : req[r].done =>
           /\ req'[r].done /\ req'[r].result = req[r].result
           /\ Terminal(receipt'[r]) = Terminal(receipt[r])]_vars
  BY <1>1 DEF Settled
<1> QED
  BY <1>2, BatchInvariance, PTL DEF Spec, DoneIsFinal
-----------------------------------------------------------------------------
(* What a result says about the counters that ended.                        *)
Matches(result, c) ==
  CASE result = "HF_OK" -> c.completed = Terminal(c)
    [] result = "HF_CANCELLED" ->
         c.cancelled > 0 /\ c.deadline_missed + c.failed = 0 /\ ~(c.rejected > 0)
    [] result = "HF_DEADLINE_MISSED" ->
         c.deadline_missed > 0 /\ c.failed = 0 /\ ~(c.rejected > 0)
    [] result = "HF_KERNEL_FAILURE" -> c.failed > 0 \/ c.rejected > 0
    [] result = "HF_INVALID_ARGUMENT" -> c.failed > 0
    [] OTHER -> c.rejected > 0

Counted(c) == /\ c.completed \in Nat /\ c.cancelled \in Nat /\ c.deadline_missed \in Nat
              /\ c.failed \in Nat /\ c.rejected \in Nat

ResultInv == \A r \in Requests : Counted(receipt[r]) /\ Matches(req[r].result, receipt[r])

(* All that ended was completed: nothing else is counted.                   *)
LEMMA NoOther ==
  ASSUME NEW k \in Nat, NEW a \in Nat, NEW b \in Nat, NEW d \in Nat, NEW e \in Nat,
         k = k + a + b + d + e
  PROVE  a = 0 /\ b = 0 /\ d = 0 /\ e = 0
OBVIOUS

(* One more outcome counted, with the worse of the two results.             *)
LEMMA OutcomeMatches ==
  ASSUME NEW c \in ReceiptRecord, Counted(c), NEW old \in hf_status, Matches(old, c),
         NEW s \in hf_status, s # "HF_BUFFER_TOO_SMALL",
         NEW d, d = [c EXCEPT ![ReceiptField(s)] = @ + 1]
  PROVE  Counted(d) /\ Matches(Worse(old, s), d)
<1>1. ReceiptField(s) \in {"completed", "cancelled", "deadline_missed", "failed"}
  BY DEF ReceiptField, hf_status
<1>2. /\ d.completed = IF s = "HF_OK" THEN c.completed + 1 ELSE c.completed
      /\ d.cancelled = IF s = "HF_CANCELLED" THEN c.cancelled + 1 ELSE c.cancelled
      /\ d.deadline_missed = IF s = "HF_DEADLINE_MISSED" THEN c.deadline_missed + 1 ELSE c.deadline_missed
      /\ d.failed = IF s \in {"HF_KERNEL_FAILURE", "HF_INVALID_ARGUMENT"} THEN c.failed + 1 ELSE c.failed
      /\ d.rejected = c.rejected
  <2>1. \A g \in ReceiptFields : d[g] = IF g = ReceiptField(s) THEN c[g] + 1 ELSE c[g]
    BY <1>1 DEF ReceiptRecord, ReceiptFields
  <2> QED
    BY <2>1 DEF ReceiptFields, ReceiptField, hf_status
<1>3. Counted(d)
  BY <1>2 DEF Counted
<1>4. ASSUME old = "HF_OK"
      PROVE  c.cancelled = 0 /\ c.deadline_missed = 0 /\ c.failed = 0 /\ c.rejected = 0
  <2>1. c.completed = c.completed + c.cancelled + c.deadline_missed + c.failed + c.rejected
    BY <1>4 DEF Matches, Terminal
  <2>2. /\ c.completed \in Nat /\ c.cancelled \in Nat /\ c.deadline_missed \in Nat
        /\ c.failed \in Nat /\ c.rejected \in Nat
    BY DEF Counted
  <2> QED
    BY ONLY <2>1, <2>2, NoOther
<1>5. CASE s = "HF_OK"
  <2>1. Worse(old, s) = old
    BY <1>5 DEF Worse, status_priority, hf_status
  <2> QED
    BY <1>2, <1>3, <1>5, <2>1 DEF Matches, Counted, Terminal
<1>6. CASE s = "HF_CANCELLED"
  <2>1. Worse(old, s) = IF old = "HF_OK" THEN s ELSE old
    BY <1>6 DEF Worse, status_priority, hf_status
  <2>2. CASE old = "HF_OK"
    BY <1>2, <1>3, <1>6, <1>4, <2>1, <2>2 DEF Matches, Counted
  <2>3. CASE old # "HF_OK"
    BY <1>2, <1>3, <1>6, <2>1, <2>3 DEF Matches, Counted, hf_status
  <2> QED
    BY <2>2, <2>3
<1>7. CASE s = "HF_DEADLINE_MISSED"
  <2>1. Worse(old, s) = IF old \in {"HF_OK", "HF_CANCELLED"} THEN s ELSE old
    BY <1>7 DEF Worse, status_priority, hf_status
  <2>2. CASE old \in {"HF_OK", "HF_CANCELLED"}
    <3>1. c.failed = 0 /\ c.rejected = 0
      BY <1>4, <2>2 DEF Matches, Counted
    <3> QED
      BY <1>2, <1>7, <2>1, <2>2, <3>1 DEF Matches, Counted
  <2>3. CASE old \notin {"HF_OK", "HF_CANCELLED"}
    BY <1>2, <1>7, <2>1, <2>3 DEF Matches, Counted, hf_status
  <2> QED
    BY <1>3, <2>2, <2>3
<1>8. CASE s = "HF_KERNEL_FAILURE"
  <2>1. Worse(old, s) = IF old \in {"HF_BUFFER_TOO_SMALL", "HF_INVALID_ARGUMENT"} THEN old ELSE s
    BY <1>8 DEF Worse, status_priority, hf_status
  <2> QED
    BY <1>2, <1>3, <1>8, <2>1 DEF Matches, Counted
<1>9. CASE s = "HF_INVALID_ARGUMENT"
  <2>1. Worse(old, s) = IF old = "HF_BUFFER_TOO_SMALL" THEN old ELSE s
    BY <1>9 DEF Worse, status_priority, hf_status
  <2> QED
    BY <1>2, <1>3, <1>9, <2>1 DEF Matches, Counted
<1> QED
  BY <1>3, <1>5, <1>6, <1>7, <1>8, <1>9 DEF hf_status

LEMMA RefusalMatches ==
  ASSUME NEW c \in ReceiptRecord, Counted(c), NEW old \in hf_status, Matches(old, c),
         NEW s \in {"HF_BUFFER_TOO_SMALL", "HF_KERNEL_FAILURE"},
         NEW d, d = [c EXCEPT !.rejected = @ + 1]
  PROVE  Counted(d) /\ Matches(Worse(old, s), d)
<1>1. /\ d.completed = c.completed /\ d.cancelled = c.cancelled
      /\ d.deadline_missed = c.deadline_missed /\ d.failed = c.failed
      /\ d.rejected = c.rejected + 1
  BY DEF ReceiptRecord, ReceiptFields
<1> QED
  BY <1>1 DEF Matches, Counted, Worse, status_priority, hf_status

(* What is neither an outcome nor a refusal.                                *)
LEMMA OtherMatches ==
  ASSUME NEW c \in ReceiptRecord, Counted(c), NEW old \in hf_status, Matches(old, c),
         NEW f \in {"planned", "admitted"}, NEW v, NEW d, d = [c EXCEPT ![f] = v]
  PROVE  Counted(d) /\ Matches(old, d)
<1>1. /\ d.completed = c.completed /\ d.cancelled = c.cancelled
      /\ d.deadline_missed = c.deadline_missed /\ d.failed = c.failed
      /\ d.rejected = c.rejected
  BY DEF ReceiptRecord, ReceiptFields
<1> QED
  BY <1>1 DEF Matches, Counted, Terminal

(* Every step keeps the result the worst of the counted outcomes.           *)
LEMMA NextResultInv == BatchInv /\ ResultInv /\ [Next]_vars => ResultInv'
<1> SUFFICES ASSUME BatchInv, ResultInv, Next, NEW p \in Requests
             PROVE  Counted(receipt'[p]) /\ Matches(req'[p].result, receipt'[p])
  BY DEF ResultInv, vars
<1>1. /\ req \in [Requests -> RequestRecord] /\ receipt \in [Requests -> ReceiptRecord]
      /\ receipt[p] \in ReceiptRecord /\ req[p].result \in hf_status
      /\ Counted(receipt[p]) /\ Matches(req[p].result, receipt[p])
  BY DEF BatchInv, RequestTypes, RequestRecord, ResultInv
<1>2. CASE req'[p].result = req[p].result /\ receipt'[p] = receipt[p]
  BY <1>1, <1>2
<1>3. ASSUME NEW n \in 1..MaxRanges, Submit(p, n)
      PROVE  Counted(receipt'[p]) /\ Matches(req'[p].result, receipt'[p])
  <2>1. /\ req'[p].result = req[p].result
        /\ receipt'[p] = [receipt[p] EXCEPT !.planned = n]
    BY <1>1, <1>3 DEF Submit, RequestRecord
  <2> QED
    BY <1>1, <2>1, OtherMatches
<1>4. CASE AdmitRange(p)
  <2>1. /\ req'[p].result = req[p].result
        /\ receipt'[p] = [receipt[p] EXCEPT !.admitted = @ + 1]
    BY <1>1, <1>4 DEF AdmitRange, Count, RequestRecord
  <2> QED
    BY <1>1, <2>1, OtherMatches
<1>5. ASSUME NEW s \in {"HF_BUFFER_TOO_SMALL", "HF_KERNEL_FAILURE"}, RefuseRange(p, s)
      PROVE  Counted(receipt'[p]) /\ Matches(req'[p].result, receipt'[p])
  <2>1. /\ req'[p].result = Worse(req[p].result, s)
        /\ receipt'[p] = [receipt[p] EXCEPT !.rejected = @ + 1]
    BY <1>1, <1>5 DEF RefuseRange, Count, Close, RequestRecord
  <2> QED
    BY <1>1, <2>1, RefusalMatches
<1>6. CASE CompleteUnsent(p)
  <2>1. /\ req'[p].result = Worse(req[p].result, "HF_CANCELLED")
        /\ receipt'[p] = [receipt[p] EXCEPT ![ReceiptField("HF_CANCELLED")] = @ + 1]
    BY <1>1, <1>6 DEF CompleteUnsent, Count, Close, RequestRecord, ReceiptField
  <2> QED
    BY <1>1, <2>1, OutcomeMatches DEF hf_status
<1>7. ASSUME NEW i \in 1..MaxRanges, NEW result \in TaskResult, NEW s \in Statuses(p, result),
             CompleteRange(p, i, result, s)
      PROVE  Counted(receipt'[p]) /\ Matches(req'[p].result, receipt'[p])
  <2>1. /\ req'[p].result = Worse(req[p].result, s)
        /\ receipt'[p] = [receipt[p] EXCEPT ![ReceiptField(s)] = @ + 1]
    BY <1>1, <1>7 DEF CompleteRange, Count, Close, RequestRecord
  <2>2. s \in hf_status /\ s # "HF_BUFFER_TOO_SMALL"
    BY DEF Statuses, hf_status, TaskResult
  <2> QED
    BY <1>1, <2>1, <2>2, OutcomeMatches
<1>8. CASE SendRange(p) \/ CancelSent(p) \/ WaitFailed(p) \/ DeleteFailed(p) \/ ReturnRequest(p)
  BY <1>1, <1>2, <1>8 DEF SendRange, CancelSent, WaitFailed, DeleteFailed, ReturnRequest,
                          RequestRecord
<1>9. CASE CancelRequest(p) \/ DestroyRequest(p) \/ DeleteRequest(p)
  BY <1>1, <1>2, <1>9 DEF CancelRequest, DestroyRequest, DeleteRequest, RequestRecord
<1>10. CASE SubmitStep(p)
  BY <1>4, <1>5, <1>6, <1>8, <1>10 DEF SubmitStep
<1> QED
  BY <1>2, <1>3, <1>7, <1>9, <1>10, OwnStep

(* The result is the worst of the outcomes that the receipt counts.         *)
THEOREM ResultIsWorst == Spec => []ResultMatchesReceipt
<1>1. Init => ResultInv
  BY DEF Init, NewRequest, ReceiptFields, ResultInv, Counted, Matches, Terminal
<1>2. ResultInv => ResultMatchesReceipt
  BY DEF ResultInv, Matches, ResultMatchesReceipt
<1> QED
  BY <1>1, <1>2, NextResultInv, BatchInvariance, PTL DEF Spec
-----------------------------------------------------------------------------
(* What bounds the counters: the plan is the batch, and no more was admitted *)
(* than was sent.                                                           *)
BoundInv(r) == /\ req[r].next <= req[r].total + 1 /\ receipt[r].planned = req[r].total
               /\ receipt[r].admitted \in Nat /\ receipt[r].admitted <= req[r].next - 1

TypeInv == /\ phase \in {"serving", "closing", "closed"} /\ notifying \subseteq Tasks
           /\ \A r \in Requests : BoundInv(r)

(* Every step keeps the counters within the batch.                          *)
LEMMA NextBounds ==
  ASSUME BatchInv, TypeInv, Next, NEW p \in Requests
  PROVE  BoundInv(p)'
<1>1. /\ req \in [Requests -> RequestRecord] /\ receipt \in [Requests -> ReceiptRecord]
      /\ req[p] \in RequestRecord /\ receipt[p] \in ReceiptRecord
      /\ req[p].next \in Nat \ {0} /\ req[p].total \in 0..MaxRanges
      /\ SentInv(p) /\ CountInv(p) /\ BoundInv(p)
  BY Fields DEF BatchInv, RequestTypes, RequestInv, TypeInv
<1>2. ASSUME /\ req'[p].next = req[p].next /\ req'[p].total = req[p].total
             /\ receipt'[p].planned = receipt[p].planned
             /\ receipt'[p].admitted = receipt[p].admitted
      PROVE  BoundInv(p)'
  BY <1>1, <1>2 DEF BoundInv
<1>3. ASSUME NEW n \in 1..MaxRanges, Submit(p, n) PROVE BoundInv(p)'
  <2>1. /\ req'[p].next = 1 /\ req'[p].total = n
        /\ receipt'[p].planned = n /\ receipt'[p].admitted = 0
    BY <1>1, <1>3 DEF Submit, RequestRecord, ReceiptRecord, ReceiptFields, SentInv, CountInv
  <2> QED
    BY <2>1 DEF BoundInv
<1>4. CASE AdmitRange(p)
  <2>1. /\ req'[p].next = req[p].next + 1 /\ req'[p].total = req[p].total
        /\ receipt'[p].planned = receipt[p].planned
        /\ receipt'[p].admitted = receipt[p].admitted + 1
    BY <1>1, <1>4 DEF AdmitRange, Count, RequestRecord, ReceiptRecord, ReceiptFields
  <2>2. req[p].next <= req[p].total
    BY <1>1, <1>4 DEF AdmitRange, SentInv
  <2> QED
    BY <1>1, <2>1, <2>2 DEF BoundInv
<1>5. ASSUME NEW s, RefuseRange(p, s) PROVE BoundInv(p)'
  <2>1. /\ req'[p].next = req[p].next + 1 /\ req'[p].total = req[p].total
        /\ receipt'[p].planned = receipt[p].planned
        /\ receipt'[p].admitted = receipt[p].admitted /\ req[p].next <= req[p].total
    BY <1>1, <1>5 DEF RefuseRange, Count, Close, RequestRecord, ReceiptRecord, ReceiptFields
  <2> QED
    BY <1>1, <2>1 DEF BoundInv
<1>6. CASE CompleteUnsent(p)
  <2>1. /\ req'[p].next = req[p].next + 1 /\ req'[p].total = req[p].total
        /\ receipt'[p].planned = receipt[p].planned
        /\ receipt'[p].admitted = receipt[p].admitted /\ req[p].next <= req[p].total
    BY <1>1, <1>6 DEF CompleteUnsent, Count, Close, RequestRecord, ReceiptRecord, ReceiptFields
  <2> QED
    BY <1>1, <2>1 DEF BoundInv
<1>7. ASSUME NEW i \in 1..MaxRanges, NEW result \in TaskResult, NEW s \in Statuses(p, result),
             CompleteRange(p, i, result, s)
      PROVE  BoundInv(p)'
  <2>1. ReceiptField(s) \in {"completed", "cancelled", "deadline_missed", "failed"}
    BY DEF Statuses, TaskResult, ReceiptField
  <2>2. req'[p].next = req[p].next /\ req'[p].total = req[p].total
    BY <1>1, <1>7 DEF CompleteRange, Close, RequestRecord
  <2>3. receipt'[p].planned = receipt[p].planned /\ receipt'[p].admitted = receipt[p].admitted
    BY <1>1, <1>7, <2>1 DEF CompleteRange, Count, ReceiptRecord, ReceiptFields
  <2> QED
    BY <1>2, <2>2, <2>3
<1>8. CASE SendRange(p) \/ CancelSent(p) \/ WaitFailed(p) \/ DeleteFailed(p) \/ ReturnRequest(p)
  BY <1>1, <1>2, <1>8 DEF SendRange, CancelSent, WaitFailed, DeleteFailed, ReturnRequest,
                          RequestRecord
<1>9. CASE CancelRequest(p) \/ DestroyRequest(p) \/ DeleteRequest(p)
  BY <1>1, <1>2, <1>9 DEF CancelRequest, DestroyRequest, DeleteRequest, RequestRecord
<1>10. CASE SubmitStep(p)
  BY <1>4, <1>5, <1>6, <1>8, <1>10 DEF SubmitStep
<1>11. CASE req'[p] = req[p] /\ receipt'[p] = receipt[p]
  BY <1>2, <1>11
<1> QED
  BY <1>3, <1>7, <1>9, <1>10, <1>11, OwnStep

(* Every step keeps the types that BatchInv leaves out.                     *)
LEMMA NextTypeInv == BatchInv /\ TypeInv /\ [Next]_vars => TypeInv'
<1>1. ASSUME TypeInv, UNCHANGED vars PROVE TypeInv'
  BY <1>1 DEF TypeInv, BoundInv, vars
<1>2. ASSUME TypeInv, Next PROVE (phase \in {"serving", "closing", "closed"})'
  <2>1. phase \in {"serving", "closing", "closed"}
    BY <1>2 DEF TypeInv
  <2>2. ASSUME NEW r \in Requests, NEW n, Submit(r, n) PROVE UNCHANGED phase
    BY <2>2 DEF Submit
  <2>3. ASSUME NEW r \in Requests, SubmitStep(r) PROVE UNCHANGED phase
    BY <2>3 DEF SubmitStep, SendRange, TakeOn, AdmitRange, RefuseRange, Refuse, CancelSent,
       CompleteUnsent, WaitFailed, DeleteFailed, ReturnRequest
  <2>4. ASSUME NEW r \in Requests,
               RangeStep(r) \/ CancelRequest(r) \/ DestroyRequest(r) \/ DeleteRequest(r)
        PROVE  UNCHANGED phase
    BY <2>4
    DEF RangeStep, CompleteRange, Settle, Notify, CancelRequest, DestroyRequest, DeleteRequest
  <2>5. CASE DestroyRuntime \/ RuntimeDestroyed
    BY <2>5 DEF DestroyRuntime, StartClose, RuntimeDestroyed, EndClose
  <2> QED
    BY <1>2, <2>1, <2>2, <2>3, <2>4, <2>5 DEF Next
<1>3. ASSUME TypeInv, Next PROVE (notifying \subseteq Tasks)'
  <2>1. CASE UNCHANGED notifying
    BY <1>3, <2>1 DEF TypeInv, Tasks
  <2>2. ASSUME NEW r \in Requests, RangeStep(r) PROVE notifying' \subseteq Tasks
    BY <1>3, <2>2, TaskPairs DEF TypeInv, RangeStep, CompleteRange, Notify
  <2> QED
    BY <1>3, <2>1, <2>2
    DEF Next, Submit, SubmitStep, SendRange, AdmitRange, RefuseRange, CancelSent, CompleteUnsent,
        WaitFailed, DeleteFailed, ReturnRequest, CancelRequest, DestroyRequest, DeleteRequest,
        DestroyRuntime, RuntimeDestroyed, Tasks
<1>4. ASSUME BatchInv, TypeInv, Next PROVE TypeInv'
  BY <1>2, <1>3, <1>4, NextBounds DEF TypeInv
<1> QED
  BY <1>1, <1>4

(* The three invariants bound every variable.                               *)
LEMMA Typed == BatchInv /\ ResultInv /\ TypeInv => TypeOK
<1> SUFFICES ASSUME BatchInv, ResultInv, TypeInv PROVE TypeOK
  OBVIOUS
<1>1. ASSUME NEW r \in Requests
      PROVE  req[r] \in [at : RequestAt, next : 1..(MaxRanges + 1), total : 0..MaxRanges,
                         pending : 0..MaxRanges, done : BOOLEAN, result : hf_status,
                         cancelled : BOOLEAN]
  <2>1. /\ req[r] \in RequestRecord /\ req[r].next \in Nat \ {0} /\ req[r].total \in 0..MaxRanges
        /\ req[r].next <= req[r].total + 1 /\ req[r].pending = Cardinality(Owed(r))
    BY Fields DEF BatchInv, RequestInv, SlotInv, TypeInv, BoundInv
  <2>2. Owed(r) \in SUBSET (1..req[r].total) /\ IsFiniteSet(1..req[r].total)
        /\ Cardinality(1..req[r].total) = req[r].total
    <3> DEFINE n == req[r].total
    <3>1. n \in Nat
      BY <2>1
    <3>2. Owed(r) \in SUBSET (1..n)
      BY DEF Owed
    <3> HIDE DEF n
    <3>3. IsFiniteSet(1..n) /\ Cardinality(1..n) = IF 1 > n THEN 0 ELSE n - 1 + 1
      BY <3>1, FS_Interval
    <3>4. Cardinality(1..n) = n
      BY <3>1, <3>3
    <3> QED
      BY <3>2, <3>3, <3>4 DEF n
  <2>3. Cardinality(Owed(r)) \in 0..MaxRanges
    BY <2>1, <2>2, OwedFinite, FS_Subset DEF BatchInv
  <2>4. req[r].next \in 1..(MaxRanges + 1) /\ req[r].pending \in 0..MaxRanges
    BY <2>1, <2>3
  <2> QED
    BY <2>1, <2>4 DEF RequestRecord
<1>2. ASSUME NEW r \in Requests PROVE receipt[r] \in [ReceiptFields -> 0..MaxRanges]
  <2>1. /\ receipt[r] \in ReceiptRecord /\ receipt[r].planned = req[r].total
        /\ req[r].total \in 0..MaxRanges /\ req[r].next <= req[r].total + 1
        /\ receipt[r].admitted \in Nat /\ receipt[r].admitted <= req[r].next - 1
        /\ req[r].next \in Nat
    BY Fields DEF BatchInv, TypeInv, BoundInv
  <2>2. receipt[r].planned = req[r].pending + Terminal(receipt[r]) /\ req[r].pending \in Nat
    BY OwedFinite DEF BatchInv, RequestInv, SlotInv, CountInv
  <2>3. Counted(receipt[r])
    BY DEF ResultInv
  <2>4. /\ receipt[r].planned \in 0..MaxRanges /\ receipt[r].admitted \in 0..MaxRanges
        /\ receipt[r].completed \in 0..MaxRanges /\ receipt[r].cancelled \in 0..MaxRanges
        /\ receipt[r].deadline_missed \in 0..MaxRanges /\ receipt[r].failed \in 0..MaxRanges
        /\ receipt[r].rejected \in 0..MaxRanges
    BY <2>1, <2>2, <2>3 DEF Counted, Terminal
  <2> QED
    BY <2>1, <2>4 DEF ReceiptRecord, ReceiptFields
<1> QED
  BY <1>1, <1>2 DEF TypeOK, BatchInv, StatusTypes, RequestTypes, TypeInv

(* The receipt of every batch accounts for its ranges, its result for the    *)
(* receipt, and every counter stays within the batch.                       *)
THEOREM ReceiptAgreement == Spec => []ReceiptAgrees
<1>1. Init => TypeInv
  BY DEF Init, ServiceInit, NewRequest, ReceiptFields, TypeInv, BoundInv
<1>2. Init => ResultInv
  BY DEF Init, NewRequest, ReceiptFields, ResultInv, Counted, Matches, Terminal
<1>3. TypeOK /\ ReceiptBalances /\ ResultMatchesReceipt => ReceiptAgrees
  BY DEF ReceiptAgrees
<1> QED
  BY <1>1, <1>2, <1>3, Typed, NextTypeInv, NextResultInv, BatchInvariance, Balance, ResultIsWorst,
     PTL DEF Spec
-----------------------------------------------------------------------------
(* A ragged request, for any number of chunks.                              *)
USE ChunksAssumption

(* The instance counts as this module does.                                 *)
LEMMA SameCount == \A S : Ragged!Cardinality(S) = Cardinality(S)
BY DEF Ragged!Cardinality, Cardinality

(* A chunk is submitted in its turn, and the submission ends with the last.  *)
OrderInv == /\ \A t \in 1..Chunks : group_status[t] = "new" <=> t >= next
            /\ IF request = "submitting" THEN next \in 1..Chunks ELSE next = Chunks + 1

(* A task is finished when its function has returned or a callback has      *)
(* been called, and the function runs only while the task is open.          *)
RunInv ==
  \A t \in 1..Chunks :
    /\ t \in finished <=> run[t] \in {"returned", "done"}
    /\ run[t] \in {"entered", "computing", "returned"} => group_status[t] = "open"
    /\ run[t] = "done" => group_status[t] \in GroupResult
    /\ run[t] = "out" => group_status[t] \in {"new", "refused", "open"}

(* A mark is set for a chunk that is refused or finished without a result.   *)
FlagInv == /\ \A t \in Ragged!Refused : "Failed" \in flags
           /\ \A t \in finished \ computed : flags # {}

(* Verdicts are given of a group that has ended, and are its verdict.       *)
VerdictInv == verdicts # {} => remaining = 0 /\ verdicts = {Ragged!Verdict}

GoneInv == request = "gone" => remaining = 0

GroupIInv == /\ Ragged!TypeOK /\ Ragged!RemainingCounts
             /\ OrderInv /\ RunInv /\ FlagInv /\ VerdictInv /\ GoneInv

Over == finished \cup Ragged!Refused

LEMMA GroupInit == Ragged!Init => GroupIInv
<1> SUFFICES ASSUME Ragged!Init PROVE GroupIInv
  OBVIOUS
<1>1. Ragged!TypeOK
  <2>1. Chunks \in Nat /\ 1 \in 1..(Chunks + 1) /\ Chunks \in 0..Chunks
    OBVIOUS
  <2> QED
    BY <2>1 DEF Ragged!Init, Ragged!ServiceInit, Ragged!TypeOK
<1>2. OrderInv /\ RunInv
  BY DEF Ragged!Init, Ragged!ServiceInit, OrderInv, RunInv
<1>3. Over = {}
  BY DEF Ragged!Init, Ragged!ServiceInit, Over, Ragged!Refused
<1>4. Ragged!RemainingCounts
  <2>1. Cardinality(finished \cup Ragged!Refused) = 0
    BY <1>3, FS_EmptySet DEF Over
  <2> QED
    BY <2>1, SameCount DEF Ragged!Init, Ragged!RemainingCounts
<1>5. FlagInv /\ VerdictInv /\ GoneInv
  BY <1>3 DEF Ragged!Init, FlagInv, VerdictInv, GoneInv, Over
<1> QED
  BY <1>1, <1>2, <1>4, <1>5 DEF GroupIInv

(* The count is of a finite set: none left means each chunk is over, and a   *)
(* chunk that is not is counted.                                            *)
LEMMA CountTells ==
  ASSUME Ragged!TypeOK, Ragged!RemainingCounts
  PROVE  /\ IsFiniteSet(Over) /\ Over \subseteq 1..Chunks /\ Cardinality(Over) \in 0..Chunks
         /\ remaining = 0 => Over = 1..Chunks
         /\ \A t \in (1..Chunks) \ Over :
              /\ remaining > 0
              /\ Cardinality(Over \cup {t}) = Cardinality(Over) + 1
<1>1. IsFiniteSet((1..Chunks)) /\ Cardinality((1..Chunks)) = Chunks
  BY FS_Interval
<1>2. Over \subseteq 1..Chunks
  BY DEF Over, Ragged!Refused, Ragged!TypeOK
<1>3. /\ IsFiniteSet(Over) /\ Cardinality(Over) <= Chunks
      /\ Cardinality(Over) = Chunks => Over = 1..Chunks
  BY <1>1, <1>2, FS_Subset
<1>4. Cardinality(Over) \in Nat
  BY <1>3, FS_CardinalityType
<1>5. \A t \in (1..Chunks) \ Over : Cardinality(Over \cup {t}) = Cardinality(Over) + 1
  BY <1>3, FS_AddElement
<1>6. remaining = Chunks - Cardinality(Over) /\ Chunks \in Nat
  BY SameCount DEF Ragged!RemainingCounts, Over
<1>7. remaining = 0 => Over = 1..Chunks
  BY <1>3, <1>4, <1>6
<1>8. \A t \in (1..Chunks) \ Over : remaining > 0
  BY <1>2, <1>3, <1>4, <1>6
<1> QED
  BY <1>2, <1>3, <1>4, <1>5, <1>6, <1>7, <1>8

(* One more chunk is over, and the group hears of it.                       *)
Counts(t, result) ==
  t \in (1..Chunks) \ Over /\ Over' = Over \cup {t} /\ Ragged!FinishGroup(result)

(* What every step does to the group: nothing, or one more chunk is over.    *)
LEMMA CountKeeps ==
  ASSUME GroupIInv, NEW t, NEW r, Counts(t, r)
  PROVE  /\ Ragged!RemainingCounts' /\ remaining' \in 0..Chunks
         /\ verdicts = {} /\ request # "gone"
<1>1. /\ remaining > 0 /\ Cardinality(Over') = Cardinality(Over) + 1
      /\ Cardinality(Over) \in 0..Chunks /\ remaining \in 0..Chunks
  BY CountTells DEF Counts, GroupIInv, Ragged!TypeOK
<1>2. remaining' = remaining - 1
  BY <1>1 DEF Counts, Ragged!FinishGroup
<1>3. remaining = Chunks - Cardinality(Over) /\ Chunks \in Nat
  BY SameCount DEF GroupIInv, Ragged!RemainingCounts, Over
<1>4. remaining' = Chunks - Cardinality(Over')
  BY <1>1, <1>2, <1>3
<1>5. Ragged!RemainingCounts'
  BY <1>4, SameCount DEF Ragged!RemainingCounts, Over
<1> QED
  BY <1>1, <1>2, <1>3, <1>5 DEF GroupIInv, VerdictInv, GoneInv

(* Over is what the tasks finished or refused make it.                      *)
LEMMA MarksKeep ==
  ASSUME GroupIInv, UNCHANGED <<remaining, flags>>, Over' = Over,
         verdicts' = verdicts, request' # "gone" \/ request = "gone"
  PROVE  Ragged!RemainingCounts' /\ remaining' \in 0..Chunks /\ VerdictInv' /\ GoneInv'
<1>1. Ragged!RemainingCounts' /\ remaining' \in 0..Chunks
  BY DEF GroupIInv, Ragged!TypeOK, Ragged!RemainingCounts, Over
<1>2. VerdictInv' /\ GoneInv'
  BY DEF GroupIInv, VerdictInv, GoneInv, Ragged!Verdict
<1> QED
  BY <1>1, <1>2

-----------------------------------------------------------------------------
(* The kinds of step: a chunk is submitted, its task goes on, its task ends  *)
(* for the group, or the owner or the dispatcher does something else.        *)
Submits == Ragged!SubmitAccepted \/ Ragged!SubmitRefused

Goes(t) ==
  /\ UNCHANGED <<request, next, verdicts, Ragged!gvars, computed>> /\ group_status[t] = "open"
  /\ \/ run[t] = "out" /\ run' = [run EXCEPT ![t] = "entered"] /\ UNCHANGED group_status
     \/ run[t] = "entered" /\ run' = [run EXCEPT ![t] = "computing"] /\ UNCHANGED group_status
     \/ /\ run[t] = "returned" /\ run' = [run EXCEPT ![t] = "done"]
        /\ group_status' = [group_status EXCEPT ![t] = "Completed"]

Ends(t, r) ==
  /\ UNCHANGED <<request, next, verdicts>> /\ group_status[t] = "open" /\ Ragged!Finish(t, r)
  /\ \/ /\ run[t] \in {"entered", "computing"} /\ run' = [run EXCEPT ![t] = "returned"]
        /\ UNCHANGED group_status
     \/ /\ run[t] = "out" /\ run' = [run EXCEPT ![t] = "done"]
        /\ group_status' = [group_status EXCEPT ![t] = r]
  /\ IF r = "Completed" THEN computed' = computed \cup {t} ELSE UNCHANGED computed

Watches ==
  /\ UNCHANGED <<group_status, next, run, Ragged!gvars, computed>>
  /\ \/ UNCHANGED <<request, verdicts>>
     \/ request = "open" /\ request' = "destroying" /\ UNCHANGED verdicts
     \/ /\ request = "open" /\ remaining = 0 /\ verdicts' = verdicts \cup {Ragged!Verdict}
        /\ UNCHANGED request
     \/ request = "destroying" /\ remaining = 0 /\ request' = "gone" /\ UNCHANGED verdicts

LEMMA GroupSteps ==
  ASSUME GroupIInv, [Ragged!Next]_(Ragged!vars)
  PROVE  \/ Submits \/ Watches
         \/ \E t \in 1..Chunks : Goes(t) \/ \E r \in GroupResult : Ends(t, r)
<1>1. ASSUME NEW t \in 1..Chunks, Ragged!Worker(t)
      PROVE  Goes(t) \/ \E r \in GroupResult : Ends(t, r)
  <2>0. run[t] \in {"entered", "computing", "returned"} => group_status[t] = "open"
    BY DEF GroupIInv, RunInv
  <2>1. CASE Ragged!Begin(t) \/ Ragged!FunctionInvokes(t) \/ Ragged!Returned(t)
    BY <2>0, <2>1
    DEF Ragged!Begin, Ragged!FunctionInvokes, Ragged!Returned, Ragged!Step, Ragged!Settle, Goes,
        Ragged!svars, Ragged!gvars
  <2>2. CASE Ragged!FunctionCancelled(t)
    <3>1. Ends(t, "Cancelled")
      BY <2>0, <2>2 DEF Ragged!FunctionCancelled, Ragged!Step, Ends, Ragged!svars
    <3> QED
      BY <3>1 DEF GroupResult
  <2>3. CASE Ragged!FunctionComputed(t)
    <3>1. Ends(t, "Completed")
      BY <2>0, <2>3 DEF Ragged!FunctionComputed, Ragged!Step, Ends, Ragged!svars
    <3> QED
      BY <3>1 DEF GroupResult
  <2>4. CASE Ragged!OnCancel(t)
    <3>1. Ends(t, "Cancelled")
      BY <2>4 DEF Ragged!OnCancel, Ragged!Step, Ragged!Settle, Ends
    <3> QED
      BY <3>1 DEF GroupResult
  <2>5. CASE Ragged!OnDeadlineMissed(t)
    <3>1. Ends(t, "DeadlineMissed")
      BY <2>5 DEF Ragged!OnDeadlineMissed, Ragged!Step, Ragged!Settle, Ends
    <3> QED
      BY <3>1 DEF GroupResult
  <2> QED
    BY <1>1, <2>1, <2>2, <2>3, <2>4, <2>5 DEF Ragged!Worker
<1>2. Ragged!Cancel \/ Ragged!Shutdown \/ UNCHANGED Ragged!vars => Watches
  BY DEF Ragged!Cancel, Ragged!Shutdown, Ragged!StartClose, Ragged!EndClose, Watches, Ragged!vars,
         Ragged!svars, Ragged!gvars
<1>3. Ragged!WaitReturns \/ Ragged!Destroy \/ Ragged!DestroyEnds => Watches
  BY DEF Ragged!WaitReturns, Ragged!Destroy, Ragged!DestroyEnds, Watches, Ragged!svars, Ragged!gvars
<1> QED
  BY <1>1, <1>2, <1>3 DEF Ragged!Next, Submits

(* The chunk a step ends was not over, and now is.                          *)
LEMMA EndsCounts ==
  ASSUME GroupIInv, NEW t \in 1..Chunks, NEW r \in GroupResult, Ends(t, r)
  PROVE  Counts(t, r) /\ finished' = finished \cup {t}
<1>1. t \notin finished /\ group_status[t] = "open"
  BY DEF Ends, GroupIInv, RunInv
<1>2. finished' = finished \cup {t} /\ Ragged!FinishGroup(r)
  BY <1>1 DEF Ends, Ragged!Finish
<1>3. Ragged!Refused' = Ragged!Refused /\ t \notin Ragged!Refused
  BY DEF Ends, Ragged!Refused, GroupIInv, Ragged!TypeOK, GroupResult
<1> QED
  BY <1>1, <1>2, <1>3 DEF Counts, Over

(* So is the chunk of a refused submission.                                 *)
LEMMA RefusalCounts ==
  ASSUME GroupIInv, Ragged!SubmitRefused
  PROVE  /\ Counts(next, "Failed") /\ next \in 1..Chunks
         /\ Ragged!Refused' = Ragged!Refused \cup {next}
<1>1. /\ next \in 1..Chunks /\ group_status[next] = "new"
      /\ group_status' = [group_status EXCEPT ![next] = "refused"]
  BY DEF Ragged!SubmitRefused, Ragged!Advance, Ragged!Refuse, GroupIInv, OrderInv
<1>2. next \notin finished /\ next \notin Ragged!Refused
  BY <1>1 DEF GroupIInv, RunInv, Ragged!TypeOK, Ragged!Refused, GroupResult
<1>3. Ragged!Refused' = Ragged!Refused \cup {next}
  BY <1>1 DEF Ragged!Refused, GroupIInv, Ragged!TypeOK
<1> QED
  BY <1>1, <1>2, <1>3 DEF Counts, Over, Ragged!SubmitRefused
-----------------------------------------------------------------------------
(* A submission leaves the tasks of the chunks before it alone.              *)
LEMMA SubmitsOne ==
  ASSUME GroupIInv, Submits
  PROVE  /\ next \in 1..Chunks /\ group_status[next] = "new" /\ run[next] = "out"
         /\ next' = next + 1
         /\ \E s \in {"refused", "open"} : group_status' = [group_status EXCEPT ![next] = s]
         /\ request' = IF next = Chunks THEN "open" ELSE "submitting"
         /\ UNCHANGED <<run, token, finished, computed, verdicts>>
<1>1. next \in 1..Chunks /\ group_status[next] = "new"
  BY DEF Submits, Ragged!SubmitAccepted, Ragged!SubmitRefused, Ragged!Advance, GroupIInv, OrderInv,
         Ragged!TakeOn, Ragged!Refuse
<1>2. run[next] = "out"
  BY <1>1 DEF GroupIInv, RunInv, Ragged!TypeOK, GroupResult
<1> QED
  BY <1>1, <1>2
  DEF Submits, Ragged!SubmitAccepted, Ragged!SubmitRefused, Ragged!Advance, Ragged!TakeOn,
      Ragged!Refuse, Ragged!gvars

LEMMA GroupOrderStep == ASSUME GroupIInv, [Ragged!Next]_(Ragged!vars) PROVE OrderInv'
<1>0. Ragged!TypeOK /\ OrderInv
  BY DEF GroupIInv
<1>1. CASE Submits
  <2>1. \A t \in 1..Chunks : group_status'[t] = "new" <=> group_status[t] = "new" /\ t # next
    BY <1>0, <1>1, SubmitsOne DEF Ragged!TypeOK
  <2>2. \A t \in 1..Chunks : group_status'[t] = "new" <=> t >= next'
    BY <1>0, <1>1, <2>1, SubmitsOne DEF OrderInv
  <2>3. IF request' = "submitting" THEN next' \in 1..Chunks ELSE next' = Chunks + 1
    BY <1>0, <1>1, SubmitsOne
  <2> QED
    BY <2>2, <2>3 DEF OrderInv
<1>2. CASE UNCHANGED next /\ (request' = "submitting" <=> request = "submitting")
           /\ \A t \in 1..Chunks : group_status'[t] = "new" <=> group_status[t] = "new"
  BY <1>0, <1>2 DEF OrderInv
<1>3. ASSUME NEW t \in 1..Chunks, Goes(t) PROVE OrderInv'
  BY <1>0, <1>2, <1>3 DEF Goes, Ragged!TypeOK
<1>4. ASSUME NEW t \in 1..Chunks, NEW r \in GroupResult, Ends(t, r) PROVE OrderInv'
  BY <1>0, <1>2, <1>4 DEF Ends, Ragged!TypeOK, GroupResult
<1>5. CASE Watches
  BY <1>2, <1>5 DEF Watches
<1> QED
  BY <1>1, <1>3, <1>4, <1>5, GroupSteps

LEMMA GroupTypeStep == ASSUME GroupIInv, [Ragged!Next]_(Ragged!vars) PROVE Ragged!TypeOK'
<1>0. Ragged!TypeOK /\ OrderInv
  BY DEF GroupIInv, GroupResult
<1>1. token' \in BOOLEAN /\ group_phase' \in {"serving", "closing", "closed"}
  BY <1>0
  DEF Ragged!Next, Ragged!SubmitAccepted, Ragged!SubmitRefused, Ragged!Advance, Ragged!TakeOn,
      Ragged!Refuse, Ragged!Cancel, Ragged!WaitReturns, Ragged!Destroy, Ragged!DestroyEnds,
      Ragged!Worker, Ragged!Begin, Ragged!FunctionCancelled, Ragged!FunctionInvokes,
      Ragged!FunctionComputed, Ragged!Returned, Ragged!OnCancel, Ragged!OnDeadlineMissed,
      Ragged!Step, Ragged!Settle, Ragged!Shutdown, Ragged!StartClose, Ragged!EndClose, Ragged!svars,
      Ragged!vars, Ragged!TypeOK
<1>2. CASE Submits
  <2>1. /\ request' \in {"submitting", "open"} /\ next' \in 1..(Chunks + 1) /\ run' = run
        /\ finished' = finished /\ computed' = computed
        /\ group_status' \in [1..Chunks -> {"new", "refused", "open"} \cup GroupResult]
    BY <1>0, <1>2, SubmitsOne DEF Ragged!TypeOK
  <2>2. remaining' \in 0..Chunks /\ flags' \subseteq {"Failed", "DeadlineMissed", "Cancelled"}
    BY <1>0, <1>2, RefusalCounts, CountKeeps
    DEF Submits, Ragged!SubmitAccepted, Ragged!SubmitRefused, Ragged!FinishGroup, Ragged!gvars, Ragged!TypeOK
  <2> QED
    BY <1>0, <1>1, <2>1, <2>2 DEF Ragged!TypeOK
<1>3. ASSUME NEW t \in 1..Chunks, Goes(t) PROVE Ragged!TypeOK'
  <2>1. /\ run' \in [1..Chunks -> {"out", "entered", "computing", "returned", "done"}]
        /\ group_status' \in [1..Chunks -> {"new", "refused", "open"} \cup GroupResult]
    BY <1>0, <1>3 DEF Goes, Ragged!TypeOK, GroupResult
  <2> QED
    BY <1>0, <1>1, <1>3, <2>1 DEF Goes, Ragged!TypeOK, Ragged!gvars
<1>4. ASSUME NEW t \in 1..Chunks, NEW r \in GroupResult, Ends(t, r) PROVE Ragged!TypeOK'
  <2>1. /\ run' \in [1..Chunks -> {"out", "entered", "computing", "returned", "done"}]
        /\ group_status' \in [1..Chunks -> {"new", "refused", "open"} \cup GroupResult]
    BY <1>0, <1>4 DEF Ends, Ragged!TypeOK
  <2>2. /\ remaining' \in 0..Chunks
        /\ finished' \subseteq 1..Chunks /\ computed' \subseteq 1..Chunks
        /\ flags' \subseteq {"Failed", "DeadlineMissed", "Cancelled"}
    <3>1. remaining' \in 0..Chunks /\ finished' = finished \cup {t} /\ Ragged!FinishGroup(r)
      BY <1>4, EndsCounts, CountKeeps DEF Counts
    <3>2. computed' \subseteq computed \cup {t}
      BY <1>4 DEF Ends
    <3>3. flags' = flags \cup ({r} \ {"Completed"})
      BY <3>1 DEF Ragged!FinishGroup
    <3> QED
      BY <1>0, <3>1, <3>2, <3>3 DEF GroupResult, Ragged!TypeOK
  <2> QED
    BY <1>0, <1>1, <1>4, <2>1, <2>2 DEF Ends, Ragged!TypeOK
<1>5. CASE Watches
  BY <1>0, <1>1, <1>5 DEF Watches, Ragged!TypeOK, Ragged!gvars
<1> QED
  BY <1>2, <1>3, <1>4, <1>5, GroupSteps

LEMMA GroupRunStep == ASSUME GroupIInv, [Ragged!Next]_(Ragged!vars) PROVE RunInv'
<1>0. Ragged!TypeOK /\ RunInv
  BY DEF GroupIInv, GroupResult
<1>1. CASE Submits
  BY <1>0, <1>1, SubmitsOne DEF RunInv, Ragged!TypeOK
<1>2. ASSUME NEW t \in 1..Chunks, Goes(t) PROVE RunInv'
  BY <1>0, <1>2 DEF Goes, RunInv, Ragged!TypeOK, Ragged!gvars, GroupResult
<1>3. ASSUME NEW t \in 1..Chunks, NEW r \in GroupResult, Ends(t, r) PROVE RunInv'
  <2>1. finished' = finished \cup {t}
    BY <1>3, EndsCounts
  <2> QED
    BY <1>0, <1>3, <2>1 DEF Ends, RunInv, Ragged!TypeOK
<1>4. CASE Watches
  BY <1>0, <1>4 DEF Watches, RunInv, Ragged!gvars
<1> QED
  BY <1>1, <1>2, <1>3, <1>4, GroupSteps

(* The count, the marks and what was said of them.                          *)
MarksInv == Ragged!RemainingCounts /\ FlagInv /\ VerdictInv /\ GoneInv

LEMMA MarksStep == ASSUME GroupIInv, [Ragged!Next]_(Ragged!vars) PROVE MarksInv'
<1>0. /\ Ragged!TypeOK /\ RunInv /\ FlagInv /\ VerdictInv /\ GoneInv /\ Ragged!RemainingCounts
      /\ "refused" \notin GroupResult
  BY DEF GroupIInv, GroupResult
<1>1. CASE Ragged!SubmitRefused
  <2>1. /\ Counts(next, "Failed") /\ Ragged!Refused' = Ragged!Refused \cup {next}
        /\ flags' = flags \cup {"Failed"}
    BY <1>1, RefusalCounts DEF Counts, Ragged!FinishGroup
  <2>2. FlagInv'
    BY <1>0, <1>1, <2>1 DEF Ragged!SubmitRefused, Ragged!Advance, FlagInv
  <2>3. verdicts' = {} /\ request' # "gone"
    BY <1>1, <2>1, CountKeeps DEF Ragged!SubmitRefused, Ragged!Advance
  <2> QED
    BY <2>1, <2>2, <2>3, CountKeeps DEF MarksInv, VerdictInv, GoneInv
<1>2. ASSUME NEW t \in 1..Chunks, NEW r \in GroupResult, Ends(t, r) PROVE MarksInv'
  <2>1. /\ Counts(t, r) /\ finished' = finished \cup {t}
        /\ flags' = flags \cup ({r} \ {"Completed"})
    BY <1>2, EndsCounts DEF Counts, Ragged!FinishGroup
  <2>2. Ragged!Refused' = Ragged!Refused
    BY <1>0, <1>2 DEF Ends, Ragged!Refused, Ragged!TypeOK
  <2>3. computed' = IF r = "Completed" THEN computed \cup {t} ELSE computed
    BY <1>2 DEF Ends
  <2>4. FlagInv'
    BY <1>0, <2>1, <2>2, <2>3 DEF FlagInv
  <2>5. verdicts' = {} /\ request' # "gone"
    BY <1>2, <2>1, CountKeeps DEF Ends
  <2> QED
    BY <2>1, <2>4, <2>5, CountKeeps DEF MarksInv, VerdictInv, GoneInv
<1>3. CASE Ragged!SubmitAccepted \/ \E t \in 1..Chunks : Goes(t)
  <2>1. /\ UNCHANGED <<remaining, flags, finished, computed, verdicts>>
        /\ request' # "gone" \/ request = "gone"
    BY <1>3 DEF Ragged!SubmitAccepted, Ragged!Advance, Goes, Ragged!gvars
  <2>2. Ragged!Refused' = Ragged!Refused
    <3>1. CASE Ragged!SubmitAccepted
      <4>1. group_status' = [group_status EXCEPT ![next] = "open"] /\ group_status[next] = "new"
        BY <3>1 DEF Ragged!SubmitAccepted, Ragged!TakeOn
      <4> QED
        BY <1>0, <4>1 DEF Ragged!Refused, Ragged!TypeOK
    <3>2. ASSUME NEW t \in 1..Chunks, Goes(t) PROVE Ragged!Refused' = Ragged!Refused
      BY <1>0, <3>2 DEF Goes, Ragged!Refused, Ragged!TypeOK
    <3> QED
      BY <1>3, <3>1, <3>2
  <2>3. FlagInv'
    BY <1>0, <2>1, <2>2 DEF FlagInv
  <2> QED
    BY <2>1, <2>2, <2>3, MarksKeep DEF MarksInv, Over
<1>4. CASE Watches
  <2>1. Ragged!Refused' = Ragged!Refused /\ UNCHANGED <<remaining, flags, finished, computed>>
    BY <1>4 DEF Watches, Ragged!Refused, Ragged!gvars
  <2>2. Ragged!RemainingCounts' /\ FlagInv'
    BY <1>0, <2>1 DEF Ragged!RemainingCounts, FlagInv
  <2>3. VerdictInv'
    BY <1>0, <1>4, <2>1 DEF Watches, VerdictInv, Ragged!Verdict
  <2>4. GoneInv'
    BY <1>0, <1>4, <2>1 DEF Watches, GoneInv
  <2> QED
    BY <2>2, <2>3, <2>4 DEF MarksInv
<1> QED
  BY <1>1, <1>2, <1>3, <1>4, GroupSteps DEF Submits
-----------------------------------------------------------------------------
(* What the group keeps while its chunks are submitted, run, cancelled,      *)
(* refused and missed in any order.                                         *)
THEOREM GroupInvariance == Ragged!Spec => []GroupIInv
<1>1. GroupIInv /\ [Ragged!Next]_(Ragged!vars) => GroupIInv'
  BY GroupOrderStep, GroupTypeStep, GroupRunStep, MarksStep DEF GroupIInv, MarksInv
<1> QED
  BY <1>1, GroupInit, PTL DEF Ragged!Spec

LEMMA GroupVerdicts == GroupIInv => Ragged!VerdictsHold
<1> SUFFICES ASSUME GroupIInv PROVE Ragged!VerdictsHold
  OBVIOUS
<1>1. Ragged!OneVerdict
  <2>1. Cardinality({}) = 0 /\ Cardinality({Ragged!Verdict}) = 1
    BY FS_EmptySet, FS_Singleton
  <2>2. verdicts = {} \/ verdicts = {Ragged!Verdict}
    BY DEF GroupIInv, VerdictInv
  <2> QED
    BY <2>1, <2>2, SameCount DEF Ragged!OneVerdict
<1>2. ASSUME "Completed" \in verdicts PROVE computed = 1..Chunks
  <2>1. remaining = 0 /\ Ragged!Verdict = "Completed"
    BY <1>2 DEF GroupIInv, VerdictInv
  <2>2. flags = {}
    BY <2>1 DEF Ragged!Verdict, GroupIInv, Ragged!TypeOK
  <2>3. finished \cup Ragged!Refused = 1..Chunks
    BY <2>1, CountTells DEF GroupIInv, Over
  <2> QED
    BY <2>2, <2>3 DEF GroupIInv, FlagInv, Ragged!TypeOK
<1> QED
  BY <1>1, <1>2 DEF GroupIInv, Ragged!VerdictsHold, Ragged!CompletedMeansComputed

LEMMA GroupBuffers == GroupIInv => Ragged!BuffersMayGo
<1> SUFFICES ASSUME GroupIInv, request = "gone", NEW t \in 1..Chunks
             PROVE  /\ run[t] \notin {"entered", "computing"}
                    /\ group_status[t] = "open" => t \in finished
  BY DEF Ragged!BuffersMayGo
<1>1. t \in finished \/ group_status[t] = "refused"
  BY CountTells DEF GroupIInv, GoneInv, Over, Ragged!Refused
<1> QED
  BY <1>1 DEF GroupIInv, RunInv

(* Waits on a ragged request say the same, say Completed of a computed batch *)
(* only, and the count they wait for is the number of chunks left; when the  *)
(* destructor has returned no worker is in a chunk of the batch or will      *)
(* enter one, so its buffers can be freed.                                   *)
THEOREM RaggedIsSound == Ragged!Spec => []RaggedHolds
<1>1. GroupIInv => RaggedHolds
  BY GroupVerdicts, GroupBuffers DEF GroupIInv, RaggedHolds
<1> QED
  BY <1>1, GroupInvariance, PTL
=============================================================================
