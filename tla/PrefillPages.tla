----------------------------- MODULE PrefillPages -----------------------------
(***************************************************************************)
(* holy_fitra_dynamic_prefill.py: DynamicPrefillPacker sorts requests into   *)
(* micro-batches and reserves room for their keys and values in a            *)
(* KVPagePool, which hands out spans one after the other and starts again,   *)
(* as a new generation, when the last lease is released.                     *)
(*                                                                         *)
(* A request is its name; its length, priority and deadline do not change.   *)
(***************************************************************************)
EXTENDS Integers, Sequences, FiniteSets, SequencesExt

CONSTANTS Prefills,        \* the requests
          PrefillOf,       \* [Prefills -> [length, priority, deadline]]; deadline 0 is none
          capacity_tokens, \* KVPagePool.capacity
          bucket_width, max_tokens, max_sequences,
          PrefillTimes,    \* what callers may name as now
          MaxGeneration, MaxPack    \* bounds on the generations and the requests of a pack

(* What KVPagePool, DynamicPrefillPacker and SequenceRequest.length demand.   *)
ASSUME PrefillAssumption ==
  /\ PrefillOf \in [Prefills -> [length : Nat \ {0}, priority : Int, deadline : Nat]]
  /\ {capacity_tokens, bucket_width, max_tokens, max_sequences} \subseteq Nat \ {0}
  /\ MaxGeneration \in Nat /\ MaxPack \in Nat

VARIABLES _leases,     \* functions of requests to [start, length, generation]
          _used, _generation,
          cancelled,   \* the requests whose owner has cancelled them
          batches,     \* what the step returned, if it was a pack, and was given
          issued       \* history: all the leases given out in this generation

page_pool == <<_leases, _used, _generation>>
prefill_vars == <<page_pool, cancelled, batches, issued>>

NoBatches == [given |-> <<>>, out |-> <<>>]

PrefillInit == /\ _leases = <<>> /\ _used = 0 /\ _generation = 0
               /\ cancelled = {} /\ batches = NoBatches /\ issued = {}

length(r) == PrefillOf[r].length
Bucket(r) == (length(r) + bucket_width - 1) \div bucket_width

(* The order of pack: bucket, then priority, then deadline, none being last. *)
DueBefore(r, s) ==
  LET a == PrefillOf[r]
      b == PrefillOf[s]
  IN  \/ Bucket(r) < Bucket(s)
      \/ Bucket(r) = Bucket(s) /\ a.priority > b.priority
      \/ /\ Bucket(r) = Bucket(s) /\ a.priority = b.priority /\ a.deadline # b.deadline
         /\ b.deadline = 0 \/ a.deadline \in 1..b.deadline

(* Sorted, keeping the order given where the keys are equal: each request is  *)
(* after as many as come before it.                                         *)
ComesBefore(given, k, j) ==
  DueBefore(given[k], given[j]) \/ (k < j /\ ~DueBefore(given[j], given[k]))
Earlier(given, j) == {k \in DOMAIN given : ComesBefore(given, k, j)}
Sorted(given) ==
  [i \in DOMAIN given |-> given[CHOOSE j \in DOMAIN given : Cardinality(Earlier(given, j)) = i - 1]]

TokenCount(batch) == SumFunctionOnSet([i \in DOMAIN batch |-> length(batch[i])], DOMAIN batch)

Joins(batch, r) ==
  /\ Bucket(Last(batch)) = Bucket(r) /\ Len(batch) < max_sequences
  /\ TokenCount(batch) + length(r) <= max_tokens

(* The batches so far, of which the last is the current one.                 *)
Joined(bs, r) == IF bs # <<>> /\ Joins(Last(bs), r)
                 THEN Append(Front(bs), Append(Last(bs), r)) ELSE Append(bs, <<r>>)
Cut(requests) ==
  LET upto[i \in 0..Len(requests)] == IF i = 0 THEN <<>> ELSE Joined(upto[i - 1], requests[i])
  IN  upto[Len(requests)]

(* What reserve finds wrong with a request after the ones before it.         *)
Reservable(requests, i) ==
  /\ requests[i] \notin DOMAIN _leases
  /\ _used + TokenCount(SubSeq(requests, 1, i)) <= capacity_tokens

Lease(requests, i) == [start |-> _used + TokenCount(SubSeq(requests, 1, i - 1)),
                       length |-> length(requests[i]), generation |-> _generation]

Place(s, r) == CHOOSE i \in DOMAIN s : s[i] = r

(* reserve for each of the requests.                                         *)
Reserve(requests) ==
  /\ _leases' = [r \in DOMAIN _leases \cup ToSet(requests) |->
                   IF r \in DOMAIN _leases THEN _leases[r] ELSE Lease(requests, Place(requests, r))]
  /\ _used' = _used + TokenCount(requests)
  /\ issued' = issued \cup {<<requests[i], Lease(requests, i)>> : i \in DOMAIN requests}
  /\ UNCHANGED _generation

Ready(r, now) == /\ r \notin cancelled
                 /\ PrefillOf[r].deadline = 0 \/ PrefillOf[r].deadline >= now

(* pack of requests that are all valid at the time named, given the pool.    *)
(* When it cannot serve one, pack raises, and the ones before keep leases.   *)
Pack(given, now) ==
  /\ \A r \in ToSet(given) : Ready(r, now)
  /\ \E sorted \in {Sorted(given)} :
       LET bad == {i \in DOMAIN sorted : ~Reservable(sorted, i)}
       IN  IF bad = {}
           THEN Reserve(sorted) /\ batches' = [given |-> given, out |-> Cut(sorted)]
           ELSE Reserve(SubSeq(sorted, 1, Min(bad) - 1)) /\ batches' = NoBatches
  /\ UNCHANGED cancelled

(* Variant with a fault: the last span is taken back at once.                *)
ReleaseLast(r) ==
  /\ r \in DOMAIN _leases /\ (DOMAIN _leases = {r} => _generation < MaxGeneration)
  /\ _leases' = Restrict(_leases, DOMAIN _leases \ {r})
  /\ IF DOMAIN _leases = {r} THEN _used' = 0 /\ _generation' = _generation + 1 /\ issued' = {}
     ELSE _used' = Min({_used, _leases[r].start}) /\ UNCHANGED <<_generation, issued>>
  /\ batches' = NoBatches /\ UNCHANGED cancelled

ReleaseLease(r) ==
  /\ r \in DOMAIN _leases /\ (DOMAIN _leases = {r} => _generation < MaxGeneration)
  /\ _leases' = Restrict(_leases, DOMAIN _leases \ {r})
  /\ IF DOMAIN _leases = {r} THEN _used' = 0 /\ _generation' = _generation + 1 /\ issued' = {}
     ELSE UNCHANGED <<_used, _generation, issued>>
  /\ batches' = NoBatches /\ UNCHANGED cancelled

CancelPrefill(r) == /\ r \notin cancelled /\ cancelled' = cancelled \cup {r}
                    /\ batches' = NoBatches /\ UNCHANGED <<page_pool, issued>>

(* Requests of different names: pack raises when it is given one twice.      *)
Orders == {s \in SeqOf(Prefills, MaxPack) : s # <<>> /\ \A i, j \in DOMAIN s : s[i] = s[j] => i = j}

PrefillNext == \/ \E given \in Orders, now \in PrefillTimes : Pack(given, now)
               \/ \E r \in Prefills : ReleaseLease(r) \/ CancelPrefill(r)

PrefillSpec == PrefillInit /\ [][PrefillNext]_prefill_vars
-----------------------------------------------------------------------------
PrefillTypeOK == /\ DOMAIN _leases \subseteq Prefills /\ cancelled \subseteq Prefills
                 /\ _used \in 0..capacity_tokens /\ _generation \in 0..MaxGeneration

Span(l) == l.start..(l.start + l.length - 1)

(* A span is given to one request in a generation, whether or not the       *)
(* request has released it since, so a lease that is kept too long differs   *)
(* from the one that replaces it; and spans lie within what is used.         *)
LeasesDistinct ==
  /\ \A p, q \in issued : p # q => Span(p[2]) \cap Span(q[2]) = {}
  /\ \A r \in DOMAIN _leases : _leases[r].generation = _generation /\ Span(_leases[r]) \subseteq 0..(_used - 1)

(* What pack returns holds each request once, in batches of one bucket that  *)
(* respect both limits (a long request is alone), and within a bucket the    *)
(* more important first and then those due earlier.                         *)
PackExact ==
  LET out == batches.out
      flat == FlattenSeq(out)
  IN  /\ Len(flat) = Len(batches.given) /\ ToSet(flat) = ToSet(batches.given)
      /\ \A b \in ToSet(out) :
           /\ \A i, j \in DOMAIN b : Bucket(b[i]) = Bucket(b[j])
           /\ Len(b) \in 1..max_sequences
           /\ Len(b) = 1 \/ TokenCount(b) <= max_tokens
      /\ \A i, j \in DOMAIN flat :
           LET p == PrefillOf[flat[i]]
               q == PrefillOf[flat[j]]
           IN  i < j /\ Bucket(flat[i]) = Bucket(flat[j]) =>
                 /\ p.priority >= q.priority
                 /\ p.priority = q.priority /\ q.deadline # 0 => p.deadline \in 1..q.deadline

(* The prefill packer and its page pool give every request one place: one    *)
(* batch, within the limits, and one span that no other request gets.       *)
PrefillIsExact == PrefillTypeOK /\ LeasesDistinct /\ PackExact
=============================================================================
