-------------------------- MODULE SpeculativeProofs --------------------------
(***************************************************************************)
(* Proofs about what happens to a text before it is answered.  Of            *)
(* SpeculativeDecoding, for any vocabulary, models, capacity and bounds on   *)
(* drafts and calls: a greedy decoder holds what the target model would have *)
(* decoded alone, and the cache what calls returned.  Of PrefillPages, for   *)
(* any requests, capacity and limits: pack returns each request once and in  *)
(* its order, and each lease is a span of its own.                          *)
(***************************************************************************)
EXTENDS SpeculativeDecoding, PrefillPages, SumProofs

(* The token before the i-th, and a text each of whose tokens after the       *)
(* prefix is the choice of the target model.                                *)
Previous(s, t, i) == IF i = 1 THEN t ELSE s[i - 1]
FollowsPrefix == /\ Len(prefix) <= Len(cache)
                 /\ \A i \in 1..Len(prefix) : cache[i] = prefix[i]
Chosen(i) == cache[i] = target[Previous(cache, 0, i)]
ChosenByTarget ==
  decoder.mode = "greedy" => \A i \in (Len(prefix) + 1)..Len(cache) : Chosen(i)

CallRecord == [start : Nat, count : -1..MaxCount, output : Seq(Vocab)]

ModelTypes == /\ draft \in [Vocab -> Vocab] /\ target \in [Vocab -> Vocab] /\ prefix \in Seq(Vocab)
TextTypes == /\ cache \in Seq(Vocab) /\ Len(cache) <= MaxTokens /\ returned \in Seq(Vocab)
             /\ call \in CallRecord
PlanTypes == draft_k \in 1..KMax /\ level \in Levels /\ failed \in BOOLEAN

(* A call under way has appended what it holds as its output, after what was  *)
(* there when it began.                                                     *)
CallInv == Calling => /\ call.count \in 0..MaxCount /\ Len(prefix) <= call.start
                      /\ call.start + Len(call.output) = Len(cache)

(* Until a call raises, the cache is the prefix, what calls returned, and what *)
(* the call under way has so far.                                           *)
Given == prefix \o returned
ReturnedInv == ~failed => IF Calling THEN cache = Given \o call.output /\ call.start = Len(Given)
                          ELSE cache = Given

DecodingInv == /\ ModelTypes /\ TextTypes /\ PlanTypes
               /\ FollowsPrefix /\ ChosenByTarget /\ CallInv /\ ReturnedInv
-----------------------------------------------------------------------------
(* The place where a draft is first refused, or a request first has no room.  *)
LEMMA MinIsLeast ==
  ASSUME NEW S, S \subseteq Nat, S # {}
  PROVE  Min(S) \in S /\ \A k \in S : Min(S) <= k
BY HasLeast DEF Min

(* A recursive function does what its definition says.                        *)
Walk(f, model, t, n) == f = [i \in 0..n |-> IF i = 0 THEN t ELSE model[f[i - 1]]]

LEMMA WalkExists ==
  ASSUME NEW model, NEW t, NEW n \in Nat
  PROVE  \E f : Walk(f, model, t, n)
<1> DEFINE Bad == {k \in Nat : ~\E f : Walk(f, model, t, k)}
<1>1. SUFFICES ASSUME Bad # {} PROVE FALSE
  OBVIOUS
<1>2. PICK m \in Bad : \A k \in Bad : m <= k
  BY <1>1, HasLeast
<1>3. m # 0
  <2>1. Walk([i \in 0..0 |-> t], model, t, 0)
    BY DEF Walk
  <2> QED
    BY <1>2, <2>1
<1>4. m - 1 \in Nat /\ m - 1 \notin Bad
  BY <1>2, <1>3
<1>5. PICK g : Walk(g, model, t, m - 1)
  BY <1>4
<1> DEFINE f == [i \in 0..m |-> IF i = m THEN model[g[m - 1]] ELSE g[i]]
<1>6. Walk(f, model, t, m)
  BY <1>3, <1>5 DEF Walk
<1> QED
  BY <1>2, <1>6

LEMMA RunUnfolds ==
  ASSUME NEW model, NEW t, NEW n \in Nat
  PROVE  /\ DOMAIN Run(model, t, n) = 1..n
         /\ \A i \in 1..n : Run(model, t, n)[i] = model[IF i = 1 THEN t ELSE Run(model, t, n)[i - 1]]
<1> DEFINE f == CHOOSE f : f = [i \in 0..n |-> IF i = 0 THEN t ELSE model[f[i - 1]]]
<1>0. \E g : g = [i \in 0..n |-> IF i = 0 THEN t ELSE model[g[i - 1]]]
  <2>1. PICK g : Walk(g, model, t, n)
    BY WalkExists
  <2> QED
    BY <2>1 DEF Walk
<1>1. f = [i \in 0..n |-> IF i = 0 THEN t ELSE model[f[i - 1]]]
  BY <1>0, Zenon
<1>2. Run(model, t, n) = [i \in 1..n |-> f[i]]
  BY DEF Run
<1> HIDE DEF f
<1> QED
  BY <1>1, <1>2
-----------------------------------------------------------------------------
(* The draft proposes tokens of the vocabulary.                              *)
LEMMA RunTyped ==
  ASSUME NEW model \in [Vocab -> Vocab], NEW t \in Vocab, NEW n \in Nat
  PROVE  Run(model, t, n) \in Seq(Vocab) /\ Len(Run(model, t, n)) = n
<1> DEFINE R == Run(model, t, n)
           Bad == {i \in 1..n : R[i] \notin Vocab}
<1>1. /\ DOMAIN R = 1..n
      /\ \A i \in 1..n : R[i] = model[IF i = 1 THEN t ELSE R[i - 1]]
  BY RunUnfolds
<1>2. R = [i \in 1..n |-> R[i]]
  BY DEF Run
<1> HIDE DEF R
<1>3. Bad = {}
  <2>1. SUFFICES ASSUME Bad # {} PROVE FALSE
    OBVIOUS
  <2>0. Bad \subseteq Nat
    OBVIOUS
  <2>2. PICK m \in Bad : \A k \in Bad : m <= k
    <3> HIDE DEF Bad
    <3> QED
      BY <2>0, <2>1, HasLeast
  <2>3. m - 1 \in 1..n => R[m - 1] \in Vocab
    BY <2>2
  <2> QED
    BY <1>1, <2>2, <2>3
<1>4. R \in [1..n -> Vocab]
  BY <1>2, <1>3
<1>5. R \in Seq(Vocab) /\ Len(R) = n
  BY <1>4
<1> QED
  BY <1>5 DEF R

(* Every token of a round is the choice of the target after the one before.   *)
LEMMA AcceptedIsChosen ==
  ASSUME ModelTypes, NEW proposal \in Seq(Vocab), NEW t \in Vocab
  PROVE  LET e == GreedyAccept(proposal, t)
         IN  /\ e \in Seq(Vocab) /\ e # <<>>
             /\ \A i \in 1..Len(e) : e[i] = target[Previous(e, t, i)]
<1> DEFINE Before(i) == IF i = 1 THEN t ELSE proposal[i - 1]
           wrong == {i \in DOMAIN proposal : proposal[i] # target[Before(i)]}
           n == IF wrong = {} THEN Len(proposal) ELSE Min(wrong) - 1
           e == Append(SubSeq(proposal, 1, n), target[Before(n + 1)])
<1>1. n \in 0..Len(proposal) /\ \A i \in 1..n : i \notin wrong
  <2>0. wrong \subseteq Nat /\ wrong \subseteq 1..Len(proposal)
    OBVIOUS
  <2> HIDE DEF wrong
  <2>1. CASE wrong = {}
    <3>1. n = Len(proposal)
      BY <2>1
    <3> HIDE DEF n
    <3> QED
      BY <2>1, <3>1
  <2>2. CASE wrong # {}
    <3>1. Min(wrong) \in wrong /\ \A k \in wrong : Min(wrong) <= k
      BY <2>0, <2>2, MinIsLeast
    <3>2. n = Min(wrong) - 1
      BY <2>2
    <3> HIDE DEF n
    <3>3. PICK m \in wrong : n = m - 1 /\ \A k \in wrong : m <= k
      BY <3>1, <3>2
    <3>4. m \in 1..Len(proposal) /\ \A k \in wrong : k \in Nat
      BY <2>0
    <3> QED
      BY <3>3, <3>4
  <2> QED
    BY <2>1, <2>2
<1>3. GreedyAccept(proposal, t) = e
  BY DEF GreedyAccept
<1> HIDE DEF n
<1>2. \A i \in 1..n : proposal[i] = target[Before(i)] /\ proposal[i] \in Vocab
  BY <1>1
<1> HIDE DEF wrong
<1>4. Before(n + 1) \in Vocab /\ target[Before(n + 1)] \in Vocab
  BY <1>1 DEF ModelTypes
<1>5. /\ SubSeq(proposal, 1, n) \in Seq(Vocab) /\ Len(SubSeq(proposal, 1, n)) = n
      /\ \A i \in 1..n : SubSeq(proposal, 1, n)[i] = proposal[i]
  BY <1>1
<1>6. /\ e \in Seq(Vocab) /\ Len(e) = n + 1 /\ e[n + 1] = target[Before(n + 1)]
      /\ \A i \in 1..n : e[i] = proposal[i]
  BY <1>1, <1>4, <1>5
<1> HIDE DEF e
<1>7. ASSUME NEW i \in 1..Len(e) PROVE e[i] = target[Previous(e, t, i)]
  <2>1. Before(i) = Previous(e, t, i)
    BY <1>1, <1>6 DEF Previous
  <2> QED
    BY <1>1, <1>2, <1>6, <2>1
<1> QED
  BY <1>1, <1>3, <1>6, <1>7

LEMMA EmissionIsChosen ==
  ASSUME DecoderConstants, DecodingInv, NEW e \in Emissions
  PROVE  /\ e \in Seq(Vocab) /\ Len(e) > 0
         /\ decoder.mode = "greedy" =>
              \A i \in 1..Len(e) : e[i] = target[Previous(e, LastToken(cache), i)]
<1>1. LastToken(cache) \in Vocab
  BY DEF LastToken, DecodingInv, TextTypes, DecoderConstants
<1>2. CASE decoder.mode = "greedy"
  <2>1. Run(draft, LastToken(cache), draft_k) \in Seq(Vocab)
    <3>1. draft_k \in Nat /\ draft \in [Vocab -> Vocab]
      BY DEF DecodingInv, ModelTypes, PlanTypes
    <3> QED
      BY <1>1, <3>1, RunTyped
  <2>2. e = GreedyAccept(Run(draft, LastToken(cache), draft_k), LastToken(cache))
    BY <1>2 DEF Emissions
  <2>3. ModelTypes
    BY DEF DecodingInv
  <2>4. /\ e \in Seq(Vocab) /\ e # <<>>
        /\ \A i \in 1..Len(e) : e[i] = target[Previous(e, LastToken(cache), i)]
    BY <1>1, <2>1, <2>2, <2>3, AcceptedIsChosen
  <2> QED
    BY <2>4
<1>3. CASE decoder.mode # "greedy"
  <2>1. PICK n \in 1..(draft_k + 1) : e \in [1..n -> Vocab]
    BY <1>3 DEF Emissions
  <2> QED
    BY <1>3, <2>1 DEF DecodingInv, PlanTypes
<1> QED
  BY <1>2, <1>3

(* The plan of the adaptive decoder stays within its bounds.                  *)
LEMMA AdaptTyped ==
  ASSUME DecoderConstants, PlanTypes, Adapt
  PROVE  draft_k' \in 1..KMax
<1>1. ASSUME NEW a \in Nat, NEW b \in Nat PROVE Min({a, b}) \in {a, b} /\ Min({a, b}) <= a
  <2>1. {a, b} \subseteq Nat /\ {a, b} # {}
    OBVIOUS
  <2> HIDE DEF Min
  <2> QED
    BY <2>1, MinIsLeast
<1>2. ASSUME NEW b \in Nat, b <= KMax PROVE Max({1, b}) \in 1..KMax
  <2>1. \E x \in {1, b} : \A y \in {1, b} : x >= y
    OBVIOUS
  <2>2. Max({1, b}) \in {1, b} /\ Max({1, b}) >= 1
    BY <2>1 DEF Max
  <2> QED
    BY <1>2, <2>2 DEF DecoderConstants
<1>3. ASSUME NEW p \in {75, 40} PROVE Max({1, (KMax * p) \div 100}) \in 1..KMax
  <2>1. (KMax * p) \div 100 \in Nat /\ (KMax * p) \div 100 <= KMax
    BY DEF DecoderConstants
  <2> QED
    BY <1>2, <2>1
<1>4. Limit \in 1..KMax
  BY <1>3 DEF Limit, DecoderConstants
<1>5. ASSUME NEW k \in 1..KMax PROVE Min({k, Limit}) \in 1..KMax
  BY <1>1, <1>4
<1> QED
  BY <1>5 DEF Adapt, PlanTypes

LEMMA Associative == \A s, t, u \in Seq(Vocab) : (s \o t) \o u = s \o (t \o u)
BY ConcatAssociative

LEMMA InitDecodingInv == DecoderConstants /\ DecodingInit => DecodingInv
<1> SUFFICES ASSUME DecoderConstants, DecodingInit PROVE DecodingInv
  OBVIOUS
<1>0. ASSUME NEW t \in Vocab PROVE <<t>> \in Seq(Vocab) /\ Len(<<t>>) = 1
  OBVIOUS
<1>1. prefix \in Seq(Vocab) /\ Len(prefix) <= 1 /\ cache = prefix /\ returned = <<>>
  <2>1. prefix = <<>> \/ \E t \in Vocab : prefix = <<t>>
    BY DEF DecodingInit
  <2>2. prefix \in Seq(Vocab) /\ Len(prefix) <= 1
    <3>1. CASE prefix = <<>>
      <4>1. <<>> \in Seq(Vocab) /\ Len(<<>>) = 0
        OBVIOUS
      <4> QED
        BY <3>1, <4>1
    <3>2. ASSUME NEW t \in Vocab, prefix = <<t>> PROVE prefix \in Seq(Vocab) /\ Len(prefix) <= 1
      BY <1>0, <3>2
    <3> QED
      BY <2>1, <3>1, <3>2
  <2> QED
    BY <2>2 DEF DecodingInit
<1>2. ~Calling /\ call \in CallRecord
  BY DEF DecodingInit, Calling, NoCall, CallRecord, DecoderConstants
<1>3. ModelTypes /\ TextTypes /\ PlanTypes
  BY <1>1, <1>2 DEF DecodingInit, ModelTypes, TextTypes, PlanTypes, Levels, DecoderConstants
<1>4. FollowsPrefix /\ ChosenByTarget
  BY <1>1 DEF FollowsPrefix, ChosenByTarget
<1>5. CallInv /\ ReturnedInv
  BY <1>1, <1>2 DEF CallInv, ReturnedInv, Given
<1> QED
  BY <1>3, <1>4, <1>5 DEF DecodingInv

LEMMA GenerateDecodingInv ==
  ASSUME DecoderConstants, DecodingInv, NEW n \in 0..MaxCount, Generate(n)
  PROVE  DecodingInv'
<1> USE DEF Generate, models
<1>1. call' = [start |-> Len(cache), count |-> n, output |-> <<>>] /\ call'.count # -1
  OBVIOUS
<1>2. Calling' /\ call' \in CallRecord
  BY <1>1 DEF Calling, NoCall, CallRecord, DecodingInv, TextTypes, DecoderConstants
<1>3. ModelTypes' /\ TextTypes' /\ PlanTypes' /\ FollowsPrefix' /\ ChosenByTarget'
  BY <1>2
  DEF DecodingInv, ModelTypes, TextTypes, PlanTypes, FollowsPrefix, ChosenByTarget, Chosen, Previous
<1>4. CallInv'
  BY <1>1 DEF CallInv, DecodingInv, FollowsPrefix, TextTypes, DecoderConstants
<1>5. ReturnedInv'
  <2>1. ~Calling
    OBVIOUS
  <2>2. Given \in Seq(Vocab)
    BY DEF Given, DecodingInv, ModelTypes, TextTypes
  <2> QED
    BY <1>1, <1>2, <2>1, <2>2 DEF ReturnedInv, Given, DecodingInv
<1> QED
  BY <1>3, <1>4, <1>5 DEF DecodingInv

(* What a round appends goes on from the last token, and what it says to the   *)
(* caller is what it appends.                                               *)
LEMMA StepDecodingInv ==
  ASSUME DecoderConstants, DecodingInv, NEW e \in Emissions, Step(e)
  PROVE  DecodingInv'
<1>1. /\ e \in Seq(Vocab) /\ Len(e) > 0
      /\ decoder.mode = "greedy" =>
           \A i \in 1..Len(e) : e[i] = target[Previous(e, LastToken(cache), i)]
  BY EmissionIsChosen
<1>2. /\ Calling /\ cache' = cache \o e /\ call' = [call EXCEPT !.output = @ \o e] /\ UNCHANGED models
      /\ UNCHANGED <<level, returned, failed>> /\ Len(cache) + Len(e) <= MaxTokens /\ Adapt
  BY DEF Step, Unfinished
<1>3. /\ cache \in Seq(Vocab) /\ cache' \in Seq(Vocab) /\ Len(cache') = Len(cache) + Len(e)
      /\ \A i \in 1..Len(cache) : cache'[i] = cache[i]
      /\ \A i \in 1..Len(e) : cache'[Len(cache) + i] = e[i]
  BY <1>1, <1>2 DEF DecodingInv, TextTypes
<1>4. /\ call'.output = call.output \o e /\ call'.output \in Seq(Vocab)
      /\ Len(call'.output) = Len(call.output) + Len(e)
      /\ call'.start = call.start /\ call'.count = call.count /\ call' \in CallRecord
  <2>1. call.output \in Seq(Vocab) /\ call \in CallRecord
    BY DEF DecodingInv, TextTypes, CallRecord
  <2>2. call.output \o e \in Seq(Vocab) /\ Len(call.output \o e) = Len(call.output) + Len(e)
    BY <1>1, <2>1
  <2>3. /\ call'.output = call.output \o e /\ call'.start = call.start /\ call'.count = call.count
        /\ call' \in CallRecord
    BY <1>2, <2>1, <2>2 DEF CallRecord
  <2> QED
    BY <2>2, <2>3
<1>5. Calling'
  <2>1. call.count \in 0..MaxCount
    BY <1>2 DEF DecodingInv, CallInv
  <2> QED
    BY <1>4, <2>1 DEF Calling, NoCall
<1>6. ModelTypes' /\ TextTypes'
  BY <1>2, <1>3, <1>4 DEF DecodingInv, ModelTypes, TextTypes, models
<1>7. PlanTypes'
  <2>1. draft_k' \in 1..KMax
    BY <1>2, AdaptTyped DEF DecodingInv
  <2> QED
    BY <1>2, <2>1 DEF DecodingInv, PlanTypes
<1>8. FollowsPrefix'
  BY <1>2, <1>3 DEF DecodingInv, FollowsPrefix, ModelTypes, models
<1>9. ChosenByTarget'
  <2> SUFFICES ASSUME decoder.mode = "greedy", NEW i \in (Len(prefix) + 1)..Len(cache') PROVE Chosen(i)'
    BY <1>2 DEF ChosenByTarget, models
  <2>1. CASE i <= Len(cache)
    <3>1. Chosen(i) /\ i \in 1..Len(cache)
      BY <2>1 DEF DecodingInv, ChosenByTarget, ModelTypes
    <3>2. cache'[i] = cache[i] /\ Previous(cache', 0, i) = Previous(cache, 0, i)
      BY <1>3, <3>1 DEF Previous
    <3> QED
      BY <1>2, <3>1, <3>2 DEF Chosen, models
  <2>2. CASE i > Len(cache)
    <3>1. PICK j \in 1..Len(e) : i = Len(cache) + j
      <4>1. i - Len(cache) \in 1..Len(e) /\ i = Len(cache) + (i - Len(cache))
        BY <1>1, <1>3, <2>2 DEF DecodingInv, ModelTypes
      <4> QED
        BY <4>1
    <3>2. cache'[i] = target[Previous(e, LastToken(cache), j)]
      BY <1>1, <1>3, <3>1
    <3>3. Previous(cache', 0, i) = Previous(e, LastToken(cache), j)
      <4>1. CASE j = 1 /\ cache = <<>>
        BY <3>1, <4>1 DEF Previous, LastToken
      <4>2. CASE j = 1 /\ cache # <<>>
        <5>1. Len(cache) \in 1..Len(cache) /\ i # 1 /\ i - 1 = Len(cache)
          BY <1>3, <3>1, <4>2
        <5> QED
          BY <1>3, <4>2, <5>1 DEF Previous, LastToken
      <4>3. CASE j # 1
        <5>1. j - 1 \in 1..Len(e) /\ i - 1 = Len(cache) + (j - 1) /\ i # 1
          BY <1>3, <3>1, <4>3
        <5> QED
          BY <1>3, <4>3, <5>1 DEF Previous
      <4> QED
        BY <4>1, <4>2, <4>3
    <3> QED
      BY <1>2, <3>2, <3>3 DEF Chosen, models
  <2>3. i \in Int /\ Len(cache) \in Int
    BY <1>3 DEF DecodingInv, ModelTypes
  <2> QED
    BY <2>1, <2>2, <2>3
<1>10. CallInv'
  <2>1. /\ call.count \in 0..MaxCount /\ Len(prefix) <= call.start /\ call.start \in Nat
        /\ call.start + Len(call.output) = Len(cache) /\ Len(call.output) \in Nat
    BY <1>2 DEF DecodingInv, CallInv, TextTypes, CallRecord
  <2> QED
    <3>1. call'.start + Len(call'.output) = Len(cache')
      <4>1. Len(e) \in Int /\ Len(cache) \in Int /\ Len(call.output) \in Int /\ call.start \in Int
        BY <1>1, <1>3, <2>1
      <4>2. Len(cache') = Len(cache) + Len(e)
        BY <1>3
      <4>3. Len(call'.output) = Len(call.output) + Len(e) /\ call'.start = call.start
        BY <1>4
      <4>4. call.start + Len(call.output) = Len(cache)
        BY <2>1
      <4>5. \A a, b, c, d \in Int : a + b = c => a + (b + d) = c + d
        OBVIOUS
      <4>6. call.start + (Len(call.output) + Len(e)) = Len(cache) + Len(e)
        BY <4>1, <4>4, <4>5
      <4> QED
        BY <4>2, <4>3, <4>6
    <3>2. call'.count \in 0..MaxCount /\ Len(prefix') <= call'.start
      BY <1>2, <1>4, <2>1 DEF models
    <3> QED
      BY <3>1, <3>2 DEF CallInv
<1>11. ReturnedInv'
  <2> SUFFICES ASSUME ~failed PROVE cache' = Given \o call'.output /\ call'.start = Len(Given)
    BY <1>2, <1>5 DEF ReturnedInv, Given, models
  <2>1. cache = Given \o call.output /\ call.start = Len(Given)
    BY <1>2 DEF DecodingInv, ReturnedInv
  <2>2. Given \in Seq(Vocab) /\ call.output \in Seq(Vocab)
    BY DEF Given, DecodingInv, ModelTypes, TextTypes, CallRecord
  <2>3. (Given \o call.output) \o e = Given \o (call.output \o e)
    BY <1>1, <2>2, Associative
  <2> QED
    BY <1>2, <1>4, <2>1, <2>3
<1> QED
  BY <1>6, <1>7, <1>8, <1>9, <1>10, <1>11 DEF DecodingInv

(* The surplus that is cut off comes after the prefix and what was asked for.  *)
LEMMA ReturnDecodingInv ==
  ASSUME DecoderConstants, DecodingInv, Return
  PROVE  DecodingInv'
<1> DEFINE n == call.start + call.count
           out == SubSeq(call.output, 1, call.count)
<1>1. /\ Calling /\ Len(call.output) >= call.count /\ cache' = SubSeq(cache, 1, n)
      /\ returned' = returned \o out /\ call' = NoCall /\ UNCHANGED <<models, draft_k, level, failed>>
  <2>1. call.count \in Int /\ Len(call.output) \in Nat
    BY DEF DecodingInv, TextTypes, CallRecord
  <2> QED
    BY <2>1 DEF Return, Unfinished
<1>2. /\ call.output \in Seq(Vocab) /\ call.start \in Nat /\ call.count \in Nat /\ n \in Nat
      /\ Len(prefix) <= n /\ n <= Len(cache) /\ call.start + Len(call.output) = Len(cache)
      /\ cache \in Seq(Vocab) /\ returned \in Seq(Vocab) /\ prefix \in Seq(Vocab)
  <2>1. /\ call \in CallRecord /\ cache \in Seq(Vocab) /\ returned \in Seq(Vocab)
        /\ prefix \in Seq(Vocab)
    BY DEF DecodingInv, TextTypes, ModelTypes
  <2>2. /\ call.count \in 0..MaxCount /\ Len(prefix) <= call.start
        /\ call.start + Len(call.output) = Len(cache)
    BY <1>1 DEF DecodingInv, CallInv
  <2>3. call.output \in Seq(Vocab) /\ call.start \in Nat /\ Len(call.output) \in Nat
    BY <2>1 DEF CallRecord
  <2>4. call.count \in Nat /\ call.count <= Len(call.output) /\ Len(prefix) \in Nat
    BY <1>1, <2>1, <2>2 DEF DecoderConstants
  <2>5. n \in Nat /\ Len(prefix) <= n /\ n <= Len(cache)
    BY ONLY <2>2, <2>3, <2>4
  <2> QED
    BY ONLY <2>1, <2>2, <2>3, <2>4, <2>5
<1>3. /\ cache' \in Seq(Vocab) /\ Len(cache') = n
      /\ \A i \in 1..n : cache'[i] = cache[i]
  <2>1. cache' = SubSeq(cache, 1, n) /\ cache \in Seq(Vocab) /\ n \in Nat /\ n <= Len(cache)
    BY <1>1, <1>2
  <2> HIDE DEF n
  <2> QED
    BY ONLY <2>1
<1>4. /\ out \in Seq(Vocab) /\ Len(out) = call.count
      /\ \A i \in 1..call.count : out[i] = call.output[i]
  <2>1. call.output \in Seq(Vocab) /\ call.count \in Nat /\ call.count <= Len(call.output)
    BY <1>1, <1>2
  <2> QED
    BY ONLY <2>1
<1> HIDE DEF n, out
<1>5. returned' \in Seq(Vocab) /\ ~Calling' /\ call' \in CallRecord
  BY <1>1, <1>2, <1>4 DEF Calling, NoCall, CallRecord, DecoderConstants
<1>6. ModelTypes' /\ TextTypes' /\ PlanTypes'
  <2>1. Len(cache') <= MaxTokens
    BY <1>2, <1>3 DEF DecodingInv, TextTypes, DecoderConstants
  <2> QED
    BY <1>1, <1>3, <1>5, <2>1 DEF DecodingInv, ModelTypes, TextTypes, PlanTypes, models
<1>7. FollowsPrefix'
  BY <1>1, <1>2, <1>3 DEF DecodingInv, FollowsPrefix, models
<1>8. ChosenByTarget'
  <2> SUFFICES ASSUME decoder.mode = "greedy", NEW i \in (Len(prefix) + 1)..Len(cache') PROVE Chosen(i)'
    BY <1>1 DEF ChosenByTarget, models
  <2>1. i \in 1..n /\ i \in (Len(prefix) + 1)..Len(cache)
    BY <1>2, <1>3
  <2>2. cache'[i] = cache[i] /\ Previous(cache', 0, i) = Previous(cache, 0, i)
    BY <1>2, <1>3, <2>1 DEF Previous
  <2> QED
    BY <1>1, <2>1, <2>2 DEF DecodingInv, ChosenByTarget, Chosen, models
<1>9. CallInv'
  BY <1>5 DEF CallInv
<1>10. ReturnedInv'
  <2> SUFFICES ASSUME ~failed PROVE cache' = prefix \o returned'
    BY <1>1, <1>5 DEF ReturnedInv, Given, models
  <2>1. cache = Given \o call.output /\ call.start = Len(Given)
    BY <1>1 DEF DecodingInv, ReturnedInv
  <2>2. Given \in Seq(Vocab) /\ Given \o out \in Seq(Vocab) /\ prefix \o returned' = Given \o out
    <3>1. (prefix \o returned) \o out = prefix \o (returned \o out)
      BY <1>2, <1>4, Associative
    <3>2. prefix \o returned \in Seq(Vocab) /\ (prefix \o returned) \o out \in Seq(Vocab)
      BY <1>2, <1>4
    <3> QED
      BY <1>1, <3>1, <3>2 DEF Given
  <2>3. Len(Given \o out) = n /\ Len(Given) \in Nat
    BY <1>2, <1>4, <2>1, <2>2 DEF n
  <2>4. ASSUME NEW i \in 1..n PROVE cache'[i] = (Given \o out)[i]
    <3>1. cache'[i] = (Given \o call.output)[i]
      BY <1>3, <2>1
    <3>2. CASE i <= Len(Given)
      BY <1>2, <1>4, <2>2, <2>3, <3>1, <3>2
    <3>3. CASE i > Len(Given)
      <4>1. i - Len(Given) \in 1..call.count /\ i - Len(Given) \in 1..Len(call.output)
        <5>1. /\ i \in Nat /\ i <= call.start + call.count /\ call.start = Len(Given)
              /\ call.start + call.count <= call.start + Len(call.output)
          BY <1>2, <2>1, <2>3 DEF n
        <5>2. call.count \in Nat /\ Len(call.output) \in Nat /\ Len(Given) \in Nat
          BY <1>2, <2>3
        <5> QED
          BY ONLY <3>3, <5>1, <5>2
      <4>2. (Given \o call.output)[i] = call.output[i - Len(Given)]
        BY <1>2, <2>2, <2>3, <3>3, <4>1
      <4>3. (Given \o out)[i] = out[i - Len(Given)]
        BY <1>4, <2>2, <2>3, <3>3, <4>1
      <4> QED
        BY <1>4, <3>1, <4>1, <4>2, <4>3
    <3> QED
      BY <1>2, <2>3, <3>2, <3>3
  <2> QED
    BY <1>3, <2>2, <2>3, <2>4, SeqEqual
<1> QED
  BY <1>6, <1>7, <1>8, <1>9, <1>10 DEF DecodingInv

LEMMA RaisesDecodingInv ==
  ASSUME DecoderConstants, DecodingInv, NEW e, StepRaises(e)
  PROVE  DecodingInv'
<1>1. call' = NoCall /\ failed' = TRUE /\ UNCHANGED <<models, cache, draft_k, level, returned>>
  BY DEF StepRaises
<1>2. call' \in CallRecord /\ ~Calling'
  BY <1>1 DEF NoCall, CallRecord, Calling, DecoderConstants
<1> QED
  BY <1>1, <1>2 DEF DecodingInv, ModelTypes, TextTypes, PlanTypes, FollowsPrefix, ChosenByTarget, Chosen,
                    Previous, CallInv, ReturnedInv, models

LEMMA NextDecodingInv ==
  ASSUME DecoderConstants, DecodingInv, [DecodingNext]_decoding_vars
  PROVE  DecodingInv'
<1>1. CASE UNCHANGED decoding_vars
  BY <1>1
  DEF DecodingInv, ModelTypes, TextTypes, PlanTypes, FollowsPrefix, ChosenByTarget, Chosen, Previous,
      CallInv, ReturnedInv, Given, Calling, decoding_vars, models
<1>2. ASSUME NEW l \in Levels, SetThermal(l) PROVE DecodingInv'
  BY <1>2
  DEF SetThermal, DecodingInv, ModelTypes, TextTypes, PlanTypes, FollowsPrefix, ChosenByTarget, Chosen,
      Previous, CallInv, ReturnedInv, Given, Calling, models
<1> QED
  BY <1>1, <1>2, GenerateDecodingInv, StepDecodingInv, ReturnDecodingInv, RaisesDecodingInv DEF DecodingNext, Rounds

(* The inductive invariant holds of every state of a decoder.                *)
THEOREM DecodingInvariance == ASSUME DecoderConstants PROVE DecodingSpec => []DecodingInv
<1>1. DecodingInit => DecodingInv
  BY InitDecodingInv
<1>2. DecodingInv /\ [DecodingNext]_decoding_vars => DecodingInv'
  BY NextDecodingInv
<1> QED
  BY <1>1, <1>2, PTL DEF DecodingSpec
-----------------------------------------------------------------------------
(* Token by token, the text after the prefix is what the target decodes alone. *)
LEMMA ChosenIsRun ==
  ASSUME DecoderConstants, DecodingInv, decoder.mode = "greedy"
  PROVE  cache = prefix \o Run(target, LastToken(prefix), Len(cache) - Len(prefix))
<1> DEFINE n == Len(cache) - Len(prefix)
           R == Run(target, LastToken(prefix), n)
           Bad == {i \in 1..n : cache[Len(prefix) + i] # R[i]}
<1>1. /\ n \in Nat /\ cache \in Seq(Vocab) /\ prefix \in Seq(Vocab) /\ LastToken(prefix) \in Vocab
      /\ target \in [Vocab -> Vocab] /\ Len(cache) = Len(prefix) + n
  BY DEF DecodingInv, ModelTypes, TextTypes, FollowsPrefix, LastToken, DecoderConstants
<1> HIDE DEF n
<1>2. R \in Seq(Vocab) /\ Len(R) = n
  BY <1>1, RunTyped
<1>3. \A i \in 1..n : R[i] = target[IF i = 1 THEN LastToken(prefix) ELSE R[i - 1]]
  BY <1>1, RunUnfolds
<1> HIDE DEF R
<1>4. ASSUME NEW i \in 1..n PROVE cache[Len(prefix) + i] = target[Previous(cache, 0, Len(prefix) + i)]
  <2>1. Len(prefix) + i \in (Len(prefix) + 1)..Len(cache)
    BY <1>1
  <2> QED
    BY <2>1 DEF DecodingInv, ChosenByTarget, Chosen
<1>5. Bad = {}
  <2>1. SUFFICES ASSUME Bad # {} PROVE FALSE
    OBVIOUS
  <2>2. Bad \subseteq Nat
    OBVIOUS
  <2>3. PICK m \in Bad : \A k \in Bad : m <= k
    <3> HIDE DEF Bad
    <3> QED
      BY <2>1, <2>2, HasLeast
  <2>4. Previous(cache, 0, Len(prefix) + m) = IF m = 1 THEN LastToken(prefix) ELSE R[m - 1]
    <3>1. CASE m = 1 /\ prefix = <<>>
      BY <3>1 DEF Previous, LastToken
    <3>2. CASE m = 1 /\ prefix # <<>>
      <4>1. Len(prefix) \in 1..Len(prefix) /\ cache[Len(prefix)] = prefix[Len(prefix)]
        BY <1>1, <3>2 DEF DecodingInv, FollowsPrefix
      <4> QED
        BY <3>2, <4>1 DEF Previous, LastToken
    <3>3. CASE m # 1
      <4>1. m - 1 \in 1..n /\ m - 1 \notin Bad /\ Len(prefix) \in Nat
        BY <1>1, <2>3, <3>3
      <4> QED
        BY <3>3, <4>1 DEF Previous
    <3> QED
      BY <3>1, <3>2, <3>3
  <2> QED
    BY <1>3, <1>4, <2>3, <2>4
<1>6. ASSUME NEW i \in 1..Len(cache) PROVE cache[i] = (prefix \o R)[i]
  <2>1. CASE i <= Len(prefix)
    <3>1. i \in 1..Len(prefix) /\ cache[i] = prefix[i]
      BY <1>1, <2>1 DEF DecodingInv, FollowsPrefix
    <3> QED
      BY <1>1, <1>2, <3>1
  <2>2. CASE i > Len(prefix)
    <3>1. i - Len(prefix) \in 1..n /\ i = Len(prefix) + (i - Len(prefix)) /\ Len(prefix) \in Nat
      BY <1>1, <2>2
    <3>2. cache[i] = R[i - Len(prefix)]
      BY <1>5, <3>1
    <3> QED
      BY <1>1, <1>2, <2>2, <3>1, <3>2
  <2>3. i \in Int /\ Len(prefix) \in Int
    BY <1>1
  <2>4. i <= Len(prefix) \/ i > Len(prefix)
    BY <2>3
  <2> QED
    BY <2>1, <2>2, <2>4
<1>7. prefix \o R \in Seq(Vocab) /\ Len(prefix \o R) = Len(cache)
  <2>1. prefix \in Seq(Vocab)
    BY <1>1
  <2>2. prefix \o R \in Seq(Vocab) /\ Len(prefix \o R) = Len(prefix) + Len(R)
    BY <1>2, <2>1, ConcatProperties, Zenon
  <2> QED
    BY <1>1, <1>2, <2>2
<1>8. cache = prefix \o R
  BY <1>1, <1>6, <1>7, SeqEqual
<1> QED
  BY <1>8 DEF R, n

(* However the draft model proposes and however its length is adapted, a       *)
(* greedy decoder holds what the target model would have decoded alone: in the *)
(* middle of a call, after surplus tokens were cut off, and after a call that *)
(* raised.                                                                  *)
THEOREM GreedyIsExact == ASSUME DecoderConstants PROVE DecodingSpec => []DecodesAsTarget
<1>1. DecodingInv => DecodesAsTarget
  BY ChosenIsRun DEF DecodesAsTarget
<1> QED
  BY <1>1, DecodingInvariance, PTL

(* Between calls, until one has raised, the cache holds the prefix and what    *)
(* calls returned, and no surplus that a later call would observe.           *)
THEOREM NothingUnreturned == ASSUME DecoderConstants PROVE DecodingSpec => []CacheIsReturned
<1>1. DecodingInv => CacheIsReturned
  BY DEF DecodingInv, ReturnedInv, Given, CacheIsReturned
<1> QED
  BY <1>1, DecodingInvariance, PTL

(* All three of what the run asks of the decoders, for every instance.        *)
THEOREM DecodingStaysExact == ASSUME DecoderConstants PROVE DecodingSpec => []DecodingIsExact
<1>1. DecodingInv => DecodingTypeOK
  <2> SUFFICES ASSUME TextTypes, PlanTypes PROVE DecodingTypeOK
    BY DEF DecodingInv
  <2>1. \A i \in DOMAIN cache : cache[i] \in Vocab
    BY DEF TextTypes
  <2>2. call.count \in -1..MaxCount
    BY DEF TextTypes, CallRecord
  <2> QED
    BY <2>1, <2>2 DEF DecodingTypeOK, TextTypes, PlanTypes
<1>2. DecodingInv => DecodesAsTarget
  BY ChosenIsRun DEF DecodesAsTarget
<1>3. DecodingInv => CacheIsReturned
  BY DEF DecodingInv, ReturnedInv, Given, CacheIsReturned
<1>4. DecodingInv => DecodingIsExact
  BY <1>1, <1>2, <1>3 DEF DecodingIsExact
<1> QED
  BY <1>4, DecodingInvariance, PTL
-----------------------------------------------------------------------------
(* Requests, as pack is given them.                                          *)
Distinct(s) == \A i, j \in DOMAIN s : s[i] = s[j] => i = j

LEMMA PrefillTypes ==
  ASSUME NEW r \in Prefills
  PROVE  /\ length(r) \in Nat \ {0} /\ Bucket(r) \in Int
         /\ PrefillOf[r].priority \in Int /\ PrefillOf[r].deadline \in Nat
<1>1. PrefillOf[r] \in [length : Nat \ {0}, priority : Int, deadline : Nat]
  BY PrefillAssumption
<1>2. length(r) \in Nat \ {0} /\ PrefillOf[r].priority \in Int /\ PrefillOf[r].deadline \in Nat
  BY <1>1 DEF length
<1>3. bucket_width \in Nat \ {0}
  BY PrefillAssumption
<1>4. Bucket(r) \in Int
  BY <1>2, <1>3 DEF Bucket
<1> QED
  BY <1>2, <1>4

(* Who is due before whom: no two before each other, and between two that are   *)
(* apart every third is after the one or before the other.                  *)
LEMMA DueOrders ==
  ASSUME NEW p \in Prefills, NEW q \in Prefills, NEW r \in Prefills
  PROVE  /\ DueBefore(p, q) => ~DueBefore(q, p)
         /\ DueBefore(p, q) => DueBefore(p, r) \/ DueBefore(r, q)
<1>1. \A s \in {p, q, r} : Bucket(s) \in Int /\ PrefillOf[s].priority \in Int /\ PrefillOf[s].deadline \in Nat
  BY PrefillTypes
<1> HIDE DEF Bucket
<1>2. DueBefore(p, q) => ~DueBefore(q, p)
  BY <1>1 DEF DueBefore
<1>3. DueBefore(p, q) => DueBefore(p, r) \/ DueBefore(r, q)
  BY <1>1 DEF DueBefore
<1> QED
  BY <1>2, <1>3

(* So the places of what was given are ordered one after the other.          *)
LEMMA PlacesOrdered ==
  ASSUME NEW given \in Seq(Prefills), NEW i \in DOMAIN given, NEW j \in DOMAIN given, NEW k \in DOMAIN given
  PROVE  /\ ComesBefore(given, i, j) => ~ComesBefore(given, j, i)
         /\ i = j \/ ComesBefore(given, i, j) \/ ComesBefore(given, j, i)
         /\ ComesBefore(given, i, j) /\ ComesBefore(given, j, k) => ComesBefore(given, i, k)
<1>1. i \in Nat /\ j \in Nat /\ k \in Nat
  OBVIOUS
<1>2. given[i] \in Prefills /\ given[j] \in Prefills /\ given[k] \in Prefills
  OBVIOUS
<1> DEFINE D(a, b) == DueBefore(given[a], given[b])
<1>3. /\ D(i, j) => ~D(j, i)
      /\ D(j, i) => ~D(i, j)
      /\ D(i, j) => D(i, k) \/ D(k, j)
      /\ D(j, k) => D(j, i) \/ D(i, k)
      /\ D(k, i) => D(k, j) \/ D(j, i)
      /\ D(k, i) => ~D(i, k)
      /\ D(k, j) => ~D(j, k)
      /\ D(i, k) => ~D(k, i)
      /\ D(j, k) => ~D(k, j)
  BY <1>2, DueOrders
<1>4. \A a, b \in {i, j, k} : ComesBefore(given, a, b) <=> D(a, b) \/ (a < b /\ ~D(b, a))
  BY DEF ComesBefore
<1> HIDE DEF D
<1>5. ComesBefore(given, i, j) => ~ComesBefore(given, j, i)
  BY <1>1, <1>3, <1>4
<1>6. i = j \/ ComesBefore(given, i, j) \/ ComesBefore(given, j, i)
  BY <1>1, <1>3, <1>4
<1>7. ComesBefore(given, i, j) /\ ComesBefore(given, j, k) => ComesBefore(given, i, k)
  BY <1>1, <1>3, <1>4
<1> QED
  BY <1>5, <1>6, <1>7

(* The number of places before one, which tells it from every other.         *)
Nth(given, i) == CHOOSE j \in DOMAIN given : Cardinality(Earlier(given, j)) = i - 1

LEMMA Numbered ==
  ASSUME NEW given \in Seq(Prefills)
  PROVE  /\ \A j \in 1..Len(given) : Cardinality(Earlier(given, j)) + 1 \in 1..Len(given)
         /\ \A i, j \in 1..Len(given) : ComesBefore(given, i, j) =>
              Cardinality(Earlier(given, i)) < Cardinality(Earlier(given, j))
         /\ \A i \in 1..Len(given) : \E j \in 1..Len(given) : Cardinality(Earlier(given, j)) = i - 1
<1> DEFINE n == Len(given)
           rank(j) == Cardinality(Earlier(given, j))
<1>1. n \in Nat /\ DOMAIN given = 1..n /\ IsFiniteSet(1..n) /\ Cardinality(1..n) = n
  <2>1. n \in Nat
    OBVIOUS
  <2>2. IsFiniteSet(1..n) /\ Cardinality(1..n) = IF 1 > n THEN 0 ELSE n - 1 + 1
    BY <2>1, FS_Interval
  <2>3. DOMAIN given = 1..n
    OBVIOUS
  <2> HIDE DEF n
  <2>4. (IF 1 > n THEN 0 ELSE n - 1 + 1) = n
    BY <2>1
  <2> QED
    BY <2>1, <2>2, <2>3, <2>4
<1>2. ASSUME NEW j \in 1..n PROVE IsFiniteSet(Earlier(given, j)) /\ rank(j) \in Nat /\ rank(j) + 1 \in 1..n
  <2>1. Earlier(given, j) \subseteq (1..n) \ {j}
    BY <1>1, PlacesOrdered DEF Earlier
  <2>2. IsFiniteSet((1..n) \ {j}) /\ Cardinality((1..n) \ {j}) = n - 1
    BY <1>1, FS_RemoveElement
  <2>3. IsFiniteSet(Earlier(given, j)) /\ rank(j) <= n - 1
    BY <2>1, <2>2, FS_Subset
  <2>4. rank(j) \in Nat
    BY <2>3, FS_CardinalityType
  <2> QED
    BY <1>1, <2>3, <2>4
<1>3. ASSUME NEW i \in 1..n, NEW j \in 1..n, ComesBefore(given, i, j) PROVE rank(i) < rank(j)
  <2>1. i \notin Earlier(given, i)
    BY <1>1, PlacesOrdered DEF Earlier
  <2>2. Earlier(given, i) \cup {i} \subseteq Earlier(given, j)
    <3>1. ASSUME NEW k \in Earlier(given, i) PROVE k \in Earlier(given, j)
      <4>1. k \in 1..n /\ ComesBefore(given, k, i)
        BY <1>1 DEF Earlier
      <4> QED
        BY <1>1, <1>3, <4>1, PlacesOrdered DEF Earlier
    <3>2. i \in Earlier(given, j)
      BY <1>1, <1>3 DEF Earlier
    <3> QED
      BY <3>1, <3>2
  <2>3. Cardinality(Earlier(given, i) \cup {i}) = rank(i) + 1
    BY <1>2, <2>1, FS_AddElement
  <2>4. Cardinality(Earlier(given, i) \cup {i}) <= rank(j)
    BY <1>2, <2>2, FS_Subset
  <2> QED
    BY <1>2, <2>3, <2>4
<1> DEFINE f == [j \in 1..n |-> rank(j) + 1]
<1>4. f \in Injection(1..n, 1..n)
  <2>1. f \in [1..n -> 1..n]
    BY <1>2
  <2>2. ASSUME NEW i \in 1..n, NEW j \in 1..n, f[i] = f[j] PROVE i = j
    <3>1. rank(i) = rank(j) /\ rank(i) \in Nat
      BY <1>2, <2>2
    <3>2. i = j \/ ComesBefore(given, i, j) \/ ComesBefore(given, j, i)
      BY <1>1, PlacesOrdered
    <3>3. ~(rank(i) < rank(j)) /\ ~(rank(j) < rank(i))
      BY <3>1
    <3> QED
      BY <1>3, <3>2, <3>3
  <2> HIDE DEF f
  <2> QED
    BY <2>1, <2>2 DEF Injection, IsInjective
<1>5. f \in Surjection(1..n, 1..n)
  BY <1>1, <1>4, FS_Injection
<1>6. ASSUME NEW i \in 1..n PROVE \E j \in 1..n : rank(j) = i - 1
  <2>1. PICK j \in 1..n : f[j] = i
    BY <1>5 DEF Surjection
  <2>2. rank(j) + 1 = i /\ rank(j) \in Nat
    BY <1>2, <2>1
  <2> QED
    BY <1>1, <2>2
<1> QED
  BY <1>2, <1>3, <1>6

(* What pack sorts is what it was given, and nobody is after one who is due    *)
(* later.                                                                   *)
LEMMA SortedFacts ==
  ASSUME NEW given \in Seq(Prefills), Distinct(given)
  PROVE  /\ Sorted(given) \in Seq(Prefills) /\ Len(Sorted(given)) = Len(given)
         /\ Distinct(Sorted(given)) /\ ToSet(Sorted(given)) = ToSet(given)
         /\ \A i, j \in 1..Len(given) : i < j => ~DueBefore(Sorted(given)[j], Sorted(given)[i])
<1> DEFINE n == Len(given)
           at(i) == Nth(given, i)
           rank(j) == Cardinality(Earlier(given, j))
<1>1. n \in Nat /\ DOMAIN given = 1..n
  OBVIOUS
<1>2. ASSUME NEW i \in 1..n PROVE at(i) \in 1..n /\ rank(at(i)) = i - 1 /\ Sorted(given)[i] = given[at(i)]
  BY <1>1, Numbered DEF Nth, Sorted
<1>3. Sorted(given) = [i \in 1..n |-> given[at(i)]]
  BY <1>1 DEF Nth, Sorted
<1>4. Sorted(given) \in Seq(Prefills) /\ Len(Sorted(given)) = n /\ DOMAIN Sorted(given) = 1..n
  <2>1. \A i \in 1..n : given[at(i)] \in Prefills
    BY <1>2
  <2> HIDE DEF at
  <2> QED
    BY <1>1, <1>3, <2>1
<1> HIDE DEF at, rank, n
<1>5. ASSUME NEW i \in 1..n, NEW j \in 1..n, at(i) = at(j) PROVE i = j
  <2>1. i - 1 = j - 1
    BY <1>2, <1>5
  <2> QED
    BY <1>1, <2>1
<1>6. Distinct(Sorted(given))
  <2>1. ASSUME NEW i \in 1..n, NEW j \in 1..n, Sorted(given)[i] = Sorted(given)[j] PROVE i = j
    <3>1. given[at(i)] = given[at(j)] /\ at(i) \in 1..n /\ at(j) \in 1..n
      BY <1>2, <2>1
    <3>2. at(i) = at(j)
      BY <1>1, <3>1 DEF Distinct
    <3> QED
      BY <1>5, <3>2
  <2> QED
    BY <1>4, <2>1 DEF Distinct
<1>7. ASSUME NEW j \in 1..n PROVE \E i \in 1..n : at(i) = j
  <2>1. PICK i : i = rank(j) + 1
    OBVIOUS
  <2>2. i \in 1..n
    BY <2>1, Numbered DEF rank, n
  <2>3. rank(j) \in Nat
    <3>1. IsFiniteSet(1..n) /\ Earlier(given, j) \subseteq 1..n
      BY <1>1, FS_Interval DEF Earlier
    <3> QED
      BY <3>1, FS_Subset, FS_CardinalityType DEF rank
  <2>4. PICK k : k = at(i)
    OBVIOUS
  <2>5. k \in 1..n /\ rank(k) = rank(j)
    <3>1. i - 1 = rank(j)
      BY <2>1, <2>3
    <3> QED
      BY <1>2, <2>2, <2>4, <3>1
  <2>6. k = j
    <3>1. k = j \/ ComesBefore(given, k, j) \/ ComesBefore(given, j, k)
      BY <1>1, <2>5, PlacesOrdered
    <3>2. /\ ComesBefore(given, k, j) => rank(k) < rank(j)
          /\ ComesBefore(given, j, k) => rank(j) < rank(k)
      BY <2>5, Numbered DEF rank, n
    <3> QED
      BY <2>3, <2>5, <3>1, <3>2
  <2> QED
    BY <2>2, <2>4, <2>6
<1>8. ToSet(Sorted(given)) = ToSet(given)
  <2>1. ASSUME NEW r \in ToSet(given) PROVE r \in ToSet(Sorted(given))
    <3>1. PICK j \in 1..n : r = given[j]
      BY <1>1 DEF ToSet
    <3>2. PICK i \in 1..n : at(i) = j
      BY <1>7
    <3> QED
      BY <1>2, <1>4, <3>1, <3>2 DEF ToSet
  <2>2. ASSUME NEW r \in ToSet(Sorted(given)) PROVE r \in ToSet(given)
    <3>1. PICK i \in 1..n : r = Sorted(given)[i]
      BY <1>4 DEF ToSet
    <3> QED
      BY <1>1, <1>2, <3>1 DEF ToSet
  <2> QED
    BY <2>1, <2>2
<1>9. ASSUME NEW i \in 1..n, NEW j \in 1..n, i < j PROVE ~DueBefore(Sorted(given)[j], Sorted(given)[i])
  <2>1. at(i) \in 1..n /\ at(j) \in 1..n /\ rank(at(i)) = i - 1 /\ rank(at(j)) = j - 1
    BY <1>2
  <2>2. ~ComesBefore(given, at(j), at(i))
    <3>1. ComesBefore(given, at(j), at(i)) => rank(at(j)) < rank(at(i))
      BY <2>1, Numbered DEF rank, n
    <3> QED
      BY <1>1, <1>9, <2>1, <3>1
  <2>3. ~DueBefore(given[at(j)], given[at(i)])
    BY <2>2 DEF ComesBefore
  <2> QED
    BY <1>2, <2>3
<1> QED
  BY <1>4, <1>6, <1>8, <1>9 DEF n
-----------------------------------------------------------------------------
(* The tokens of a batch, and of the requests up to one of them.             *)
Lengths(s) == [i \in DOMAIN s |-> length(s[i])]

LEMMA TokensUpTo ==
  ASSUME NEW s \in Seq(Prefills), NEW k \in 0..Len(s)
  PROVE  /\ TokenCount(SubSeq(s, 1, k)) = SumFunctionOnSet(Lengths(s), 1..k)
         /\ Summable(Lengths(s), 1..k) /\ TokenCount(SubSeq(s, 1, k)) \in Nat
<1> DEFINE c == SubSeq(s, 1, k)
<1>1. Len(s) \in Nat /\ k \in Nat /\ k <= Len(s) /\ DOMAIN s = 1..Len(s)
  OBVIOUS
<1>2. c \in Seq(Prefills) /\ Len(c) = k /\ DOMAIN c = 1..k /\ \A i \in 1..k : c[i] = s[i]
  BY <1>1
<1> HIDE DEF c
<1>3. \A i \in 1..k : Lengths(c)[i] = Lengths(s)[i] /\ Lengths(s)[i] \in Nat
  <2>1. ASSUME NEW i \in 1..k PROVE Lengths(c)[i] = Lengths(s)[i] /\ Lengths(s)[i] \in Nat
    <3>1. i \in DOMAIN s /\ i \in DOMAIN c /\ c[i] = s[i] /\ s[i] \in Prefills
      BY <1>1, <1>2
    <3> QED
      BY <3>1, PrefillTypes DEF Lengths
  <2> QED
    BY <2>1
<1>4. Summable(Lengths(s), 1..k)
  BY <1>1, <1>3, FS_Interval DEF Summable
<1>5. SumFunctionOnSet(Lengths(c), 1..k) = SumFunctionOnSet(Lengths(s), 1..k)
  BY <1>3, <1>4, SumSame
<1>6. TokenCount(c) = SumFunctionOnSet(Lengths(c), 1..k)
  BY <1>2 DEF TokenCount, Lengths
<1>7. SumFunctionOnSet(Lengths(s), 1..k) \in Nat
  BY <1>4, SumNat
<1> QED
  BY <1>4, <1>5, <1>6, <1>7 DEF c

LEMMA TokensNext ==
  ASSUME NEW s \in Seq(Prefills), NEW k \in 1..Len(s)
  PROVE  TokenCount(SubSeq(s, 1, k)) = TokenCount(SubSeq(s, 1, k - 1)) + length(s[k])
<1>1. Len(s) \in Nat /\ k \in 0..Len(s) /\ k - 1 \in 0..Len(s) /\ k \in DOMAIN s /\ (1..k) \ {k} = 1..(k - 1) /\ k \in 1..k
  OBVIOUS
<1>2. /\ TokenCount(SubSeq(s, 1, k)) = SumFunctionOnSet(Lengths(s), 1..k)
      /\ Summable(Lengths(s), 1..k)
      /\ TokenCount(SubSeq(s, 1, k - 1)) = SumFunctionOnSet(Lengths(s), 1..(k - 1))
  BY <1>1, TokensUpTo
<1>3. SumFunctionOnSet(Lengths(s), 1..k) = SumFunctionOnSet(Lengths(s), (1..k) \ {k}) + Lengths(s)[k]
  BY <1>1, <1>2, SumWithout
<1>4. Lengths(s)[k] = length(s[k])
  BY <1>1 DEF Lengths
<1> QED
  BY <1>1, <1>2, <1>3, <1>4

LEMMA TokensGrow ==
  ASSUME NEW s \in Seq(Prefills), NEW k \in 0..Len(s), NEW m \in 0..k
  PROVE  TokenCount(SubSeq(s, 1, m)) <= TokenCount(SubSeq(s, 1, k))
<1>1. m \in 0..Len(s) /\ 1..m \subseteq 1..k
  OBVIOUS
<1>2. /\ TokenCount(SubSeq(s, 1, k)) = SumFunctionOnSet(Lengths(s), 1..k)
      /\ Summable(Lengths(s), 1..k) /\ TokenCount(SubSeq(s, 1, k)) \in Nat
      /\ TokenCount(SubSeq(s, 1, m)) = SumFunctionOnSet(Lengths(s), 1..m)
      /\ TokenCount(SubSeq(s, 1, m)) \in Nat
  BY <1>1, TokensUpTo
<1>3. SumFunctionOnSet(Lengths(s), 1..k)
        = SumFunctionOnSet(Lengths(s), (1..k) \ (1..m)) + SumFunctionOnSet(Lengths(s), 1..m)
  BY <1>1, <1>2, SumSplit
<1>4. SumFunctionOnSet(Lengths(s), (1..k) \ (1..m)) \in Nat
  BY <1>2, SumNat
<1> QED
  BY <1>2, <1>3, <1>4

LEMMA TokensAppended ==
  ASSUME NEW b \in Seq(Prefills), NEW r \in Prefills
  PROVE  TokenCount(Append(b, r)) = TokenCount(b) + length(r)
<1> DEFINE c == Append(b, r)
           n == Len(b)
<1>1. c \in Seq(Prefills) /\ n \in Nat /\ Len(c) = n + 1 /\ c[n + 1] = r /\ \A i \in 1..n : c[i] = b[i]
  OBVIOUS
<1> HIDE DEF c, n
<1>2. SubSeq(c, 1, n + 1) = c
  BY <1>1, SubSeqFull
<1>3. SubSeq(c, 1, n) = b
  <2>1. SubSeq(c, 1, n) \in Seq(Prefills) /\ Len(SubSeq(c, 1, n)) = n /\ \A i \in 1..n : SubSeq(c, 1, n)[i] = c[i]
    BY <1>1
  <2>2. \A i \in 1..n : SubSeq(c, 1, n)[i] = b[i]
    BY <1>1, <2>1
  <2> QED
    BY <2>1, <2>2, SeqEqual DEF n
<1>4. n + 1 \in 1..Len(c) /\ (n + 1) - 1 = n
  BY <1>1
<1>5. TokenCount(SubSeq(c, 1, n + 1)) = TokenCount(SubSeq(c, 1, (n + 1) - 1)) + length(c[n + 1])
  BY <1>1, <1>4, TokensNext
<1> QED
  BY <1>1, <1>2, <1>3, <1>4, <1>5 DEF c
-----------------------------------------------------------------------------
(* What the page pool keeps: of each lease of this generation a span of its    *)
(* own within what is used.                                                 *)
LeaseRecord == [start : Nat, length : Nat \ {0}, generation : Nat]
Apart(l, m) == l.start + l.length <= m.start \/ m.start + m.length <= l.start
Within(l, n) == l.start + l.length <= n

LeasesOK ==
  /\ DOMAIN _leases \subseteq Prefills /\ _used \in 0..capacity_tokens /\ _generation \in 0..MaxGeneration
  /\ issued \subseteq Prefills \X LeaseRecord
  /\ \A p \in issued : p[2].generation = _generation /\ Within(p[2], _used)
  /\ \A p, q \in issued : p # q => Apart(p[2], q[2])
  /\ \A r \in DOMAIN _leases : <<r, _leases[r]>> \in issued

LEMMA LeaseFacts ==
  ASSUME LeasesOK, NEW s \in Seq(Prefills), NEW i \in 1..Len(s)
  PROVE  /\ Lease(s, i) \in LeaseRecord /\ Lease(s, i).generation = _generation
         /\ _used <= Lease(s, i).start
         /\ Within(Lease(s, i), _used + TokenCount(s))
         /\ \A j \in 1..Len(s) : i < j => Lease(s, i).start + Lease(s, i).length <= Lease(s, j).start
<1>1. /\ Len(s) \in Nat /\ i \in Nat /\ i - 1 \in 0..Len(s) /\ i \in 0..Len(s) /\ s[i] \in Prefills
      /\ Len(s) \in 0..Len(s)
  OBVIOUS
<1>2. _used \in Nat /\ _generation \in Nat
  BY PrefillAssumption DEF LeasesOK
<1>3. length(s[i]) \in Nat \ {0}
  BY <1>1, PrefillTypes
<1>4. TokenCount(SubSeq(s, 1, i - 1)) \in Nat /\ TokenCount(SubSeq(s, 1, i)) \in Nat /\ TokenCount(SubSeq(s, 1, Len(s))) \in Nat
  BY <1>1, TokensUpTo
<1>5. TokenCount(SubSeq(s, 1, i)) = TokenCount(SubSeq(s, 1, i - 1)) + length(s[i])
  BY TokensNext
<1>6. TokenCount(SubSeq(s, 1, i)) <= TokenCount(SubSeq(s, 1, Len(s)))
  BY <1>1, TokensGrow
<1>7. SubSeq(s, 1, Len(s)) = s
  BY SubSeqFull
<1>8. /\ Lease(s, i).start = _used + TokenCount(SubSeq(s, 1, i - 1))
      /\ Lease(s, i).length = length(s[i]) /\ Lease(s, i).generation = _generation
  BY DEF Lease
<1>9. Lease(s, i) \in LeaseRecord
  BY <1>2, <1>3, <1>4 DEF Lease, LeaseRecord
<1>10. Lease(s, i).start + Lease(s, i).length = _used + TokenCount(SubSeq(s, 1, i))
  BY <1>2, <1>3, <1>4, <1>5, <1>8
<1>11. ASSUME NEW j \in 1..Len(s), i < j
       PROVE  Lease(s, i).start + Lease(s, i).length <= Lease(s, j).start
  <2>1. j - 1 \in 0..Len(s) /\ i \in 0..(j - 1)
    BY <1>1, <1>11
  <2>2. TokenCount(SubSeq(s, 1, i)) <= TokenCount(SubSeq(s, 1, j - 1)) /\ TokenCount(SubSeq(s, 1, j - 1)) \in Nat
    BY <2>1, TokensGrow, TokensUpTo
  <2>3. Lease(s, j).start = _used + TokenCount(SubSeq(s, 1, j - 1))
    BY DEF Lease
  <2> QED
    BY <1>2, <1>4, <1>10, <2>2, <2>3
<1>12. Within(Lease(s, i), _used + TokenCount(s))
  <2>1. TokenCount(SubSeq(s, 1, i)) <= TokenCount(s) /\ TokenCount(s) \in Nat
    BY <1>4, <1>6, <1>7
  <2>2. _used + TokenCount(SubSeq(s, 1, i)) <= _used + TokenCount(s)
    BY <1>2, <1>4, <2>1
  <2> QED
    BY <1>10, <2>2 DEF Within
<1>13. _used <= Lease(s, i).start
  BY <1>2, <1>4, <1>8
<1> QED
  BY <1>8, <1>9, <1>11, <1>12, <1>13

(* reserve, for requests that have no lease and fit.                         *)
LEMMA ReserveKeeps ==
  ASSUME LeasesOK, NEW s \in Seq(Prefills), Distinct(s), \A i \in 1..Len(s) : s[i] \notin DOMAIN _leases,
         _used + TokenCount(s) <= capacity_tokens, Reserve(s)
  PROVE  LeasesOK'
<1> DEFINE n == Len(s)
           L(i) == Lease(s, i)
           new == {<<s[i], L(i)>> : i \in 1..n}
<1>1. n \in Nat /\ DOMAIN s = 1..n /\ \A i \in 1..n : s[i] \in Prefills
  OBVIOUS
<1>2. _used \in Nat /\ _generation \in Nat /\ TokenCount(s) \in Nat
  <2>1. TokenCount(SubSeq(s, 1, n)) \in Nat /\ SubSeq(s, 1, n) = s
    <3>1. n \in 0..Len(s)
      BY <1>1
    <3> QED
      BY <3>1, TokensUpTo, SubSeqFull
  <2>2. TokenCount(s) \in Nat
    BY ONLY <2>1
  <2>3. _used \in Nat /\ _generation \in Nat
    BY PrefillAssumption DEF LeasesOK
  <2> QED
    BY <2>2, <2>3
<1>3. /\ DOMAIN _leases' = DOMAIN _leases \cup ToSet(s)
      /\ \A r \in DOMAIN _leases : _leases'[r] = _leases[r]
      /\ \A r \in ToSet(s) \ DOMAIN _leases : _leases'[r] = L(Place(s, r))
      /\ _used' = _used + TokenCount(s) /\ issued' = issued \cup new /\ _generation' = _generation
  BY <1>1 DEF Reserve
<1>4. ASSUME NEW i \in 1..n
      PROVE  /\ L(i) \in LeaseRecord /\ L(i).generation = _generation /\ Within(L(i), _used')
             /\ _used <= L(i).start
             /\ \A j \in 1..n : i < j => L(i).start + L(i).length <= L(j).start
  BY <1>3, LeaseFacts
<1> HIDE DEF n, L
<1>5. _used' \in 0..capacity_tokens /\ _generation' \in 0..MaxGeneration /\ _used <= _used'
  <2>1. capacity_tokens \in Nat /\ MaxGeneration \in Nat
    BY PrefillAssumption
  <2>2. _used' \in 0..capacity_tokens /\ _used <= _used'
    BY <1>2, <1>3, <2>1
  <2>3. _generation' \in 0..MaxGeneration
    BY <1>3 DEF LeasesOK
  <2> QED
    BY <2>2, <2>3
<1>6. DOMAIN _leases' \subseteq Prefills
  BY <1>1, <1>3 DEF LeasesOK, ToSet
<1>7. \A p \in new : \E i \in 1..n : p = <<s[i], L(i)>>
  OBVIOUS
<1> HIDE DEF new
<1>8. issued' \subseteq Prefills \X LeaseRecord
  BY <1>1, <1>3, <1>4, <1>7 DEF LeasesOK
<1>9. ASSUME NEW p \in issued' PROVE p[2].generation = _generation' /\ Within(p[2], _used')
  <2>1. CASE p \in issued
    <3>1. p[2].generation = _generation /\ Within(p[2], _used) /\ p[2] \in LeaseRecord
      BY <2>1 DEF LeasesOK
    <3>2. Within(p[2], _used')
      BY <1>2, <1>3, <1>5, <3>1 DEF Within, LeaseRecord
    <3> QED
      BY <1>3, <3>1, <3>2
  <2>2. CASE p \in new
    BY <1>3, <1>4, <1>7, <2>2
  <2> QED
    BY <1>3, <2>1, <2>2
<1>10. ASSUME NEW p \in issued', NEW q \in issued', p # q PROVE Apart(p[2], q[2])
  <2>1. CASE p \in issued /\ q \in issued
    BY <1>10, <2>1 DEF LeasesOK
  <2>2. ASSUME NEW a \in issued, NEW i \in 1..n PROVE a[2].start + a[2].length <= L(i).start
    <3>1. Within(a[2], _used) /\ a[2] \in LeaseRecord
      BY DEF LeasesOK
    <3>2. L(i) \in LeaseRecord /\ _used <= L(i).start
      BY <1>4
    <3> QED
      BY <1>2, <3>1, <3>2 DEF Within, LeaseRecord
  <2>3. CASE p \in issued /\ q \in new
    BY <1>7, <2>2, <2>3 DEF Apart
  <2>4. CASE p \in new /\ q \in issued
    BY <1>7, <2>2, <2>4 DEF Apart
  <2>5. CASE p \in new /\ q \in new
    <3>1. PICK i \in 1..n : p = <<s[i], L(i)>>
      BY <1>7, <2>5
    <3>2. PICK j \in 1..n : q = <<s[j], L(j)>>
      BY <1>7, <2>5
    <3>3. i < j \/ j < i
      <4>1. i # j
        BY <1>10, <3>1, <3>2
      <4> QED
        BY <1>1, <4>1
    <3>4. /\ i < j => L(i).start + L(i).length <= L(j).start
          /\ j < i => L(j).start + L(j).length <= L(i).start
      BY <1>4
    <3> QED
      BY <3>1, <3>2, <3>3, <3>4 DEF Apart
  <2> QED
    BY <1>3, <2>1, <2>3, <2>4, <2>5
<1>11. ASSUME NEW r \in DOMAIN _leases' PROVE <<r, _leases'[r]>> \in issued'
  <2>1. CASE r \in DOMAIN _leases
    BY <1>3, <2>1 DEF LeasesOK
  <2>2. CASE r \in ToSet(s) \ DOMAIN _leases
    <3>1. Place(s, r) \in 1..n /\ s[Place(s, r)] = r
      BY <1>1, <2>2 DEF Place, ToSet
    <3>2. <<r, L(Place(s, r))>> \in new
      BY <3>1 DEF new
    <3> QED
      BY <1>3, <2>2, <3>2
  <2> QED
    BY <1>3, <2>1, <2>2
<1> QED
  BY <1>5, <1>6, <1>8, <1>9, <1>10, <1>11 DEF LeasesOK

(* release, of the last lease of its generation or of another.               *)
LEMMA ReleaseKeeps ==
  ASSUME LeasesOK, NEW r \in Prefills, ReleaseLease(r)
  PROVE  LeasesOK'
<1>1. /\ r \in DOMAIN _leases /\ _generation \in Nat /\ MaxGeneration \in Nat /\ capacity_tokens \in Nat
      /\ DOMAIN _leases' = DOMAIN _leases \ {r}
      /\ \A q \in DOMAIN _leases \ {r} : _leases'[q] = _leases[q]
  BY PrefillAssumption DEF LeasesOK, ReleaseLease, Restrict
<1>2. CASE DOMAIN _leases = {r}
  <2>1. _used' = 0 /\ _generation' = _generation + 1 /\ issued' = {} /\ _generation < MaxGeneration
    BY <1>2 DEF ReleaseLease
  <2>2. DOMAIN _leases' = {}
    BY <1>1, <1>2
  <2> QED
    BY <1>1, <2>1, <2>2 DEF LeasesOK
<1>3. CASE DOMAIN _leases # {r}
  <2>1. _used' = _used /\ _generation' = _generation /\ issued' = issued
    BY <1>3 DEF ReleaseLease
  <2> QED
    BY <1>1, <2>1 DEF LeasesOK
<1> QED
  BY <1>2, <1>3

LEMMA LeasesOKDistinct ==
  ASSUME LeasesOK
  PROVE  LeasesDistinct
<1>1. ASSUME NEW p \in issued, NEW q \in issued, p # q PROVE Span(p[2]) \cap Span(q[2]) = {}
  <2>1. Apart(p[2], q[2]) /\ p[2] \in LeaseRecord /\ q[2] \in LeaseRecord
    BY <1>1 DEF LeasesOK
  <2> QED
    BY <2>1 DEF Apart, LeaseRecord, Span
<1>2. ASSUME NEW r \in DOMAIN _leases
      PROVE  _leases[r].generation = _generation /\ Span(_leases[r]) \subseteq 0..(_used - 1)
  <2>1. PICK l : l = _leases[r]
    OBVIOUS
  <2>2. <<r, l>> \in issued
    BY <2>1 DEF LeasesOK
  <2>3. l \in LeaseRecord /\ l.generation = _generation /\ Within(l, _used) /\ _used \in Nat
    BY <2>2, PrefillAssumption DEF LeasesOK
  <2> QED
    BY <2>1, <2>3 DEF Within, LeaseRecord, Span
<1> QED
  BY <1>1, <1>2 DEF LeasesDistinct
-----------------------------------------------------------------------------
(* The recursive functions of Cut and of FlattenSeq do what they say.         *)
Cutting(f, s, n) == f = [i \in 0..n |-> IF i = 0 THEN <<>> ELSE Joined(f[i - 1], s[i])]
Flattening(f, bs, n) == f = [i \in 1..n |-> IF i = 1 THEN bs[i] ELSE f[i - 1] \o bs[i]]

LEMMA CuttingExists ==
  ASSUME NEW s, NEW n \in Nat
  PROVE  \E f : Cutting(f, s, n)
<1> DEFINE Bad == {k \in Nat : ~\E f : Cutting(f, s, k)}
<1>1. SUFFICES ASSUME Bad # {} PROVE FALSE
  OBVIOUS
<1>2. PICK m \in Bad : \A k \in Bad : m <= k
  BY <1>1, HasLeast
<1>3. m # 0
  <2>1. Cutting([i \in 0..0 |-> <<>>], s, 0)
    BY DEF Cutting
  <2> QED
    BY <1>2, <2>1
<1>4. m - 1 \in Nat /\ m - 1 \notin Bad
  BY <1>2, <1>3
<1>5. PICK g : Cutting(g, s, m - 1)
  BY <1>4
<1> DEFINE f == [i \in 0..m |-> IF i = m THEN Joined(g[m - 1], s[m]) ELSE g[i]]
<1> HIDE DEF Joined
<1>6. Cutting(f, s, m)
  BY <1>3, <1>5 DEF Cutting
<1> QED
  BY <1>2, <1>6

LEMMA FlatteningExists ==
  ASSUME NEW bs, NEW n \in Nat
  PROVE  \E f : Flattening(f, bs, n)
<1> DEFINE Bad == {k \in Nat : ~\E f : Flattening(f, bs, k)}
<1>1. SUFFICES ASSUME Bad # {} PROVE FALSE
  OBVIOUS
<1>2. PICK m \in Bad : \A k \in Bad : m <= k
  BY <1>1, HasLeast
<1>3. m # 0
  <2>1. Flattening([i \in 1..0 |-> bs[i]], bs, 0)
    BY DEF Flattening
  <2> QED
    BY <1>2, <2>1
<1>4. m - 1 \in Nat /\ m - 1 \notin Bad
  BY <1>2, <1>3
<1>5. PICK g : Flattening(g, bs, m - 1)
  BY <1>4
<1> DEFINE f == [i \in 1..m |-> IF i = m THEN (IF i = 1 THEN bs[i] ELSE g[m - 1] \o bs[m]) ELSE g[i]]
<1>6. Flattening(f, bs, m)
  <2>1. \A i \in 1..(m - 1) : g[i] = IF i = 1 THEN bs[i] ELSE g[i - 1] \o bs[i]
    BY <1>5 DEF Flattening
  <2>2. ASSUME NEW i \in 1..m PROVE f[i] = IF i = 1 THEN bs[i] ELSE f[i - 1] \o bs[i]
    <3>1. CASE i = 1
      <4>1. i # m => g[1] = bs[1]
        BY <1>4, <2>1, <3>1
      <4> QED
        BY <3>1, <4>1
    <3>2. CASE i # 1
      <4>1. i - 1 \in 1..m /\ i - 1 # m /\ f[i - 1] = g[i - 1]
        BY <1>4, <3>2
      <4>2. i # m => f[i] = g[i - 1] \o bs[i]
        <5>1. i # m => i \in 1..(m - 1) /\ f[i] = g[i]
          BY <1>4, <3>2
        <5> HIDE DEF f
        <5> QED
          BY <2>1, <3>2, <5>1
      <4>3. i = m => f[i] = g[m - 1] \o bs[m]
        BY <3>2
      <4> QED
        BY <3>2, <4>1, <4>2, <4>3
    <3> QED
      BY <3>1, <3>2
  <2>3. f = [i \in 1..m |-> f[i]]
    OBVIOUS
  <2> HIDE DEF f
  <2>4. f = [i \in 1..m |-> IF i = 1 THEN bs[i] ELSE f[i - 1] \o bs[i]]
    BY <2>2, <2>3
  <2> QED
    BY <2>4 DEF Flattening
<1> QED
  BY <1>2, <1>6

LEMMA CutUnfolds ==
  ASSUME NEW s \in Seq(Prefills)
  PROVE  \E f : Cutting(f, s, Len(s)) /\ Cut(s) = f[Len(s)]
<1> DEFINE f == CHOOSE f : f = [i \in 0..Len(s) |-> IF i = 0 THEN <<>> ELSE Joined(f[i - 1], s[i])]
<1>1. \E g : g = [i \in 0..Len(s) |-> IF i = 0 THEN <<>> ELSE Joined(g[i - 1], s[i])]
  BY CuttingExists DEF Cutting
<1>2. f = [i \in 0..Len(s) |-> IF i = 0 THEN <<>> ELSE Joined(f[i - 1], s[i])]
  BY <1>1, Zenon
<1>3. Cut(s) = f[Len(s)]
  BY DEF Cut
<1> HIDE DEF f
<1> QED
  BY <1>2, <1>3 DEF Cutting

LEMMA FlattenUnfolds ==
  ASSUME NEW P, NEW bs \in Seq(Seq(P)), bs # <<>>
  PROVE  \E f : Flattening(f, bs, Len(bs)) /\ FlattenSeq(bs) = f[Len(bs)]
<1> DEFINE f == CHOOSE f : f = [i \in 1..Len(bs) |-> IF i = 1 THEN bs[i] ELSE f[i - 1] \o bs[i]]
<1>1. \E g : g = [i \in 1..Len(bs) |-> IF i = 1 THEN bs[i] ELSE g[i - 1] \o bs[i]]
  <2>1. Len(bs) \in Nat
    OBVIOUS
  <2> QED
    BY <2>1, FlatteningExists DEF Flattening
<1>2. f = [i \in 1..Len(bs) |-> IF i = 1 THEN bs[i] ELSE f[i - 1] \o bs[i]]
  BY <1>1, Zenon
<1>3. FlattenSeq(bs) = f[Len(bs)]
  BY DEF FlattenSeq
<1> HIDE DEF f
<1> QED
  BY <1>2, <1>3 DEF Flattening

LEMMA FlattenTyped ==
  ASSUME NEW P, NEW bs \in Seq(Seq(P))
  PROVE  FlattenSeq(bs) \in Seq(P)
<1>1. CASE bs = <<>>
  BY <1>1 DEF FlattenSeq
<1>2. CASE bs # <<>>
  <2>1. PICK f : Flattening(f, bs, Len(bs)) /\ FlattenSeq(bs) = f[Len(bs)]
    BY <1>2, FlattenUnfolds
  <2>2. Len(bs) \in Nat /\ Len(bs) \in 1..Len(bs) /\ \A i \in 1..Len(bs) : bs[i] \in Seq(P)
    BY <1>2
  <2> DEFINE Bad == {i \in 1..Len(bs) : f[i] \notin Seq(P)}
  <2>3. Bad = {}
    <3>1. SUFFICES ASSUME Bad # {} PROVE FALSE
      OBVIOUS
    <3>2. PICK m \in Bad : \A k \in Bad : m <= k
      <4>1. Bad \subseteq Nat
        OBVIOUS
      <4> HIDE DEF Bad
      <4> QED
        BY <3>1, <4>1, HasLeast
    <3>3. m # 1 => m - 1 \in 1..Len(bs) /\ f[m - 1] \in Seq(P)
      BY <2>2, <3>2
    <3>4. f[m] = IF m = 1 THEN bs[m] ELSE f[m - 1] \o bs[m]
      BY <2>1 DEF Flattening
    <3>5. bs[m] \in Seq(P) /\ (m # 1 => f[m - 1] \o bs[m] \in Seq(P))
      BY <2>2, <3>2, <3>3
    <3> QED
      BY <3>2, <3>4, <3>5
  <2> QED
    BY <2>1, <2>2, <2>3
<1> QED
  BY <1>1, <1>2

LEMMA FlattenNext ==
  ASSUME NEW P, NEW bs \in Seq(Seq(P)), NEW b \in Seq(P)
  PROVE  FlattenSeq(Append(bs, b)) = FlattenSeq(bs) \o b
<1> DEFINE cs == Append(bs, b)
           n == Len(bs)
<1>1. /\ cs \in Seq(Seq(P)) /\ cs # <<>> /\ n \in Nat /\ Len(cs) = n + 1 /\ cs[n + 1] = b
      /\ \A i \in 1..n : cs[i] = bs[i]
  <2> DEFINE S == Seq(P)
  <2>1. bs \in Seq(S) /\ b \in S
    OBVIOUS
  <2> HIDE DEF S
  <2>2. /\ cs \in Seq(S) /\ cs # <<>> /\ n \in Nat /\ Len(cs) = n + 1 /\ cs[n + 1] = b
        /\ \A i \in 1..n : cs[i] = bs[i]
    BY <2>1
  <2> QED
    BY <2>2 DEF S
<1>2. bs = <<>> <=> n = 0
  OBVIOUS
<1> HIDE DEF cs, n
<1>3. PICK g : Flattening(g, cs, Len(cs)) /\ FlattenSeq(cs) = g[Len(cs)]
  BY <1>1, FlattenUnfolds
<1>4. CASE n = 0
  <2>1. FlattenSeq(cs) = b
    BY <1>1, <1>3, <1>4 DEF Flattening
  <2>2. FlattenSeq(bs) = <<>>
    BY <1>2, <1>4 DEF FlattenSeq
  <2> QED
    BY <2>1, <2>2 DEF cs
<1>5. CASE n # 0
  <2>1. PICK f : Flattening(f, bs, n) /\ FlattenSeq(bs) = f[n]
    BY <1>2, <1>5, FlattenUnfolds DEF n
  <2>2. /\ \A i \in 1..n : f[i] = IF i = 1 THEN bs[i] ELSE f[i - 1] \o bs[i]
        /\ \A i \in 1..(n + 1) : g[i] = IF i = 1 THEN cs[i] ELSE g[i - 1] \o cs[i]
    BY <1>1, <1>3, <2>1 DEF Flattening
  <2> DEFINE Bad == {i \in 1..n : f[i] # g[i]}
  <2>3. Bad = {}
    <3>1. SUFFICES ASSUME Bad # {} PROVE FALSE
      OBVIOUS
    <3>2. PICK m \in Bad : \A k \in Bad : m <= k
      <4>1. Bad \subseteq Nat
        OBVIOUS
      <4> HIDE DEF Bad
      <4> QED
        BY <3>1, <4>1, HasLeast
    <3>3. m \in 1..n /\ m \in 1..(n + 1) /\ cs[m] = bs[m]
      BY <1>1, <3>2
    <3>4. m # 1 => m - 1 \in 1..n /\ f[m - 1] = g[m - 1]
      BY <1>1, <3>2
    <3> QED
      BY <2>2, <3>2, <3>3, <3>4
  <2>4. f[n] = g[n] /\ n \in Nat \ {0}
    BY <1>1, <1>5, <2>3
  <2>5. n + 1 \in 1..(n + 1) /\ n + 1 # 1 /\ (n + 1) - 1 = n
    BY <2>4
  <2>6. g[n + 1] = g[n] \o b
    BY <1>1, <2>2, <2>5
  <2> QED
    BY <1>1, <1>3, <2>1, <2>4, <2>6 DEF cs
<1> QED
  BY <1>4, <1>5
-----------------------------------------------------------------------------
(* A batch as pack may return it.                                            *)
BatchOK(b) ==
  /\ b \in Seq(Prefills)
  /\ \A i, j \in DOMAIN b : Bucket(b[i]) = Bucket(b[j])
  /\ Len(b) \in 1..max_sequences
  /\ Len(b) = 1 \/ TokenCount(b) <= max_tokens
BatchesOf(bs, s) ==
  /\ bs \in Seq(Seq(Prefills)) /\ FlattenSeq(bs) = s
  /\ \A i \in 1..Len(bs) : BatchOK(bs[i])

LEMMA JoinedKeeps ==
  ASSUME NEW s \in Seq(Prefills), NEW bs, BatchesOf(bs, s), NEW r \in Prefills
  PROVE  BatchesOf(Joined(bs, r), Append(s, r))
<1>1. bs \in Seq(Seq(Prefills)) /\ FlattenSeq(bs) = s /\ \A i \in 1..Len(bs) : BatchOK(bs[i])
  BY DEF BatchesOf
<1>2. CASE bs # <<>> /\ Joins(Last(bs), r)
  <2> DEFINE front == Front(bs)
             last == Last(bs)
             b == Append(last, r)
             n == Len(bs)
  <2>1. n \in Nat \ {0} /\ last = bs[n] /\ bs[n] \in Seq(Prefills) /\ BatchOK(last)
    BY <1>1, <1>2 DEF Last
  <2>2. /\ front \in Seq(Seq(Prefills)) /\ Len(front) = n - 1 /\ \A i \in 1..(n - 1) : front[i] = bs[i]
    <3> DEFINE S == Seq(Prefills)
    <3>1. bs \in Seq(S) /\ n - 1 \in Nat /\ n - 1 <= Len(bs)
      BY <1>1, <2>1
    <3> HIDE DEF S
    <3>2. /\ SubSeq(bs, 1, n - 1) \in Seq(S) /\ Len(SubSeq(bs, 1, n - 1)) = n - 1
          /\ \A i \in 1..(n - 1) : SubSeq(bs, 1, n - 1)[i] = bs[i]
      <4>1. PICK k : k = n - 1
        OBVIOUS
      <4>2. k \in Nat /\ k <= Len(bs) /\ bs \in Seq(S)
        BY <3>1, <4>1
      <4> HIDE DEF n
      <4>3. /\ SubSeq(bs, 1, k) \in Seq(S) /\ Len(SubSeq(bs, 1, k)) = k
            /\ \A i \in 1..k : SubSeq(bs, 1, k)[i] = bs[i]
        BY ONLY <4>2
      <4> QED
        BY <4>1, <4>3
    <3> QED
      BY <3>2 DEF S, Front
  <2>3. bs = Append(front, last)
    <3>1. /\ Append(front, last) \in Seq(Seq(Prefills)) /\ Len(Append(front, last)) = n
          /\ \A i \in 1..n : Append(front, last)[i] = bs[i]
      BY <2>1, <2>2
    <3> QED
      BY <1>1, <3>1, SeqEqual
  <2>4. Joined(bs, r) = Append(front, b)
    BY <1>2 DEF Joined
  <2>5. Joins(last, r)
    BY <1>2
  <2> HIDE DEF front, last, n
  <2>6. /\ b \in Seq(Prefills) /\ Len(last) \in Nat /\ Len(b) = Len(last) + 1 /\ last \in Seq(Prefills)
        /\ b[Len(last) + 1] = r /\ \A i \in 1..Len(last) : b[i] = last[i]
    BY <2>1
  <2>7. BatchOK(b)
    <3>1. Len(last) # 0 /\ last[Len(last)] = Last(last)
      BY <2>1 DEF BatchOK, Last
    <3>2. /\ \A i, j \in 1..Len(last) : Bucket(last[i]) = Bucket(last[j])
          /\ Bucket(last[Len(last)]) = Bucket(r)
      BY <2>1, <2>5, <2>6, <3>1 DEF BatchOK, Joins
    <3>3. \A i \in 1..(Len(last) + 1) : Bucket(b[i]) = Bucket(r)
      <4>1. ASSUME NEW i \in 1..(Len(last) + 1) PROVE Bucket(b[i]) = Bucket(r)
        <5>1. CASE i = Len(last) + 1
          BY <2>6, <5>1
        <5>2. CASE i # Len(last) + 1
          <6>1. i \in 1..Len(last) /\ Len(last) \in 1..Len(last)
            BY <2>6, <5>2
          <6> QED
            BY <2>6, <3>2, <6>1
        <5> QED
          BY <5>1, <5>2
      <4> QED
        BY <4>1
    <3>4. TokenCount(b) <= max_tokens
      BY <2>5, <2>6, TokensAppended DEF Joins
    <3>5. Len(b) \in 1..max_sequences
      <4>1. max_sequences \in Nat
        BY PrefillAssumption
      <4> QED
        BY <2>5, <2>6, <4>1 DEF Joins
    <3>6. DOMAIN b = 1..(Len(last) + 1)
      BY <2>6
    <3>7. \A i, j \in DOMAIN b : Bucket(b[i]) = Bucket(b[j])
      BY <3>3, <3>6
    <3> HIDE DEF b
    <3> QED
      BY <2>6, <3>4, <3>5, <3>7 DEF BatchOK
  <2>8. FlattenSeq(Append(front, b)) = Append(s, r)
    <3>1. FlattenSeq(Append(front, b)) = FlattenSeq(front) \o b
      BY <2>2, <2>6, FlattenNext
    <3>2. s = FlattenSeq(front) \o last
      BY <1>1, <2>2, <2>3, <2>6, FlattenNext
    <3>3. FlattenSeq(front) \in Seq(Prefills)
      BY <2>2, FlattenTyped
    <3>4. FlattenSeq(front) \o Append(last, r) = Append(FlattenSeq(front) \o last, r)
      BY <2>6, <3>3
    <3> QED
      BY <3>1, <3>2, <3>4
  <2>9. /\ Append(front, b) \in Seq(Seq(Prefills)) /\ Len(Append(front, b)) = n /\ n \in Nat
        /\ \A i \in 1..n : Append(front, b)[i] = IF i = n THEN b ELSE bs[i]
    <3> HIDE DEF b
    <3> QED
      BY <2>1, <2>2, <2>6
  <2>10. \A i \in 1..n : BatchOK(Append(front, b)[i])
    BY <1>1, <2>7, <2>9 DEF n
  <2> QED
    BY <2>4, <2>8, <2>9, <2>10 DEF BatchesOf
<1>3. CASE ~(bs # <<>> /\ Joins(Last(bs), r))
  <2>1. Joined(bs, r) = Append(bs, <<r>>)
    BY <1>3 DEF Joined
  <2>2. <<r>> \in Seq(Prefills) /\ Len(<<r>>) = 1 /\ DOMAIN <<r>> = {1}
    OBVIOUS
  <2>3. BatchOK(<<r>>)
    <3>1. 1 \in 1..max_sequences
      BY PrefillAssumption
    <3> QED
      BY <2>2, <3>1 DEF BatchOK
  <2>4. FlattenSeq(Append(bs, <<r>>)) = Append(s, r)
    <3>1. FlattenSeq(Append(bs, <<r>>)) = s \o <<r>>
      BY <1>1, <2>2, FlattenNext
    <3>2. s \o <<r>> = Append(s, r)
      OBVIOUS
    <3> QED
      BY <3>1, <3>2
  <2>5. \A i \in 1..Len(Append(bs, <<r>>)) : BatchOK(Append(bs, <<r>>)[i])
    <3>1. /\ Len(bs) \in Nat /\ Len(Append(bs, <<r>>)) = Len(bs) + 1
          /\ \A i \in 1..(Len(bs) + 1) : Append(bs, <<r>>)[i] = IF i = Len(bs) + 1 THEN <<r>> ELSE bs[i]
      BY <1>1, <2>2
    <3> QED
      BY <1>1, <2>3, <3>1
  <2>6. Append(bs, <<r>>) \in Seq(Seq(Prefills))
    BY <1>1, <2>2
  <2> QED
    BY <2>1, <2>4, <2>5, <2>6 DEF BatchesOf
<1> QED
  BY <1>2, <1>3

LEMMA CutFacts ==
  ASSUME NEW s \in Seq(Prefills)
  PROVE  BatchesOf(Cut(s), s)
<1> DEFINE n == Len(s)
<1>1. n \in Nat /\ \A i \in 1..n : s[i] \in Prefills
  OBVIOUS
<1>2. PICK f : Cutting(f, s, n) /\ Cut(s) = f[n]
  BY CutUnfolds
<1>3. \A i \in 0..n : f[i] = IF i = 0 THEN <<>> ELSE Joined(f[i - 1], s[i])
  BY <1>2 DEF Cutting
<1> DEFINE Bad == {i \in 0..n : ~BatchesOf(f[i], SubSeq(s, 1, i))}
<1>4. Bad = {}
  <2>1. SUFFICES ASSUME Bad # {} PROVE FALSE
    OBVIOUS
  <2>2. PICK m \in Bad : \A k \in Bad : m <= k
    <3>1. Bad \subseteq Nat
      OBVIOUS
    <3> HIDE DEF Bad
    <3> QED
      BY <2>1, <3>1, HasLeast
  <2>3. CASE m = 0
    <3>1. SubSeq(s, 1, 0) = <<>> /\ f[0] = <<>>
      BY <1>1, <1>3
    <3>2. FlattenSeq(<<>>) = <<>>
      BY DEF FlattenSeq
    <3>3. <<>> \in Seq(Seq(Prefills)) /\ Len(<<>>) = 0
      OBVIOUS
    <3>4. BatchesOf(<<>>, <<>>)
      BY <3>2, <3>3 DEF BatchesOf
    <3> QED
      BY <2>2, <2>3, <3>1, <3>4
  <2>4. CASE m # 0
    <3>1. m \in 1..n /\ m - 1 \in 0..n /\ m - 1 \notin Bad
      BY <1>1, <2>2, <2>4
    <3>2. BatchesOf(f[m - 1], SubSeq(s, 1, m - 1))
      BY <3>1
    <3>3. /\ SubSeq(s, 1, m - 1) \in Seq(Prefills) /\ SubSeq(s, 1, m) = Append(SubSeq(s, 1, m - 1), s[m])
      <4>1. /\ SubSeq(s, 1, m - 1) \in Seq(Prefills) /\ Len(SubSeq(s, 1, m - 1)) = m - 1
            /\ \A i \in 1..(m - 1) : SubSeq(s, 1, m - 1)[i] = s[i]
            /\ SubSeq(s, 1, m) \in Seq(Prefills) /\ Len(SubSeq(s, 1, m)) = m
            /\ \A i \in 1..m : SubSeq(s, 1, m)[i] = s[i]
        BY <1>1, <3>1
      <4> DEFINE t == SubSeq(s, 1, m - 1)
      <4>2. s[m] \in Prefills /\ t \in Seq(Prefills) /\ Len(t) = m - 1 /\ \A i \in 1..(m - 1) : t[i] = s[i]
        BY <1>1, <3>1, <4>1
      <4> HIDE DEF t
      <4>3. /\ Append(t, s[m]) \in Seq(Prefills) /\ Len(Append(t, s[m])) = m
            /\ \A i \in 1..m : Append(t, s[m])[i] = s[i]
        BY <3>1, <4>2
      <4>4. SubSeq(s, 1, m) = Append(t, s[m])
        BY <4>1, <4>3, SeqEqual
      <4> QED
        BY <4>1, <4>4 DEF t
    <3>4. BatchesOf(Joined(f[m - 1], s[m]), SubSeq(s, 1, m))
      BY <1>1, <3>1, <3>2, <3>3, JoinedKeeps
    <3> QED
      BY <1>3, <2>2, <2>4, <3>4
  <2> QED
    BY <2>3, <2>4
<1>5. BatchesOf(f[n], SubSeq(s, 1, n))
  BY <1>1, <1>4
<1> QED
  BY <1>2, <1>5, SubSeqFull
-----------------------------------------------------------------------------
(* What is known of every state: the leases are those of the pool, and a pack  *)
(* returned what it was given, sorted and cut.                               *)
BatchesOK ==
  \/ batches = NoBatches
  \/ \E given \in Seq(Prefills) : Distinct(given) /\ batches = [given |-> given, out |-> Cut(Sorted(given))]
PrefillInv == LeasesOK /\ cancelled \subseteq Prefills /\ BatchesOK

LEMMA BatchesExact ==
  ASSUME BatchesOK
  PROVE  PackExact
<1>1. CASE batches = NoBatches
  <2>1. batches.out = <<>> /\ batches.given = <<>>
    BY <1>1 DEF NoBatches
  <2>2. FlattenSeq(<<>>) = <<>>
    BY DEF FlattenSeq
  <2>3. ToSet(<<>>) = {} /\ DOMAIN <<>> = {}
    BY DEF ToSet
  <2> QED
    BY <2>1, <2>2, <2>3 DEF PackExact
<1>2. CASE batches # NoBatches
  <2>1. PICK given \in Seq(Prefills) : Distinct(given) /\ batches = [given |-> given, out |-> Cut(Sorted(given))]
    BY <1>2 DEF BatchesOK
  <2> DEFINE flat == Sorted(given)
             out == Cut(flat)
  <2>2. batches.out = out /\ batches.given = given
    BY <2>1
  <2>3. /\ flat \in Seq(Prefills) /\ Len(flat) = Len(given) /\ ToSet(flat) = ToSet(given)
        /\ \A i, j \in 1..Len(given) : i < j => ~DueBefore(flat[j], flat[i])
    BY <2>1, SortedFacts
  <2> HIDE DEF flat
  <2>4. out \in Seq(Seq(Prefills)) /\ FlattenSeq(out) = flat /\ \A i \in 1..Len(out) : BatchOK(out[i])
    BY <2>3, CutFacts DEF BatchesOf
  <2> HIDE DEF out
  <2>5. \A b \in ToSet(out) : BatchOK(b)
    <3>1. DOMAIN out = 1..Len(out)
      BY <2>4
    <3> QED
      BY <2>4, <3>1 DEF ToSet
  <2>6. ASSUME NEW i \in DOMAIN flat, NEW j \in DOMAIN flat, i < j, Bucket(flat[i]) = Bucket(flat[j])
        PROVE  LET p == PrefillOf[flat[i]]
                   q == PrefillOf[flat[j]]
               IN  /\ p.priority >= q.priority
                   /\ p.priority = q.priority /\ q.deadline # 0 => p.deadline \in 1..q.deadline
    <3>1. DOMAIN flat = 1..Len(given) /\ flat[i] \in Prefills /\ flat[j] \in Prefills
      BY <2>3
    <3>2. ~DueBefore(flat[j], flat[i])
      BY <2>3, <2>6, <3>1
    <3>3. /\ PrefillOf[flat[i]].priority \in Int /\ PrefillOf[flat[i]].deadline \in Nat
          /\ PrefillOf[flat[j]].priority \in Int /\ PrefillOf[flat[j]].deadline \in Nat
      BY <3>1, PrefillTypes
    <3> HIDE DEF Bucket
    <3> QED
      BY <2>6, <3>2, <3>3 DEF DueBefore
  <2>7. \A b \in ToSet(out) : /\ \A i, j \in DOMAIN b : Bucket(b[i]) = Bucket(b[j])
                              /\ Len(b) \in 1..max_sequences
                              /\ Len(b) = 1 \/ TokenCount(b) <= max_tokens
    BY <2>5 DEF BatchOK
  <2> QED
    BY <2>2, <2>3, <2>4, <2>6, <2>7 DEF PackExact
<1> QED
  BY <1>1, <1>2

(* What reserve is asked for: all of a pack, or what is before the first that   *)
(* the pool cannot serve.                                                   *)
LEMMA PackKeepsLeases ==
  ASSUME LeasesOK, NEW s \in Seq(Prefills), Distinct(s), NEW k \in 0..Len(s),
         \A i \in 1..k : Reservable(s, i), Reserve(SubSeq(s, 1, k))
  PROVE  LeasesOK'
<1> DEFINE t == SubSeq(s, 1, k)
<1>1. t \in Seq(Prefills) /\ Len(t) = k /\ k \in Nat /\ (\A i \in 1..k : t[i] = s[i]) /\ Len(s) \in Nat
  OBVIOUS
<1>2. TokenCount(t) \in Nat
  BY TokensUpTo
<1> HIDE DEF t
<1>3. DOMAIN t = 1..k /\ DOMAIN s = 1..Len(s)
  BY <1>1
<1>4. Distinct(t)
  <2>1. ASSUME NEW i \in 1..k, NEW j \in 1..k, t[i] = t[j] PROVE i = j
    <3>1. i \in DOMAIN s /\ j \in DOMAIN s /\ s[i] = s[j]
      BY <1>1, <1>3, <2>1
    <3> QED
      BY <3>1 DEF Distinct
  <2> QED
    BY <1>3, <2>1 DEF Distinct
<1>5. \A i \in 1..Len(t) : t[i] \notin DOMAIN _leases
  BY <1>1 DEF Reservable
<1>6. _used + TokenCount(t) <= capacity_tokens
  <2>1. CASE k = 0
    <3>1. DOMAIN t = {}
      BY <1>1, <2>1
    <3>2. TokenCount(t) = 0
      BY <3>1, SumOfNone DEF TokenCount
    <3>3. _used \in 0..capacity_tokens /\ capacity_tokens \in Nat
      BY PrefillAssumption DEF LeasesOK
    <3> QED
      BY <3>2, <3>3
  <2>2. CASE k # 0
    <3>1. k \in 1..k
      BY <1>1, <2>2
    <3> QED
      BY <3>1 DEF Reservable, t
  <2> QED
    BY <2>1, <2>2
<1>7. Reserve(t)
  BY DEF t
<1> QED
  BY <1>1, <1>4, <1>5, <1>6, <1>7, ReserveKeeps

LEMMA OrdersAre ==
  ASSUME NEW given \in Orders
  PROVE  given \in Seq(Prefills) /\ Distinct(given)
<1>1. PICK m \in 0..MaxPack : given \in [1..m -> Prefills]
  BY DEF Orders, SeqOf
<1>2. m \in Nat
  BY PrefillAssumption
<1> QED
  BY <1>1, <1>2 DEF Orders, Distinct

LEMMA PackKeeps ==
  ASSUME PrefillInv, NEW given \in Orders, NEW now, Pack(given, now)
  PROVE  PrefillInv'
<1> DEFINE sorted == Sorted(given)
           bad == {i \in DOMAIN sorted : ~Reservable(sorted, i)}
<1>1. given \in Seq(Prefills) /\ Distinct(given)
  BY OrdersAre
<1>2. sorted \in Seq(Prefills) /\ Distinct(sorted)
  BY <1>1, SortedFacts
<1>3. /\ cancelled' = cancelled
      /\ IF bad = {} THEN Reserve(sorted) /\ batches' = [given |-> given, out |-> Cut(sorted)]
         ELSE Reserve(SubSeq(sorted, 1, Min(bad) - 1)) /\ batches' = NoBatches
  BY DEF Pack
<1>4. BatchesOK'
  BY <1>1, <1>3 DEF BatchesOK
<1> HIDE DEF sorted
<1>5. Len(sorted) \in Nat /\ DOMAIN sorted = 1..Len(sorted)
  BY <1>2
<1>6. CASE bad = {}
  <2>1. Len(sorted) \in 0..Len(sorted) /\ \A i \in 1..Len(sorted) : Reservable(sorted, i)
    BY <1>5, <1>6
  <2>2. Reserve(SubSeq(sorted, 1, Len(sorted)))
    BY <1>2, <1>3, <1>6, SubSeqFull
  <2>3. LeasesOK'
    BY <1>2, <2>1, <2>2, PackKeepsLeases DEF PrefillInv
  <2> QED
    BY <1>3, <1>4, <2>3 DEF PrefillInv
<1>7. CASE bad # {}
  <2>1. bad \subseteq Nat
    BY <1>5
  <2>2. Min(bad) \in bad /\ \A k \in bad : Min(bad) <= k
    <3> HIDE DEF bad
    <3> QED
      BY <1>7, <2>1, MinIsLeast
  <2>3. PICK k : k = Min(bad) - 1
    OBVIOUS
  <2>4. k \in 0..Len(sorted) /\ \A i \in 1..k : i \in DOMAIN sorted /\ i \notin bad
    <3>1. PICK m : m = Min(bad)
      OBVIOUS
    <3>2. m \in DOMAIN sorted /\ \A i \in bad : m <= i
      BY <2>2, <3>1
    <3> HIDE DEF bad
    <3> QED
      BY <1>5, <2>3, <3>1, <3>2
  <2>5. \A i \in 1..k : Reservable(sorted, i)
    BY <2>4
  <2>6. Reserve(SubSeq(sorted, 1, k))
    BY <1>3, <1>7, <2>3
  <2>7. LeasesOK'
    BY <1>2, <2>4, <2>5, <2>6, PackKeepsLeases DEF PrefillInv
  <2> QED
    BY <1>3, <1>4, <2>7 DEF PrefillInv
<1> QED
  BY <1>6, <1>7

LEMMA PrefillInitInv == PrefillInit => PrefillInv
<1> SUFFICES ASSUME PrefillInit PROVE PrefillInv
  OBVIOUS
<1>1. /\ DOMAIN _leases = {} /\ _used = 0 /\ _generation = 0 /\ cancelled = {} /\ batches = NoBatches
      /\ issued = {}
  BY DEF PrefillInit
<1>2. capacity_tokens \in Nat /\ MaxGeneration \in Nat
  BY PrefillAssumption
<1> QED
  BY <1>1, <1>2 DEF PrefillInv, LeasesOK, BatchesOK

LEMMA PrefillNextInv == PrefillInv /\ [PrefillNext]_prefill_vars => PrefillInv'
<1> SUFFICES ASSUME PrefillInv, [PrefillNext]_prefill_vars PROVE PrefillInv'
  OBVIOUS
<1>1. ASSUME NEW given \in Orders, NEW now \in PrefillTimes, Pack(given, now) PROVE PrefillInv'
  BY <1>1, PackKeeps
<1>2. ASSUME NEW r \in Prefills, ReleaseLease(r) PROVE PrefillInv'
  <2>1. LeasesOK'
    BY <1>2, ReleaseKeeps DEF PrefillInv
  <2>2. cancelled' = cancelled /\ batches' = NoBatches
    BY <1>2 DEF ReleaseLease
  <2> QED
    BY <2>1, <2>2 DEF PrefillInv, BatchesOK
<1>3. ASSUME NEW r \in Prefills, CancelPrefill(r) PROVE PrefillInv'
  <2>1. /\ UNCHANGED <<_leases, _used, _generation, issued>> /\ batches' = NoBatches
        /\ cancelled' = cancelled \cup {r}
    BY <1>3 DEF CancelPrefill, page_pool
  <2>2. LeasesOK'
    BY <2>1 DEF PrefillInv, LeasesOK
  <2> QED
    BY <2>1, <2>2 DEF PrefillInv, BatchesOK
<1>4. CASE UNCHANGED prefill_vars
  <2>1. UNCHANGED <<_leases, _used, _generation, issued, batches, cancelled>>
    BY <1>4 DEF prefill_vars, page_pool
  <2>2. LeasesOK' /\ BatchesOK'
    BY <2>1 DEF PrefillInv, LeasesOK, BatchesOK
  <2> QED
    BY <2>1, <2>2 DEF PrefillInv
<1> QED
  BY <1>1, <1>2, <1>3, <1>4 DEF PrefillNext

(* The invariant holds in every state of the packer and its page pool.       *)
THEOREM PrefillInvariance == PrefillSpec => []PrefillInv
<1>1. PrefillInit => PrefillInv
  BY PrefillInitInv
<1>2. PrefillInv /\ [PrefillNext]_prefill_vars => PrefillInv'
  BY PrefillNextInv
<1> QED
  BY <1>1, <1>2, PTL DEF PrefillSpec

(* For any requests, capacity, bucket and limits: a span of the key and value  *)
(* pages goes to one request in a generation and lies within what is used,   *)
(* and a pack returns each request once, in its order and within the limits. *)
THEOREM PackingStaysExact == PrefillSpec => []PrefillIsExact
<1>1. PrefillInv => PrefillIsExact
  <2> SUFFICES ASSUME PrefillInv PROVE PrefillIsExact
    OBVIOUS
  <2>1. LeasesDistinct /\ PackExact
    BY LeasesOKDistinct, BatchesExact DEF PrefillInv
  <2>2. PrefillTypeOK
    BY DEF PrefillInv, LeasesOK, PrefillTypeOK
  <2> QED
    BY <2>1, <2>2 DEF PrefillIsExact
<1> QED
  BY <1>1, PrefillInvariance, PTL
=============================================================================
