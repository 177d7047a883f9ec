------------------------- MODULE SpeculativeDecoding -------------------------
(***************************************************************************)
(* The speculative decoders: SpeculativeDecoder of hyperc_speculative.py,    *)
(* its adaptive subclass of hyperc_adaptive_speculative.py, and the          *)
(* SmoothGreedyDecoder of hyperc_smooth_runtime.py.  A draft model proposes  *)
(* tokens, the target model verifies them, and only what it verified is      *)
(* committed to the cache.                                                   *)
(*                                                                         *)
(* A model is its most likely next token after each token.  In sampling      *)
(* mode any emission of one to draft_k + 1 tokens is possible.  The moving   *)
(* average of the adaptive policy is abstracted to any length in its bounds. *)
(***************************************************************************)
EXTENDS Integers, Sequences, FiniteSetsExt

CONSTANTS Vocab,         \* the tokens; 0 is the state of an empty prefix
          MaxTokens,     \* capacity of the cache
          KMax,          \* policy.k_max, and the longest draft of a plan
          MaxCount       \* bound on what one call of generate asks for

(* What the constants are; the modules that instantiate this one assume it.  *)
DecoderConstants == /\ 0 \in Vocab /\ KMax \in Nat \ {0}
                    /\ MaxTokens \in Nat \ {0} /\ MaxCount \in Nat

VARIABLES decoder,   \* which of the three it is, and its mode
          draft, target, prefix,
          cache,     \* the committed tokens
          draft_k,   \* plan.draft_k
          level,     \* the thermal level callers set
          call,      \* the call of generate: its checkpoint, count and output
          returned,  \* what calls of generate have returned so far
          failed     \* whether a call has raised

models == <<decoder, draft, target, prefix>>
decoding_vars == <<models, cache, draft_k, level, call, returned, failed>>

Levels == {"cool", "warm", "hot", "critical"}
NoCall == [start |-> 0, count |-> -1, output |-> <<>>]
Calling == call # NoCall

LastToken(s) == IF s = <<>> THEN 0 ELSE s[Len(s)]

(* What a model decodes alone, n tokens after t: standard_generate.         *)
Run(model, t, n) ==
  LET f[i \in 0..n] == IF i = 0 THEN t ELSE model[f[i - 1]]
  IN  [i \in 1..n |-> f[i]]

DecodingInit == /\ decoder \in [kind : {"plain", "adaptive"}, mode : {"greedy", "sample"}]
                               \cup {[kind |-> "smooth", mode |-> "greedy"]}
                /\ draft \in [Vocab -> Vocab] /\ target \in [Vocab -> Vocab]
                /\ decoder.mode = "sample" => draft = target   \* not looked at
                /\ prefix \in {<<>>} \cup {<<t>> : t \in Vocab}
                /\ cache = prefix /\ draft_k \in 1..KMax /\ level = "cool"
                /\ call = NoCall /\ returned = <<>> /\ failed = FALSE

(* Variant with a fault: a rejection does not end the accepted prefix.      *)
GreedyAcceptAll(proposal, t) == Append(proposal, target[LastToken(proposal)])

(* The draft's tokens up to the first that is not the target's choice, and  *)
(* then the target's.                                                       *)
GreedyAccept(proposal, t) ==
  LET Before(i) == IF i = 1 THEN t ELSE proposal[i - 1]
      wrong == {i \in DOMAIN proposal : proposal[i] # target[Before(i)]}
      n == IF wrong = {} THEN Len(proposal) ELSE Min(wrong) - 1
  IN  Append(SubSeq(proposal, 1, n), target[Before(n + 1)])

Emissions ==
  IF decoder.mode = "greedy"
  THEN {GreedyAccept(Run(draft, LastToken(cache), draft_k), LastToken(cache))}
  ELSE UNION {[1..n -> Vocab] : n \in 1..(draft_k + 1)}

(* ThermalState.limit.                                                      *)
Limit == LET Share(percent) == Max({1, (KMax * percent) \div 100})
         IN  CASE level = "cool" -> KMax [] level = "warm" -> Share(75)
               [] level = "hot" -> Share(40) [] OTHER -> 1

(* AdaptiveSpeculativePolicy.update, after a completed round.               *)
Adapt == draft_k' \in IF decoder.kind = "adaptive" THEN {Min({k, Limit}) : k \in 1..KMax} ELSE {draft_k}

Generate(n) ==
  /\ ~Calling /\ call' = [start |-> Len(cache), count |-> n, output |-> <<>>]
  /\ UNCHANGED <<models, cache, draft_k, level, returned, failed>>

Unfinished == Calling /\ Len(call.output) < call.count

(* step: one round whose emission is committed.                             *)
Step(emitted) ==
  /\ Unfinished /\ Len(cache) + Len(emitted) <= MaxTokens
  /\ cache' = cache \o emitted
  /\ call' = [call EXCEPT !.output = @ \o emitted]
  /\ Adapt
  /\ UNCHANGED <<models, level, returned, failed>>

(* The end of generate: the surplus of the last round is cut off.           *)
Return ==
  /\ Calling /\ ~Unfinished
  /\ cache' = SubSeq(cache, 1, call.start + call.count)
  /\ returned' = returned \o SubSeq(call.output, 1, call.count)
  /\ call' = NoCall
  /\ UNCHANGED <<models, draft_k, level, failed>>

(* step when the cache is full, or would be exceeded: the round is rolled   *)
(* back and the call raises, with the rounds before it committed.           *)
StepRaises(emitted) ==
  /\ Unfinished /\ Len(cache) + Len(emitted) > MaxTokens
  /\ call' = NoCall /\ failed' = TRUE
  /\ UNCHANGED <<models, cache, draft_k, level, returned>>

SetThermal(l) ==
  /\ decoder.kind = "adaptive" /\ l # level /\ level' = l
  /\ UNCHANGED <<models, cache, draft_k, call, returned, failed>>

Rounds == Return \/ \E e \in Emissions : Step(e) \/ StepRaises(e)

DecodingNext == \/ \E n \in 0..MaxCount : Generate(n)
                \/ Rounds
                \/ \E l \in Levels : SetThermal(l)

DecodingSpec == DecodingInit /\ [][DecodingNext]_decoding_vars
-----------------------------------------------------------------------------
DecodingTypeOK == /\ \A i \in DOMAIN cache : cache[i] \in Vocab
                  /\ Len(cache) <= MaxTokens /\ draft_k \in 1..KMax /\ level \in Levels
                  /\ call.count \in -1..MaxCount /\ failed \in BOOLEAN

(* However the draft proposes and however long its drafts are, a greedy     *)
(* decoder holds what the target model would have decoded alone, in the     *)
(* middle of a call and after one that raised too.                          *)
DecodesAsTarget ==
  decoder.mode = "greedy" =>
    cache = prefix \o Run(target, LastToken(prefix), Len(cache) - Len(prefix))

(* hyperc_speculative.py: the cache holds no token that was never returned, *)
(* or a later call would observe it.  Here unless a call has raised.        *)
CacheIsReturned == ~Calling /\ ~failed => cache = prefix \o returned

(* The decoders are well typed and exact in both senses.                     *)
DecodingIsExact == DecodingTypeOK /\ DecodesAsTarget /\ CacheIsReturned
=============================================================================
