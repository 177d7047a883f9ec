-------------------------- MODULE ReconstructionCache --------------------------
(***************************************************************************)
(* The cache of reconstructed weights of a 4-bit matrix                       *)
(* (hyperc_quantized_transformer.py, QuantizedMatrix): float16 while cold,     *)
(* promoted to float32 by a policy that watches the accesses, and demoted      *)
(* again when they stop.  The time since the access before is fast (within     *)
(* the burst window), slow or idle (beyond the demotion limit).  0 is None.    *)
(***************************************************************************)
EXTENDS Integers

CONSTANTS Thresholds, Gates, bonus, hysteresis, MaxCount

VARIABLES
  error,       \* how far the weights in float16 are from the weights
  cache,       \* the fields of the matrix
  gate,        \* the gate float16 weights were last configured or demoted under
  burst,       \* how many of the latest accesses came fast after the one before
  used         \* what the last matmat multiplied with, and what it did before

vars == <<error, cache, gate, burst, used>>

Cleared == [dtype |-> "none", hybrid |-> 0, calls |-> 0, promote |-> 0, base |-> 4, demotes |-> FALSE,
            max_error |-> -1, count |-> 0, streak |-> 0, accessed |-> FALSE]
None == [dtype |-> "none", promoted |-> FALSE, since |-> "fast"]

Init == error \in Gates /\ cache = Cleared /\ gate = -1 /\ burst = 0 /\ used = None
-----------------------------------------------------------------------------
Float16(c) == [c EXCEPT !.dtype = "f16"]
Float32(c) == [c EXCEPT !.dtype = "f32", !.hybrid = 0, !.promote = 0]

(* A configuration whose float16 weights are beyond the gate raises.          *)
Configured(c, g) ==
  /\ c.dtype = "f16" => error <= g
  /\ gate' = (IF c.dtype = "f16" THEN g ELSE gate)
  /\ cache' = c /\ used' = None /\ UNCHANGED <<error, burst>>

configure_reconstruction_cache(g) ==
  Configured(Float16(cache), g) \/ Configured(Float32(cache), g)
configure_hybrid_reconstruction_cache(g, n) ==
  Configured([Float16(cache) EXCEPT !.hybrid = n, !.calls = 0], g)
configure_adaptive_hybrid_cache(g, n, demotes) ==
  Configured([Float16(cache) EXCEPT !.promote = n, !.base = n, !.demotes = demotes, !.max_error = g,
                                    !.count = 0, !.streak = 0, !.accessed = FALSE], g)
set_adaptive_policy(n) ==
  /\ cache.promote # 0
  /\ cache' = [cache EXCEPT !.promote = n, !.base = n] /\ UNCHANGED <<error, gate, burst, used>>
clear_reconstruction_cache == cache' = Cleared /\ gate' = -1 /\ used' = None /\ UNCHANGED <<error, burst>>

(* Variant with a fault: the accesses before the demotion still count.        *)
DemotedHot(c) == [Float16(c) EXCEPT !.promote = c.base]

Demoted(c) == [Float16(c) EXCEPT !.promote = c.base, !.count = 0, !.streak = 0]

(* Without a gate of its own it takes that of the adaptive policy.  The error   *)
(* of weights that already are float16 is measured as none.                   *)
demote_reconstruction_cache(g) ==
  /\ cache.dtype # "none" /\ g >= (IF cache.dtype = "f16" THEN 0 ELSE error)
  /\ cache' = Demoted(cache)
  /\ gate' = (IF cache.dtype = "f32" THEN g ELSE gate) /\ used' = None /\ UNCHANGED <<error, burst>>

(* An access counts, and promotes when enough of them came, the last ones       *)
(* fast; how much a high load or a large batch takes off is left open.  The    *)
(* access that demoted comes no time after itself.                           *)
_observe_adaptive_access(c, fast) ==
  [c EXCEPT !.accessed = TRUE, !.count = IF @ = MaxCount THEN @ ELSE @ + 1,
            !.streak = IF ~fast THEN 0 ELSE IF @ = MaxCount THEN @ ELSE @ + 1]
LargerOf(a, b) == IF a > b THEN a ELSE b
MayPromote(c, less) == c.count >= LargerOf(hysteresis, c.promote - less) /\ c.streak >= hysteresis

matmat(since, less) ==
  LET there == IF cache.dtype = "none" THEN Float32(cache) ELSE cache
      idle == there.demotes /\ there.dtype = "f32" /\ there.accessed /\ since = "idle"
      cold == IF idle THEN Demoted(there) ELSE there
      seen == IF cold.promote # 0 THEN _observe_adaptive_access(cold, cold.accessed /\ (since = "fast" \/ idle))
              ELSE IF cold.hybrid # 0 THEN [cold EXCEPT !.calls = @ + 1] ELSE cold
      promotes == \/ cold.promote # 0 /\ MayPromote(seen, less)
                  \/ cold.promote = 0 /\ cold.hybrid # 0 /\ seen.calls >= cold.hybrid
      after == IF promotes THEN Float32(seen) ELSE seen
  IN  /\ idle => error <= there.max_error
      /\ cache' = after
      /\ burst' = IF since # "fast" THEN 0 ELSE IF burst = MaxCount THEN burst ELSE burst + 1
      /\ used' = [dtype |-> after.dtype, promoted |-> promotes /\ cold.promote # 0, since |-> since]
      /\ UNCHANGED <<error, gate>>

Next ==
  \/ \E g \in Gates : \/ configure_reconstruction_cache(g) \/ demote_reconstruction_cache(g)
                      \/ \E n \in Thresholds :
                           \/ configure_hybrid_reconstruction_cache(g, n)
                           \/ \E d \in BOOLEAN : configure_adaptive_hybrid_cache(g, n, d)
  \/ clear_reconstruction_cache \/ \E n \in Thresholds : set_adaptive_policy(n)
  \/ \E since \in {"fast", "slow", "idle"}, less \in {0, 1 + bonus} : matmat(since, less)

Spec == Init /\ [][Next]_vars
-----------------------------------------------------------------------------
(* Weights in float16 are within the gate they were last put there under, and    *)
(* an access promotes them only in a burst: all but one of the accesses the     *)
(* hysteresis asks for came fast after the one before.  The one may be the      *)
(* access that demoted them; no access that comes after an idle time promotes.  *)
ReconstructionSound ==
  /\ cache.dtype = "f16" => error <= gate
  /\ used.promoted => burst >= hysteresis - 1 /\ used.since # "idle"
=============================================================================
