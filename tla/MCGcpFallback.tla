---------------------------- MODULE MCGcpFallback ----------------------------
(* Instances of GcpFallback for TLC. *)
EXTENDS GcpFallback, TLC

\* Fallback when all calls fail, two at least, with the primary probed; and no
\* fallback, with the fallback probed.
MCOptions == {[enableFallback |-> enabled, errorRateThreshold |-> 100, minFailedCalls |-> 2,
               primaryProbingFn |-> enabled, fallbackProbingFn |-> ~enabled] : enabled \in BOOLEAN}
=============================================================================
