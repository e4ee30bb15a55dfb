---------------------------- MODULE MCSpannerProber ----------------------------
(* Instances of SpannerProber for TLC. *)
EXTENDS SpannerProber

Good(kind) == [prober |-> kind, numRows |-> 1, nodeCount |-> 1, processingUnits |-> 0,
               channelPoolSize |-> 1, qps |-> "usual"]

\* Each kind of probe, and each way options can be wrong.
MCOptions == {Good(k) : k \in Kinds}
    \cup {Good(None), [Good("dml") EXCEPT !.numRows = 0], [Good("dml") EXCEPT !.qps = "outside"],
          [Good("noop") EXCEPT !.qps = "tiny"],
          [Good("dml") EXCEPT !.processingUnits = 1], [Good("dml") EXCEPT !.channelPoolSize = 0]}
=============================================================================
