----------------------------- MODULE GcpFallback -----------------------------
(***************************************************************************)
(* GCPFallback, src/grpcgcp/gcp_fallback.go: RPCs go to a primary          *)
(* connection until a periodic check finds its error rate too high, and    *)
(* then to a fallback connection.  RPCs, the check, the two probing loops  *)
(* and Close run concurrently and share atomic variables only, so every    *)
(* atomic operation is a step.                                             *)
(***************************************************************************)
EXTENDS Integers, FiniteSets

CONSTANTS Call,       \* RPCs in flight
          Options,    \* the GCPFallbackOptions that may be given
          MaxReports  \* bound: results of the primary not yet seen by a check

\* The threshold is a percentage; float32 rounding is left out.
OptionsType == [enableFallback : BOOLEAN, errorRateThreshold : Nat, minFailedCalls : Nat,
                primaryProbingFn : BOOLEAN, fallbackProbingFn : BOOLEAN]

ASSUME OptionsAssumption == Options \subseteq OptionsType
ASSUME BoundAssumption == IsFiniteSet(Call) /\ MaxReports \in Nat

VARIABLES
    opts,          \* the options
    closed,        \* the context is cancelled
    isInFallback,
    counters,      \* primarySuccesses, primaryFailures; those of the fallback only
                   \* feed a metric and are left out
    check,         \* the locals of rateCheck
    loops,         \* the background goroutines still running
    ticked,        \* those whose ticker has fired
    probing,       \* the probes under way
    down,          \* the connections whose downSince is not nil
    calls,         \* RPCs: unary calls and streams
    period,        \* history: results of the primary in the current period
    lastPeriod     \* history: and in the period the running check is about

vars == <<opts, closed, isInFallback, counters, check, loops, ticked, probing, down, calls,
          period, lastPeriod>>
loopVars == <<opts, closed, isInFallback, check, loops, ticked, probing, down, lastPeriod>>
history == <<period, lastPeriod>>

Conn == {"primary", "fallback"}
Loop == {"rateCheck"} \cup Conn   \* a probing loop is named like its connection

NoCall == [pc |-> "none", conn |-> "primary", failure |-> FALSE]
NoResults == [successes |-> 0, failures |-> 0]
NoCheck == [pc |-> "idle", successes |-> 0, failures |-> 0]

\* NewGCPFallback
Init ==
    /\ opts \in Options
    /\ closed = FALSE
    /\ isInFallback = FALSE
    /\ counters = NoResults
    /\ check = NoCheck
    /\ loops = {"rateCheck"} \cup (IF opts.primaryProbingFn THEN {"primary"} ELSE {})
                             \cup (IF opts.fallbackProbingFn THEN {"fallback"} ELSE {})
    /\ ticked = {}
    /\ probing = {}
    /\ down = {}
    /\ calls = [c \in Call |-> NoCall]
    /\ period = NoResults
    /\ lastPeriod = NoResults

-----------------------------------------------------------------------------
(***************************************************************************)
(* RPCs: Invoke and NewStream.                                             *)
(***************************************************************************)

Counted(results, failure) == IF failure THEN [results EXCEPT !.failures = @ + 1]
                                        ELSE [results EXCEPT !.successes = @ + 1]

\* reportPrimaryStatus, reportFallbackStatus
Report(conn, failure) ==
    /\ counters' = IF conn = "primary" THEN Counted(counters, failure) ELSE counters
    /\ period' = IF conn = "primary" THEN Counted(period, failure) ELSE period

CallsOn(conn) == {c \in Call : calls[c].pc # "none" /\ calls[c].conn = conn}

HasRoom(conn) ==
    conn = "primary" =>
        counters.successes + counters.failures + Cardinality(CallsOn(conn)) < MaxReports

\* Mutant: isInFallback is not looked at.
Chosen_primary == "primary"

Chosen == IF isInFallback THEN "fallback" ELSE "primary"

\* isInFallback.Load() and the start of the RPC; pc is "unary" or "stream".
StartCall(c, kind) ==
    /\ calls[c].pc = "none"
    /\ HasRoom(Chosen)
    /\ calls' = [calls EXCEPT ![c] = [NoCall EXCEPT !.pc = kind, !.conn = Chosen]]
    /\ UNCHANGED <<loopVars, counters, period>>

\* Invoke or NewStream returns an error, Invoke returns, or RecvMsg returns an
\* error, io.EOF for a success.
FinishCall(c) ==
    /\ calls[c].pc \in {"unary", "stream"}
    /\ \E failure \in BOOLEAN :
          /\ Report(calls[c].conn, failure)
          /\ \/ calls' = [calls EXCEPT ![c] = NoCall]
             \/ /\ calls[c].pc = "stream"
                /\ calls' = [calls EXCEPT ![c].pc = "ended", ![c].failure = failure]
    /\ UNCHANGED loopVars

\* RecvMsg after the stream has ended returns, and reports, the result again.
RecvMsgAgain(c) ==
    /\ calls[c].pc = "ended"
    /\ HasRoom(calls[c].conn)
    /\ Report(calls[c].conn, calls[c].failure)
    /\ UNCHANGED <<loopVars, calls>>

\* A stream that is not read to its end, or whose single response RecvMsg
\* returned without an error, is never reported.
LeaveStream(c) ==
    /\ calls[c].pc \in {"stream", "ended"}
    /\ calls' = [calls EXCEPT ![c] = NoCall]
    /\ UNCHANGED <<loopVars, counters, period>>

-----------------------------------------------------------------------------
(***************************************************************************)
(* The background goroutines.                                              *)
(***************************************************************************)

\* The ticker's channel holds one tick, and drops those it has no room for.
Tick(l) ==
    /\ l \in loops
    /\ ticked' = ticked \cup {l}
    /\ UNCHANGED <<opts, closed, isInFallback, counters, check, loops, probing, down, calls,
                   history>>

\* The loop takes its tick; select may prefer it to a cancelled context.
TakesTick(l) ==
    /\ l \in loops /\ l \in ticked
    /\ ticked' = ticked \ {l}

\* Mutant: the counter is read and not reset.
Swapped_kept(n) == n
Swapped(n) == 0

SwapSuccesses ==
    /\ check.pc = "idle"
    /\ TakesTick("rateCheck")
    /\ check' = [NoCheck EXCEPT !.pc = "successes", !.successes = counters.successes]
    /\ counters' = [counters EXCEPT !.successes = Swapped(@)]
    /\ period' = [period EXCEPT !.successes = 0]
    /\ lastPeriod' = [NoResults EXCEPT !.successes = period.successes]
    /\ UNCHANGED <<opts, closed, isInFallback, loops, probing, down, calls>>

SwapFailures ==
    /\ check.pc = "successes"
    /\ check' = [check EXCEPT !.pc = "failures", !.failures = counters.failures]
    /\ counters' = [counters EXCEPT !.failures = Swapped(@)]
    /\ period' = [period EXCEPT !.failures = 0]
    /\ lastPeriod' = [lastPeriod EXCEPT !.failures = period.failures]
    /\ UNCHANGED <<opts, closed, isInFallback, loops, ticked, probing, down, calls>>

\* Mutant: the threshold must be exceeded.
RateReached_exceeded(successes, failures) ==
    100 * failures > opts.errorRateThreshold * (successes + failures)

\* The error rate, 0 without calls, is at least the threshold.
RateReached(successes, failures) ==
    IF successes + failures = 0 THEN opts.errorRateThreshold = 0
    ELSE 100 * failures >= opts.errorRateThreshold * (successes + failures)

FallsBack ==
    /\ opts.enableFallback
    /\ RateReached(check.successes, check.failures)
    /\ check.failures >= opts.minFailedCalls

Decide ==
    /\ check.pc = "failures"
    /\ isInFallback' = (isInFallback \/ FallsBack)
    /\ check' = NoCheck
    /\ lastPeriod' = NoResults
    /\ UNCHANGED <<opts, closed, counters, loops, ticked, probing, down, calls, period>>

\* The primary is only probed in fallback.
ProbesNow(conn) == conn = "fallback" \/ isInFallback

StartProbe(conn) ==
    /\ conn \notin probing
    /\ TakesTick(conn)
    /\ probing' = IF ProbesNow(conn) THEN probing \cup {conn} ELSE probing
    /\ UNCHANGED <<opts, closed, isInFallback, counters, check, loops, down, calls, history>>

FinishProbe(conn) ==
    /\ conn \in probing
    /\ probing' = probing \ {conn}
    /\ down' \in {down \ {conn}, down \cup {conn}}
    /\ UNCHANGED <<opts, closed, isInFallback, counters, check, loops, ticked, calls, history>>

Close ==
    /\ ~closed
    /\ closed' = TRUE
    /\ UNCHANGED <<opts, isInFallback, counters, check, loops, ticked, probing, down, calls,
                   history>>

\* Mutant: the probing loops do not watch the context.
Watches_rateCheck(l) == l = "rateCheck"
Watches(l) == TRUE

\* Mutant: a loop ends in the middle of its work.
Busy_never(l) == FALSE
Busy(l) == IF l = "rateCheck" THEN check.pc # "idle" ELSE l \in probing

EndLoop(l) ==
    /\ l \in loops /\ closed /\ Watches(l)
    /\ ~Busy(l)
    /\ loops' = loops \ {l}
    /\ ticked' = ticked \ {l}
    /\ UNCHANGED <<opts, closed, isInFallback, counters, check, probing, down, calls, history>>

-----------------------------------------------------------------------------
CallNext(c) ==
    \/ \E kind \in {"unary", "stream"} : StartCall(c, kind)
    \/ FinishCall(c)
    \/ RecvMsgAgain(c)
    \/ LeaveStream(c)

LoopNext(l) == Tick(l) \/ EndLoop(l)

Next ==
    \/ \E c \in Call : CallNext(c)
    \/ \E l \in Loop : LoopNext(l)
    \/ SwapSuccesses \/ SwapFailures \/ Decide
    \/ \E conn \in Conn : StartProbe(conn) \/ FinishProbe(conn)
    \/ Close

\* Tickers fire, goroutines run, a select does not prefer the tick for ever, and
\* RPCs and probes end.
Fairness ==
    /\ \A l \in Loop : WF_vars(Tick(l)) /\ SF_vars(EndLoop(l))
    /\ WF_vars(SwapSuccesses) /\ WF_vars(SwapFailures) /\ WF_vars(Decide)
    /\ \A conn \in Conn : WF_vars(FinishProbe(conn))
    /\ \A c \in Call : WF_vars(FinishCall(c)) /\ WF_vars(LeaveStream(c))

Spec == Init /\ [][Next]_vars
FairSpec == Spec /\ Fairness

-----------------------------------------------------------------------------
(***************************************************************************)
(* Properties.                                                             *)
(***************************************************************************)

Results == [successes : Nat, failures : Nat]

\* The types; and a goroutine that has ended left no check and no probe behind.
TypeOK ==
    /\ opts \in Options
    /\ closed \in BOOLEAN /\ isInFallback \in BOOLEAN
    /\ counters \in Results /\ period \in Results /\ lastPeriod \in Results
    /\ check \in [pc : {"idle", "successes", "failures"}, successes : Nat, failures : Nat]
    /\ loops \subseteq Loop /\ ticked \subseteq loops
    /\ down \subseteq Conn
    /\ calls \in [Call -> [pc : {"none", "unary", "stream", "ended"}, conn : Conn, failure : BOOLEAN]]
    /\ probing \subseteq loops
    /\ check.pc # "idle" => "rateCheck" \in loops

\* The switch to the fallback is made on what the primary did between this check
\* and the one before, and on nothing the fallback did: with fallback enabled,
\* enough failures in that time, and a rate of them that reaches the threshold.
FallbackJustified ==
    [][~isInFallback /\ isInFallback' =>
         /\ opts.enableFallback
         /\ lastPeriod.failures >= opts.minFailedCalls
         /\ RateReached(lastPeriod.successes, lastPeriod.failures)]_vars

\* After the switch, RPCs drain from the primary, those that chose it just before
\* too, and never come back.
CallsFollow == [](isInFallback => <>[](CallsOn("primary") = {}))

OnlyFailures ==
    /\ opts.enableFallback /\ opts.errorRateThreshold <= 100
    /\ counters.successes = 0
    /\ counters.failures >= opts.minFailedCalls
    /\ counters.failures > 0
    /\ check.pc = "idle"

\* A primary that only fails, often enough in one period, is left, whatever check
\* and RPCs run while the failures are reported.
FailingPrimaryLeft ==
    OnlyFailures ~> isInFallback \/ closed \/ period.successes > 0 \/ check.successes > 0

\* After Close every background goroutine ends.
LoopsEnd == closed ~> loops = {}

(***************************************************************************)
(* What the comments say, and the code does not do.                        *)
(***************************************************************************)

\* gcp_fallback.go:92: MinFailedCalls is "the minimum number of failed calls";
\* so a result comes from an RPC that ends, and not from one that has ended.
CallsReportedOnce ==
    [][calls' = calls => period'.successes + period'.failures
                           <= period.successes + period.failures]_vars
=============================================================================
