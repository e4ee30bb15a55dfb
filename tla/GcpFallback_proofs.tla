--------------------------- MODULE GcpFallback_proofs ---------------------------
(***************************************************************************)
(* Proofs about GcpFallback, for every set of RPCs and of options.         *)
(***************************************************************************)
EXTENDS GcpFallback, TLAPS

\* The counters are what the primary did since they were swapped, and a check
\* has in its locals what it did before: the part it has swapped already.
Accounted ==
    /\ counters = period
    /\ check.pc # "idle" => check.successes = lastPeriod.successes
    /\ check.pc = "failures" => check.failures = lastPeriod.failures

\* The check of the error rate is not a probe, so a loop that is not probing and
\* ends leaves no probe behind.
ProbesOfConns == probing \subseteq Conn

IInv == TypeOK /\ Accounted /\ ProbesOfConns

CallType == [pc : {"none", "unary", "stream", "ended"}, conn : Conn, failure : BOOLEAN]

-----------------------------------------------------------------------------
LEMMA InitIInv == Init => IInv
<1> SUFFICES ASSUME Init PROVE IInv
  OBVIOUS
<1> USE DEF Init, NoResults, NoCheck, NoCall
<1>1. TypeOK
  BY DEF TypeOK, Results, Loop, Conn
<1>2. Accounted
  BY DEF Accounted
<1>3. ProbesOfConns
  BY DEF ProbesOfConns
<1> QED
  BY <1>1, <1>2, <1>3 DEF IInv

\* A result is counted, and noted in the period.
LEMMA ReportKept ==
    ASSUME IInv, NEW conn \in Conn, NEW failure \in BOOLEAN, Report(conn, failure)
    PROVE  counters' \in Results /\ period' = counters'
<1>1. counters \in Results /\ counters = period
  BY DEF IInv, TypeOK, Accounted
<1>2. Counted(counters, failure) \in Results
  BY <1>1 DEF Counted, Results
<1> QED
  BY <1>1, <1>2 DEF Report

LEMMA CallsIInv ==
    ASSUME IInv, NEW c \in Call, CallNext(c)
    PROVE  IInv'
<1> USE DEF IInv, loopVars
<1>0. calls \in [Call -> CallType] /\ NoCall \in CallType
  BY DEF TypeOK, CallType, NoCall, Conn
<1>1. UNCHANGED loopVars
  BY DEF CallNext, StartCall, FinishCall, RecvMsgAgain, LeaveStream
<1>2. counters' \in Results /\ period' = counters'
  <2>1. CASE UNCHANGED <<counters, period>>
    BY <2>1 DEF TypeOK, Accounted
  <2>2. ASSUME NEW failure \in BOOLEAN, Report(calls[c].conn, failure)
        PROVE  counters' \in Results /\ period' = counters'
    BY <1>0, <2>2, ReportKept DEF CallType
  <2>3. CASE RecvMsgAgain(c)
    BY <1>0, <2>2, <2>3 DEF RecvMsgAgain, CallType
  <2> QED
    BY <2>1, <2>2, <2>3 DEF CallNext, StartCall, FinishCall, LeaveStream
<1>3. calls' \in [Call -> CallType]
  <2>1. ASSUME NEW kind \in {"unary", "stream"}, StartCall(c, kind) PROVE calls' \in [Call -> CallType]
    <3>1. Chosen \in Conn
      BY DEF Chosen, Conn
    <3>2. [NoCall EXCEPT !.pc = kind, !.conn = Chosen] \in CallType
      BY <3>1 DEF NoCall, CallType
    <3> QED
      BY <1>0, <2>1, <3>2 DEF StartCall
  <2>2. CASE FinishCall(c)
    <3>1. PICK failure \in BOOLEAN :
            \/ calls' = [calls EXCEPT ![c] = NoCall]
            \/ calls' = [calls EXCEPT ![c].pc = "ended", ![c].failure = failure]
      BY <2>2 DEF FinishCall
    <3>2. [[calls[c] EXCEPT !.pc = "ended"] EXCEPT !.failure = failure] \in CallType
      BY <1>0 DEF CallType
    <3> QED
      BY <1>0, <3>1, <3>2
  <2>3. CASE RecvMsgAgain(c) \/ LeaveStream(c)
    BY <1>0, <2>3 DEF RecvMsgAgain, LeaveStream
  <2> QED
    BY <2>1, <2>2, <2>3 DEF CallNext
<1>4. TypeOK'
  BY <1>1, <1>2, <1>3 DEF TypeOK, CallType
<1>5. Accounted' /\ ProbesOfConns'
  BY <1>1, <1>2 DEF Accounted, ProbesOfConns
<1> QED
  BY <1>4, <1>5

LEMMA CheckIInv ==
    ASSUME IInv, SwapSuccesses \/ SwapFailures \/ Decide
    PROVE  IInv'
<1> USE DEF IInv, TakesTick, NoCheck, NoResults
<1>0. /\ counters \in Results /\ period \in Results /\ lastPeriod \in Results
      /\ counters = period
  BY DEF TypeOK, Accounted
<1>1. CASE SwapSuccesses
  <2>1. /\ counters' \in Results /\ period' = counters'
        /\ lastPeriod' \in Results /\ lastPeriod'.successes = period.successes
    BY <1>0, <1>1 DEF SwapSuccesses, Swapped, Results
  <2>2. /\ check' \in [pc : {"idle", "successes", "failures"}, successes : Nat, failures : Nat]
        /\ check'.pc = "successes" /\ check'.successes = counters.successes
    BY <1>0, <1>1 DEF SwapSuccesses, Results
  <2>3. TypeOK'
    BY <1>1, <2>1, <2>2 DEF SwapSuccesses, TypeOK
  <2> QED
    BY <1>0, <1>1, <2>1, <2>2, <2>3 DEF Accounted, ProbesOfConns, SwapSuccesses
<1>2. CASE SwapFailures
  <2>1. /\ counters' \in Results /\ period' = counters'
        /\ lastPeriod' \in Results /\ lastPeriod'.failures = period.failures
        /\ lastPeriod'.successes = lastPeriod.successes
    BY <1>0, <1>2 DEF SwapFailures, Swapped, Results
  <2>2. /\ check' \in [pc : {"idle", "successes", "failures"}, successes : Nat, failures : Nat]
        /\ check'.failures = counters.failures /\ check'.successes = check.successes
    BY <1>0, <1>2 DEF SwapFailures, TypeOK, Results
  <2>3. TypeOK'
    BY <1>2, <2>1, <2>2 DEF SwapFailures, TypeOK
  <2> QED
    BY <1>0, <1>2, <2>1, <2>2, <2>3 DEF Accounted, ProbesOfConns, SwapFailures
<1>3. CASE Decide
  <2>1. lastPeriod' \in Results
    BY <1>3 DEF Decide, Results
  <2>2. isInFallback' \in BOOLEAN
    BY <1>3 DEF Decide
  <2>3. TypeOK'
    BY <1>3, <2>1, <2>2 DEF Decide, TypeOK
  <2> QED
    BY <1>3, <2>3 DEF Decide, Accounted, ProbesOfConns
<1> QED
  BY <1>1, <1>2, <1>3

LEMMA LoopsIInv ==
    ASSUME IInv,
           \/ \E l \in Loop : LoopNext(l)
           \/ \E conn \in Conn : StartProbe(conn) \/ FinishProbe(conn)
           \/ Close
    PROVE  IInv'
<1> USE DEF IInv, TakesTick, history
<1>1. UNCHANGED <<opts, isInFallback, counters, check, calls, period, lastPeriod>>
  BY DEF LoopNext, Tick, EndLoop, StartProbe, FinishProbe, Close
<1>2. TypeOK'
  <2>1. CASE Close
    BY <1>1, <2>1 DEF Close, TypeOK
  <2>2. ASSUME NEW conn \in Conn, StartProbe(conn) \/ FinishProbe(conn) PROVE TypeOK'
    BY <1>1, <2>2 DEF StartProbe, FinishProbe, TypeOK, Conn
  <2>3. ASSUME NEW l \in Loop, Tick(l) PROVE TypeOK'
    BY <1>1, <2>3 DEF Tick, TypeOK
  <2>4. ASSUME NEW l \in Loop, EndLoop(l) PROVE TypeOK'
    BY <1>1, <2>4 DEF EndLoop, Busy, TypeOK, ProbesOfConns, Conn
  <2> QED
    BY <2>1, <2>2, <2>3, <2>4 DEF LoopNext
<1>3. Accounted' /\ ProbesOfConns'
  BY <1>1 DEF Accounted, ProbesOfConns, LoopNext, Tick, EndLoop, StartProbe, FinishProbe, Close
<1> QED
  BY <1>2, <1>3

LEMMA NextIInv == IInv /\ [Next]_vars => IInv'
<1> SUFFICES ASSUME IInv, [Next]_vars PROVE IInv'
  OBVIOUS
<1>1. CASE UNCHANGED vars
  BY <1>1 DEF vars, IInv, TypeOK, Accounted, ProbesOfConns
<1> QED
  BY <1>1, CallsIInv, CheckIInv, LoopsIInv DEF Next

THEOREM Invariance == Spec => []IInv
BY InitIInv, NextIInv, PTL DEF Spec

\* Every variable always has its type, and a goroutine that has ended left no
\* check and no probe behind.
THEOREM TypeCorrect == Spec => []TypeOK
<1>1. IInv => TypeOK
  BY DEF IInv
<1> QED
  BY <1>1, Invariance, PTL

\* Only a check switches, and what it has swapped, with RPCs reporting between
\* its two swaps and after them, is what the primary did in the period.
THEOREM SwitchIsJustified == Spec => FallbackJustified
<1> DEFINE A == ~isInFallback /\ isInFallback' =>
                  /\ opts.enableFallback
                  /\ lastPeriod.failures >= opts.minFailedCalls
                  /\ RateReached(lastPeriod.successes, lastPeriod.failures)
<1>1. IInv /\ [Next]_vars => [A]_vars
  <2> SUFFICES ASSUME IInv, Next, ~isInFallback, isInFallback'
               PROVE  /\ opts.enableFallback
                      /\ lastPeriod.failures >= opts.minFailedCalls
                      /\ RateReached(lastPeriod.successes, lastPeriod.failures)
    OBVIOUS
  <2>1. Decide
    BY DEF Next, CallNext, StartCall, FinishCall, RecvMsgAgain, LeaveStream, loopVars, LoopNext, Tick,
       EndLoop, SwapSuccesses, SwapFailures, StartProbe, FinishProbe, Close
  <2>2. FallsBack /\ check.pc = "failures"
    BY <2>1 DEF Decide
  <2>3. check.successes = lastPeriod.successes /\ check.failures = lastPeriod.failures
    BY <2>2 DEF IInv, Accounted
  <2> QED
    BY <2>2, <2>3 DEF FallsBack
<1> QED
  BY <1>1, Invariance, PTL DEF Spec, FallbackJustified
=============================================================================
