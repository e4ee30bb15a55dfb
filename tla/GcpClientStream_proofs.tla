----------------------- MODULE GcpClientStream_proofs -----------------------
(***************************************************************************)
(* Theorems about GcpClientStream, for any number of goroutines.           *)
(*                                                                         *)
(* OneStream alone is not inductive: a second goroutine in the streamer    *)
(* would create a second stream.  The mutex excludes it, and nobody enters *)
(* the streamer once there is a stream.                                    *)
(***************************************************************************)
EXTENDS GcpClientStream, TLAPS

\* Whoever is in the streamer, or is about to return an error of it, found no stream
\* and there is none while the mutex is held.
CreatesFirst == \A s \in Goroutine : pc[s] = "create" => s \in Sender /\ ClientStream = 0

\* A sender past the streamer has a stream; only receivers wait.
SendersServed ==
    /\ \A g \in Goroutine : pc[g] = "broadcast" => g \in Sender /\ ClientStream # 0
    /\ \A g \in Goroutine : pc[g] = "fail" => g \in Sender
    /\ \A g \in Goroutine : pc[g] = "wait" => g \in Receiver
    /\ \A g \in Goroutine : pc[g] = "lock" => g \in Sender \cup Receiver

IInv == TypeOK /\ OneStream /\ NeverNil /\ CreatesFirst /\ SendersServed

LEMMA InitIInv == Init => IInv
  <1> SUFFICES ASSUME Init PROVE IInv
    OBVIOUS
  <1> USE DEF Init
  <1>1. TypeOK
    BY GoroutineAssumption DEF TypeOK, PCs
  <1>2. OneStream
    BY DEF OneStream
  <1>3. NeverNil /\ CreatesFirst /\ SendersServed
    BY DEF NeverNil, CreatesFirst, SendersServed, Goroutine
  <1> QED BY <1>1, <1>2, <1>3 DEF IInv

LEMMA CallsIInv ==
  ASSUME IInv, NEW g \in Goroutine, Call(g) \/ CallEmbedded(g) \/ Use(g)
  PROVE  IInv'
  <1> USE DEF IInv
  <1>1. TypeOK'
    BY GoroutineAssumption DEF TypeOK, Call, CallEmbedded, Use, Goes, Returns, PCs
  <1>2. OneStream'
    BY DEF OneStream, Call, CallEmbedded, Use
  <1>3. NeverNil'
    BY GoroutineAssumption DEF TypeOK, NeverNil, Call, CallEmbedded, Use, Goes, Returns, Goroutine
  <1>4. CreatesFirst' /\ SendersServed'
    BY DEF TypeOK, CreatesFirst, SendersServed, Call, CallEmbedded, Use, Goes, Returns
  <1> QED BY <1>1, <1>2, <1>3, <1>4

LEMMA SendMsgIInv ==
  ASSUME IInv, NEW s \in Sender, SendMsg(s)
  PROVE  IInv'
  <1> USE DEF IInv
  <1>0. s \in Goroutine /\ s # None
    BY GoroutineAssumption DEF Goroutine
  <1>1. TypeOK'
    BY <1>0, GoroutineAssumption DEF TypeOK, SendMsg, Goes, PCs
  <1>2. OneStream'
    BY DEF OneStream, SendMsg
  <1>3. NeverNil'
    BY <1>0 DEF TypeOK, NeverNil, SendMsg, Goes, Goroutine
  <1>4. CreatesFirst' /\ SendersServed'
    BY <1>0 DEF TypeOK, CreatesFirst, SendersServed, SendMsg, NeedsStream, Goes
  <1> QED BY <1>1, <1>2, <1>3, <1>4

LEMMA CreateStreamIInv ==
  ASSUME IInv, NEW s \in Sender, CreateStream(s)
  PROVE  IInv'
  <1> USE DEF IInv
  <1>0. /\ s \in Goroutine /\ locked = s /\ ClientStream = 0 /\ created = 0
        /\ \A g \in Goroutine : pc[g] = "create" => g = s
    BY DEF Goroutine, CreateStream, TypeOK, CreatesFirst, OneStream
  <1>a. /\ locked' = None /\ pc'[s] \in {"broadcast", "fail"}
        /\ \E place \in {"broadcast", "fail"} : pc' = [pc EXCEPT ![s] = place]
        /\ pc' \in [Goroutine -> PCs] /\ \A g \in Goroutine \ {s} : pc'[g] = pc[g]
        /\ UNCHANGED <<panicked, result>>
    BY <1>0 DEF TypeOK, CreateStream, LockAfter, Goes, PCs
  <1>b. \/ ClientStream' = 1 /\ created' = 1 /\ initStreamErr' = initStreamErr /\ attempts' = attempts
           /\ pc'[s] = "broadcast"
        \/ ClientStream' = 0 /\ created' = 0 /\ attempts' = attempts + 1 /\ initStreamErr' = attempts + 1
           /\ pc'[s] = "fail"
    BY <1>0 DEF TypeOK, CreateStream, LockAfter, Goes
  <1>1. TypeOK'
    <2>1. /\ ClientStream' \in Nat /\ initStreamErr' \in Nat /\ created' \in Nat /\ attempts' \in Nat
      BY <1>b DEF TypeOK
    <2>2. \A g \in Goroutine : pc'[g] # "create" /\ locked' # g
      BY <1>0, <1>a, GoroutineAssumption
    <2> QED BY <1>a, <2>1, <2>2 DEF TypeOK
  <1>2. OneStream'
    BY <1>b DEF OneStream
  <1>3. NeverNil'
    BY <1>0, <1>a, <1>b DEF NeverNil, Goroutine
  <1>4. CreatesFirst' /\ SendersServed'
    BY <1>0, <1>a, <1>b DEF TypeOK, CreatesFirst, SendersServed
  <1> QED BY <1>1, <1>2, <1>3, <1>4

LEMMA BroadcastIInv ==
  ASSUME IInv, NEW s \in Sender, Broadcast(s)
  PROVE  IInv'
  <1> USE DEF IInv
  <1>0. /\ s \in Goroutine
        /\ \A g \in Woken(s) : g \in Receiver /\ g \in Goroutine /\ pc[g] = "wait"
    BY DEF Goroutine, Woken
  <1> HIDE DEF Woken
  <1>1. TypeOK'
    BY <1>0 DEF TypeOK, Broadcast, PCs
  <1>2. OneStream'
    BY DEF OneStream, Broadcast
  <1>3. NeverNil'
    BY <1>0 DEF TypeOK, NeverNil, SendersServed, Broadcast, Goroutine
  <1>4. CreatesFirst' /\ SendersServed'
    BY <1>0 DEF TypeOK, CreatesFirst, SendersServed, Broadcast
  <1> QED BY <1>1, <1>2, <1>3, <1>4

LEMMA RecvMsgIInv ==
  ASSUME IInv, NEW r \in Receiver, RecvMsg(r)
  PROVE  IInv'
  <1> USE DEF IInv
  <1>0. r \in Goroutine
    BY DEF Goroutine
  <1>1. TypeOK'
    BY <1>0 DEF TypeOK, RecvMsg, Goes, Returns, PCs
  <1>2. OneStream'
    BY DEF OneStream, RecvMsg
  <1>3. NeverNil'
    BY <1>0 DEF TypeOK, NeverNil, RecvMsg, NothingYet, Goes, Returns, Goroutine
  <1>4. CreatesFirst' /\ SendersServed'
    BY <1>0 DEF TypeOK, CreatesFirst, SendersServed, RecvMsg, Goes, Returns
  <1> QED BY <1>1, <1>2, <1>3, <1>4

LEMMA NextIInv == IInv /\ [Next]_vars => IInv'
  <1> SUFFICES ASSUME IInv, [Next]_vars PROVE IInv'
    OBVIOUS
  <1>1. CASE \E g \in Goroutine : Call(g) \/ CallEmbedded(g) \/ Use(g)
    BY <1>1, CallsIInv
  <1>2. CASE \E s \in Sender : SendMsg(s) \/ CreateStream(s) \/ Broadcast(s)
    BY <1>2, SendMsgIInv, CreateStreamIInv, BroadcastIInv
  <1>3. CASE \E r \in Receiver : RecvMsg(r)
    BY <1>3, RecvMsgIInv
  <1>4. CASE UNCHANGED vars
    BY <1>4 DEF vars, IInv, TypeOK, OneStream, NeverNil, CreatesFirst, SendersServed
  <1> QED BY <1>1, <1>2, <1>3, <1>4 DEF Next

\* The inductive invariant holds in every reachable state.
THEOREM Invariance == Spec => []IInv
  BY InitIInv, NextIInv, PTL DEF Spec

\* TypeOK holds for any goroutines: the mutex is held exactly in the streamer.
THEOREM TypeCorrect == Spec => []TypeOK
  <1>1. IInv => TypeOK
    BY DEF IInv
  <1> QED BY <1>1, Invariance, PTL

\* At most one real stream is created, by any number of concurrent SendMsg calls.
THEOREM OneStreamOnly == Spec => []OneStream
  <1>1. IInv => OneStream
    BY DEF IInv
  <1> QED BY <1>1, Invariance, PTL

\* No SendMsg or RecvMsg uses a nil ClientStream.
THEOREM StreamIsThere == Spec => []NeverNil
  <1>1. IInv => NeverNil
    BY DEF IInv
  <1> QED BY <1>1, Invariance, PTL
=============================================================================
