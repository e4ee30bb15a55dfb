# grpc-gcp-go: formal model

TLA+ modules, TLC configurations and TLAPS proofs for
[grpc-gcp-go](../src/README.md): the gRPC channel pool with affinity and
detection of unresponsive channels, the failover between endpoints, and the
fallback from a primary to a second connection, all in `src/grpcgcp`; and the
programs of the repository that run beside it: the Spanner prober, the cloud
prober and the load test.

Check a run with `tlc -config <run>.cfg <module>`, a proof with
`tlapm <module>_proofs.tla`. `PROJECT.json` lists the runs, the lines of source
each definition models, and for every property a mutant of the model, that is a
plausible bug, which violates it.

## 1. The system

| Component | Source (in `src/grpcgcp/` if not said) | State | Operations |
|---|---|---|---|
| balancer | `gcp_balancer.go` | under `gb.mu`: `scRefs`, `scStates`, `refreshingScRefs`, `scRefList`, `affinityMap`, `fallbackMap`, `csEvltr`, `state`, `picker`; the counters and flags of every `subConnRef` | `UpdateClientConnState`, `UpdateSubConnState`, `newSubConn`, `getReadySubConnRef`, `getSubConnRoundRobin`, `bindSubConn`, `unbindSubConn`, `refresh` |
| picker | `gcp_picker.go` | a snapshot of the ready `subConnRef`s, `p.mu`; the locals of every RPC | `Pick`, the `Done` callback, `detectUnresponsive` |
| interceptors | `gcp_interceptor.go` | per stream: `initStreamErr`, the `ClientStream` created late, a mutex with a condition variable | `SendMsg`, `RecvMsg`, the methods of the embedded `ClientStream` |
| multiendpoint | `multiendpoint/` | endpoints with status and priority, `current`, `future`, timers | `SetEndpoints`, `SetEndpointAvailability`, the timers, `Current` |
| GCPMultiEndpoint | `gcp_multiendpoint.go` | `pools` by endpoint, `mes` by name, `defaultName`, a monitor goroutine per pool | `UpdateMultiEndpoints`, `pickConn`, `monitor`, `Close` |
| GCPFallback | `gcp_fallback.go` | counters of successes and failures, `isInFallback`, three goroutines with tickers | `Invoke`, `NewStream`, `rateCheck`, `probePrimary`, `probeFallback`, `Close` |
| affinity keys | `gcp_picker.go`, `gcp_interceptor.go`, `grpc_gcp.proto` | the messages of a call in its context, the keys bound | `keysFromMessage`, `Pick`, BIND and UNBIND in the callback |
| Spanner prober | `src/spanner_prober/` | per task: options, how far the set-up is, the channel of results; in Spanner: instance, database, rows | `validateFlags`, `NewProber`, `Start`, `runProbe` with six kinds of probes, `backgroundStatsAggregator` |
| cloud prober | `src/cloudprober/` | sessions, metrics, what is printed | five probers in a sequence of requests, `reportError` |
| load test | `src/continuous_load_testing/client.go` | methods, one stream per worker, `recvErr` of a goroutine | `executeMethod`, `executeBidiMethod`, the seven `Execute...` methods |

gRPC's `ClientConn` creates the balancer, tells it the resolved addresses and
the service config, reports the states of the SubConns the balancer created,
and asks the published picker where to put an RPC. The picker calls back into
the balancer from the goroutines of the RPCs, so it acts on a snapshot while
the pool changes. The interceptors only hand the picker the messages that hold
the affinity keys. `GCPMultiEndpoint` holds one `ClientConn`, with a balancer,
per endpoint, monitors its state and tells the `multiendpoint`s, whose
`Current()` chooses the pool of a call. `GCPFallback` is independent of all
these: it wraps two connections of any kind.

The programs do not import `grpcgcp` code of this repository except as the
transport of their connections, and share nothing with each other. Several
tasks of the Spanner prober run against one instance and one database, which
each of them creates if it is missing.

What is hard to get right, and to test:

- a refresh swaps the SubConn under a living `subConnRef` while states are
  reported for both, keys are bound to the old one and RPCs hold it;
- RPCs use pickers and `subConnRef`s that are out of date; `p.mu` is one lock
  per picker, so it does not exclude a Pick on another picker;
- state is read under one hold of a lock and used under another, or under none
  (`getConnectionPoolSize` then `newSubConn`, `scRef.subConn` in the callback,
  `pickConn`, `isInFallback`);
- a method that holds `gb.mu` calls one that takes it again;
- timers fire after what they were set for has changed;
- the state counters, `streamsCnt` and `affinityCnt` only ever see differences;
- an update of many parts fails half way;
- two programs set up or write the same thing: an instance, a database, a row
  of a table that both read first and then insert;
- a bounded channel is full, or its reader has gone;
- something must happen in the end: a channel reconnects, an RPC that waits for
  a picker gets one, a stopped goroutine ends, a dead endpoint is left.

What makes each component correct:

- balancer: its maps agree with each other; the picker offers exactly the ready
  channels and `ClientConn` has it; counters equal what they count; no channel
  of the pool is left without a connection attempt; no panic, no self-deadlock;
- picker: streams are counted exactly; the limits of the pool and of a channel
  are kept; no RPC is sent to wait for a picker that will not come; an RPC with
  a bound key goes on the channel of its key, or on another that is ready if it
  may, and keys are bound to the channel of the RPC that asked for it;
- multiendpoint: the current endpoint is the one the documentation promises
  after any sequence of events;
- GCPMultiEndpoint: every endpoint in use has an open, monitored pool and no
  other connection is open; monitors tell the truth in the end;
- GCPFallback: it switches when, and only when, the primary failed in a period;
- interceptors: one real stream, never a nil one, no lost wake-up;
- affinity keys: exactly the keys the locator names are found, bound, unbound;
- Spanner prober: tasks and probes do not make each other fail, probing starts
  on a ready instance, every probe's result is recorded;
- cloud prober and load test: success is printed exactly if no request failed
  but a deletion of a session, no latency is that of a request that failed, but
  for two kinds the code lets through, the sessions left in the database
  have causes, and workers go on after errors.

## 2. The modules

| Module | Models | Composed of |
|---|---|---|
| `GcpBalancer` | the balancer, with `ClientConn` and SubConns as its environment | |
| `AffinityPool` | what the pool promises to RPCs | |
| `GcpPicker` | RPCs on the balancer: `Pick` and `Done` | EXTENDS `GcpBalancer`, uses its actions; implements `AffinityPool` |
| `Failover` | what a MultiEndpoint promises | |
| `MultiEndpoint` | the multiendpoint package | implements `Failover` |
| `GcpMultiEndpoint` | pools, monitors, updates, `pickConn` | one `Failover` per MultiEndpoint (`INSTANCE`) |
| `GcpFallback` | GCPFallback | |
| `GcpClientStream` | gcpClientStream | |
| `AffinityKeys` | the keys of a call, from interceptor to binding | |
| `SpannerProber` | tasks, Spanner, probes, the channel of results | |
| `LoadTest`, `CloudProber` | the two programs that only call services | both in `MCClients` |

`MC*` modules define the constants of the runs, `*_proofs` hold the theorems.

**GcpBalancer.** One variable per field. A `subConnRef` is named by the SubConn
it was created with, its fields are `refs[ref]`. Every method holds `gb.mu`
from its first line to its last, so it is one action; `UpdateClientConnState`
is several, because `enforceMinSize` loops until NewSubConn succeeds, and `mu`
stays held between them. Where the code locks `gb.mu` a second time, `mu`
becomes `"stuck"`; where it dereferences nil, `panicked` becomes true; both are
final. `conn`, `wantConnect`, `scAddrs` and `removed` are the environment:
gRPC's contract that a SubConn goes from IDLE to CONNECTING only after
`Connect()`, that CONNECTING is left for READY, TRANSIENT_FAILURE or IDLE, and
so on (`CanReport`). `LiveShutdown` allows SHUTDOWN for a SubConn the balancer
did not remove, which gRPC's channel does on its own when it closes. The
methods the picker calls may be called with any argument here; `GcpPicker`
calls them where and with what the code does.

**GcpPicker.** `calls[c]` is the locals of one RPC in `Pick`, on its way, or in
its callback. A step ends where a lock is released or an atomic variable was
read or written: `LockPicker` is `p.mu.Lock()` and the look-up of
`getReadySubConnRef`, `ScanRef` one round of the loop over the atomic counters,
which reads that of a less busy channel a second time (`ReadCount`), `EndScan`
the test of the watermark, `CheckSize` is `getConnectionPoolSize`, `Grow` is
`newSubConn`. A fallback is searched for with the same steps, over the channels
of `gb.picker` (`PickFallback`) and with `gb.mu` held to the end
(`Searching`, `EndFallback`), so whatever needs `gb.mu` waits while the
counters go on changing.
`Finish` or `Place` starts the callback, and `GotResp`, `Count`, `Refresh`,
`ReadSubConn`, `UpdateAffinity` are its parts. `streamsCnt` and `rrRefId` are
the fields of those names (`rrRefId` modulo `RRWidth` in place of 2^32, and it
starts with the last value, so the first round robin index is 0).
Pickers are told apart by a number that is reused once no RPC holds it. The
`ClientConn` is external: an RPC that was given ErrNoSubConnAvailable waits for
the next picker (`NextPicker`), as does one whose SubConn turns out not to be
ready, after its callback was called without an error (`Place`). The key of an
RPC is given. `EmptyKey` is the key "", which a request or a reply may hold: it
is bound and unbound like any other, but no Pick looks for it (`HasBoundKey`).
The reply of an RPC that was never sent is empty, and what is bound then is
nothing, or the key "" if the locator names a string at the top (`ReadSubConn`,
`RepliedKey`). An RPC's deadline, and the
window of `unresponsiveWindow`, may have passed at any moment.

**AffinityPool.** The same pool without SubConns, pickers, locks and counters:
which channels are ready, the channel each key is bound to, and for every RPC
what it was offered, the channel it is on, and whether its callback is still to
bind or unbind its key. An RPC may go on the channel of its key (`ByKey`), on
another ready one if that is not ready and fallback_to_ready is set, or, if no
binding holds it, on one that was ready when it got its picker (`Anywhere`). An
RPC finds no binding at one moment (`FindUnbound`) and goes later, when there may
be one: the code keeps no lock in between, and the promise does not either. A
channel loses its SubConn for good when it shuts down, a key its channel when
the SubConn it was bound to is replaced (section 6). In the refinement a channel
is a `subConnRef`; `offered` is the snapshot of the picker while the RPC uses
it, `due` the channel of a callback between `streamsDecr` and
`bindSubConn` or `unbindSubConn`.

**MultiEndpoint.** `status` and `priority` are the fields of the endpoints,
`timers` the recovery timers, each current or outdated (`lastChange` no longer
the `stateChange` it was set for), `orphans` those of endpoints that left the
list, `switchTimers` the switch timers, which the code never stops. A timer
fires in its own action at any time after it was set, also after a `Stop()`
that came too late. `maybeUpdateCurrent` is part of every action whose code
calls it. `Failover` is the promise in the package's words: the current
endpoint is listed, stays or moves to an available one, and is not dead while
another could serve.

**GcpMultiEndpoint.** `UpdateMultiEndpoints` is a sequence of actions, one per
round of each of its loops, over which `mu` is held; `opts` and `todo` are its
locals, and map iteration picks any element. It can fail at any dial and at
`NewMultiEndpoint` (`Abandon`). A monitor has its place in `monitor`; it holds
the read lock from `StartNotify` to `FinishNotify`. `pickConn` takes no lock;
each map it reads is a step. `conns` has the state of every `ClientConn`,
changed by `ConnStateChange` (external), closed by `RemovePool` and `Close`.
A MultiEndpoint is an instance of `Failover`, which `MultiEndpoint` is proved
to implement, so what holds here holds for the multiendpoint package.

**GcpFallback.** Every atomic operation is a step: `StartCall` loads
`isInFallback`, `FinishCall` reports, `SwapSuccesses`, `SwapFailures` and
`Decide` are `rateCheck`. `Tick` fills a ticker's channel. `period` and
`lastPeriod` are history, what the primary did since the last swap and in the
period the check is about, and are independent of `counters`.

**GcpClientStream.** `SendMsg`, `CreateStream`, `Broadcast`, `Use` are
`SendMsg`; `RecvMsg` tests under the mutex and waits, proceeds or returns the
error; `CallEmbedded` is a method that only the embedded stream has.

**AffinityKeys.** A Go value is a record with its kind: a pointer, an interface,
a struct, a slice, a string or another. `keysFromMessage` is the recursive
function of the code, with its error for a value of the wrong kind and its nil
for a pointer to nothing. A call is made through the unary interceptor, the
stream interceptor or none (`Through`), which decides what the context holds;
`Pick`, `Done` and `Fail` take from it the key the channel is chosen by, and the
keys bound or unbound. The recursion keeps this module out of the prover's reach.

**SpannerProber.** `task[t]` is how far a task is: `validateFlags` (for tasks
that are `Main`, that is started by `main.go`; others use the library directly),
`NewProber`, the creation of instance and database, `Dial`, and then the ticker,
whose `Tick` starts a probe's goroutine. `probe[p]` is one of those: it reads
and commits as its kind does, or fails from outside (`Interrupted`: deadline or
Spanner), then sends its result to `opsChannel[t]`, of `ChannelSize`, from which
`Record` takes it. Of the float64 `qps` the model keeps what decides whether the
ticker panics: "usual" is any rate with a positive interval, below 1 too, "tiny"
one whose interval does not fit a `time.Duration`, or NaN, both of which pass the
checks of the flags, and "outside" one that they refuse. `instance`, `database` and
`table` are in Spanner. Spanner's
transactions are serializable: a transaction that read what another then
wrote is run again, which is a commit that did not happen and a read that is
taken anew. `Refused` is what the library checks of the options, `FlagsValid`
what the flags of main do.

**LoadTest.** `worker[w]` is one goroutine's place in its method and what its
stream has sent and received; the server answers a request with any number of
messages of `Answers`, or fails. `receivers` counts the goroutines that
`ExecuteStreamedSequentialUnaryCall` has started to receive and that have not
ended, `recvErr` is the variable they share with the loop, and `unread` has the
answers that a virtual call left in the stream, which the next one's `Recv` gets.
**CloudProber.** The probers run one after the other. Each request may fail, and
one that failed may have taken effect: `unanswered` has the requests whose error
came back, `database` the probers whose session is there, whether or not the
reply to its creation arrived. `Deferred` says which probers delete their session
on every way out; the error of a deletion is ignored. `MCClients` runs either
program.

## 3. The runs

| Run | Shows | Instance |
|---|---|---|
| `balancer` | `TypeOK`, `EvaluatorExact`, `RefsConsistent`, `PickerCurrent`, `PoolReconnects`, `RefreshKeepsReady` | 3 SubConns, a key, pools that refresh and pools with fallbacks, min_size 0 or 2, NewSubConn may fail, SubConns may shut down |
| `picker` | `PickerTypeOK`, `StreamsExact`, `WaitingWillWake`, `LimitsKept`, `NoFault`, `ImplementsAffinityPool` | 3 SubConns, a key and the key "", 2 RPCs at a time, in five configurations: a pool that grows, one with fallbacks, one that unbinds and has both keys, round robin, refreshes |
| `multiendpoint` | `TypeOK`, `CurrentIsTop`, `ImplementsFailover`, `LastAvailableServes` | all lists of up to 3 endpoints and one with a repetition, all four combinations of delays |
| `gme_update` | `TypeOK`, `QuietCallsServed`, `PoolPerEndpoint`, `ConnsOwned` | 2 MultiEndpoints, 2 endpoints, 2 connections at a time, dials that fail, a call |
| `gme_monitors` | `SettledStateSeen`, `StoppedMonitorsEnd` | 1 MultiEndpoint moved between 2 endpoints |
| `fallback` | `TypeOK`, `FallbackJustified`, `CallsFollow`, `FailingPrimaryLeft`, `LoopsEnd` | 2 RPCs, 2 unseen results, with and without fallback and either probe |
| `stream` | `TypeOK`, `OneStream`, `ReceiversWoken` | 2 senders, 2 receivers, 1 other caller, 3 failures |
| `keys` | `KeysExact` | messages with text, lists, nested and repeated messages, nil, a oneof and other kinds; 10 locators; every command, through every interceptor |
| `prober` | `TypeOK`, `RacesHarmless`, `SetUpOnReady`, `ErrorsFromOutside`, `ProbesRecorded` | 2 tasks of which one is `main.go`, 2 probes, 1 row, each kind of probe, each way options can be wrong |
| `clients` | `TypeOK`, `StreamsInOrder`, `Accountable`, `CallsGoOn` | every method alone, two together, none, an unknown one; 2 messages per stream; every request may fail |
| `doc_settles_on_top`, `doc_calls_served` | each finds one property of section 6 violated | as small as the violation allows |

The bounds, and why they are enough:

- *SubConns*: a refresh needs the old one and its replacement; a third lets a
  second channel change, or a second refresh run, meanwhile. SubConns are not
  reused, so a behaviour also ends with them; more of them only lengthen it.
- *Keys*: the maps treat keys independently of each other.
- *RPCs*: two, to have one between any two steps of the other. `MaxSizeKept`
  (section 6) needs three, and was examined so.
- `MaxCount` bounds `affinityCnt` and `deCalls`, `MaxAddrs` the number of
  different address lists, `MaxTimers` the switch and orphaned timers,
  `MaxReports` the results no check has seen yet, `MaxFailures` the failed
  creations of a stream: each is a guard that stops the step that would exceed
  it, and is past the values at which the code decides something.
- `ChannelPool.maxStreams` and `unresponsiveCalls` are 1 or 2 so that full and
  unresponsive channels are common; 0 is replaced by the defaults in the code,
  which is why `ChannelPoolType` has none, nor a `maxSize` of 0.

- *Tasks, probes, rows*: a race for the instance or for a row needs two; a
  channel of size 1 is full as soon as the second probe ends. Rows do not
  interact.
- `NumOfRequests` is 2 (10 in the code): a first, a last, and one that is both
  after a next one. *Messages* nest once, as the walk treats each level alike.

- *Pickers* are told apart by a number, which is only ever compared: with that
  of another call and with that of `gb.picker`. The run `picker` therefore
  identifies states that differ in the numbers alone (its `VIEW`,
  `UpToNumbers`, keeps which calls share a picker and whether it is the current
  one). Such states have the same steps and satisfy the same properties.

Symmetry is used only in runs without liveness. Deadlock is not checked in
most runs: bounds, a panic and a closed program stop the system for good.

## 4. Fairness

- `MultiEndpoint`: a timer that is set fires (`time.AfterFunc` runs its
  function in the end). Nothing is assumed of the callers.
- `GcpMultiEndpoint`: every step of a goroutine that can run is taken, weakly
  fair; `StartNotify` is strongly fair because `sync.RWMutex` lets a waiting
  reader in after the writer it waits for, however many writers follow.
- `GcpFallback`: tickers fire, goroutines run, RPCs and probes end; leaving a
  loop is strongly fair, because a `select` with two ready cases chooses at
  random and does not prefer the tick for ever.
- `GcpClientStream`: goroutines run, and a goroutine that waits for the mutex
  gets it although others take it again and again (`sync.Mutex` hands it over
  to a starving waiter).
- `SpannerProber`: goroutines run, a deadline ends a probe that Spanner does not
  answer (`context.WithTimeout`), the aggregator runs. `Send` is strongly fair:
  a Go channel serves the goroutines that wait to send in their order, so one
  probe is not passed over for ever by others.
- `LoadTest`: goroutines run and RPCs return; the server is one that answers.
- No liveness is stated for `GcpBalancer` and `GcpPicker`: whether a SubConn
  ever becomes ready is the network's choice. What could go wrong for liveness
  there is stated as safety: `PoolReconnects`, `WaitingWillWake`.

## 5. The proofs

Every theorem holds for all values of the constants that satisfy the modules'
`ASSUME`s; `TypeOK` and the invariants are proved from an inductive invariant.

**GcpBalancer_proofs.** The maps of the balancer change together, so none of
them is right on its own: `RefsConsistent` does not follow from itself, as
`swapReplacement` needs to know that the replacement it finds is not the
SubConn of another ref. The inductive invariant is `IInv == TypeOK /\ Linked`.
`Linked` adds to `RefsConsistent` that SubConns not yet created are in no map,
that the SubConn of a ref is mapped back to that ref, that it is no
replacement, and that the ref of a replacement has a SubConn. The counters of
`csEvltr` only see differences; `CountShift` and `CountMove` say what one
change of a state does to the number of SubConns in each state, by the theorems
about cardinality. `PInv` adds that `picker` is made of the ready refs and that
`state` is the aggregate. Proved: `TypeCorrect`, `PoolConsistent`
(`RefsConsistent`), `CountersExact` (`EvaluatorExact`), `PickerIsCurrent`
(`PickerCurrent`), `RefreshIsSmooth` (`RefreshKeepsReady`).

What no sequence of events does to a pool depends on its history: whether a
refresh, a fallback or a shutdown ever happened (second part of the module). The
invariant `FInv` records it (`ConfigFirst`: before the first configuration there
is nothing; `Placed`: every SubConn is in the pool, on its way into it, removed,
or was shut down) together with the properties. Lemmas first say what each
method does as far as these properties tell (`Added`, `Ignored`, `Recorded`,
`Replaced`), on top of `IInv` and `PInv`. Proved: `ChannelsReconnect`
(`PoolReconnects`), `AddrsAreCurrent`, `FallbacksAreReady`, `KeysStayInPool`
(`BoundInPool`), `KeysAreUsable` (`KeysUsable`, which says for one key and its
fallback what the last two say apart), `FaultsHaveCauses` (`NoFault`).

**GcpPicker_proofs.** `BalancerImplemented` is `PickerSpec => Spec`: whatever
RPCs do, the balancer below them behaves as `GcpBalancer` says, so that every
theorem about the balancer holds under concurrent Picks and callbacks. The
invariant `PkInv` holds those of the balancer, what every call has in its
locals at each place (`LocalsOK`: a ref it has chosen was made, a SubConn it
holds is not nil), and the streams. A ref that was made stays (`LiveGrows`), so
one call's step cannot take away what another has read; and because there are
more picker numbers than calls, a new picker always finds one no call still
uses (`FreeId`). Proved from it: `PickerTypeCorrect`, `StreamsAreExact` (by the
theorems about cardinality, for any number of RPCs), `PicksAreInPool`.

The limits and the waking of RPCs rest on what a Pick still knows of channels
that others change meanwhile. `RouteInv` (`RouteInvariance`) says how an RPC
came to its place and that the SubConn it was given is still in the pool, if
none was replaced or lost. On it stand three invariants:

- `LockInv`, for the watermark. Counting and choosing are under `p.mu` of one
  picker, which one RPC holds at a time (`OnePerPicker`). The counter that a
  scan has read may be outdated, but it counts at least the RPCs that this
  picker put on the channel (`ScanCounted`), as only the holder of the lock adds to
  those; so a channel found below the watermark may take one more.
- `SizeInv`, for the size. The size is checked under one hold of `gb.mu` and
  the channel added under another, so RPCs of different pickers can all pass the
  check. But an RPC gets there only from channels that are all busy, and then
  some other RPC is on one of them: never has every RPC found all channels busy
  (`FoundBusy`). The pool together with the channels about to be added
  (`Growing`) is therefore over the limit by at most the RPCs but two.
- `WakeInv`, for waiting RPCs. An RPC is sent back for the sake of a channel that
  is not ready: the picker shows exactly the ready ones (`PickerShows`), and a
  channel just added is not. As long as its picker is the last, that channel is
  still not ready; when it becomes so, there is another picker, and the number
  of the old one is not used again while the RPC holds it.

Proved: `LimitsAreKept` (`LimitsKept`), `CallsAreWoken` (`WaitingWillWake`).

`AffinityPoolImplemented` is `PickerSpec => Promise!APSpec`. Every step of an RPC,
of its callback or of the balancer is one step of `AffinityPool` or changes
nothing it sees, for any number of RPCs and keys, and with refreshes, fallbacks
and shutdowns. Its invariant `ViewInv` adds to `RouteInv` what the keys know
(`KeysKnown`: a SubConn that was in the pool, and one that is ready if it is a
fallback still in the pool), what an RPC has in its locals at each place
(`RpcOK`: the channel a scan has chosen is one the RPC was offered, and a
fallback is searched for a key that is not ""), and that the SubConn a callback
is about to bind is that of its channel or of none any more (`Belongs`). Two
steps are not seen at all: the search for a fallback before its end,
and the binding of the key "" (`EmptyKeyUnseen`). The steps
are proved one by one (`...Fulfils`), on lemmas that say what `AffinityPool`
allows in terms of the calls' views (`Fits...`). A refresh is one step in which
keys lose their channel: `Settled` says that a SubConn that was given to a
channel belongs to that channel afterwards, or to none.

**MultiEndpoint_proofs.** The promise compares priorities, so the proof needs
the highest available endpoint to exist: `Top` is well defined because priorities
are naturals. `IInv == EndpointsOK /\ ChoiceOK /\ Usable(current, status) /\
Best(current, status, priority)`: the endpoints and their timers; `current`,
`future` and the switch timers; `current` may be used; and without a
switching delay it is the best choice. `Usable` and `Best` take the statuses as
parameters because `maybeUpdateCurrent` decides by those a step has just set
(lemma `Choice`), and `Best` needs `ChoiceOK`, that no switch timer exists
without a delay, since one may move `current` to a lower endpoint.
Proved: `TypeCorrect`, `RecoveryIsTimed`, `CurrentIsUsable`, `CurrentIsBest`
(`CurrentIsTop`), `TimersHarmless`, `CurrentSticks`, and `FailoverImplemented`,
that is `Spec => Promise!Spec`: the initial states and every step of
`MultiEndpoint` are those of `Failover`, or stutter.

**GcpMultiEndpoint_proofs.** An update holds `mu` over many steps, between which
the maps do not agree with each other. `IInv == TypeOK /\ Progress /\ Served /\
ConnsOwned /\ CallsFine` says for every place in the update which part of the
agreement already holds (`Progress`) and what calls see of it (`Served`,
`CallsFine`). The theorems have the hypothesis `ListsOK`, that no
MultiEndpoint is given an empty list; section 6 says what happens without it.
Proved: `TypeCorrect`, `EndpointsArePooled` (`PoolPerEndpoint`),
`DefaultIsServed`, `QuietCallsAreServed`, `ConnectionsAreOwned`.

**GcpFallback_proofs.** `rateCheck` swaps its two counters one after the other
while RPCs report. `IInv == TypeOK /\ Accounted /\ ProbesOfConns`: `Accounted`
says that the counters are what the primary did since each was swapped, and that
the locals of a check are what it did before. Proved: `TypeCorrect`,
`SwitchIsJustified` (`FallbackJustified`).

**GcpClientStream_proofs.** `IInv == TypeOK /\ OneStream /\ NeverNil /\
CreatesFirst /\ SendersServed`: a sender past the mutex has a stream, or its own
error, and only the first sender creates one. Proved: `TypeCorrect`,
`OneStreamOnly`, `StreamIsThere` (`NeverNil`).

**SpannerProber_proofs.** What makes races harmless is what a task knows of the
shared state at each place of its set-up. `IInv == TypeOK /\ SetupInv /\
Isolated /\ ErrorsFromOutside`: `SetupInv` says of every task what exists in
Spanner when it is past a step (`Knows`) and what must have gone wrong when it
gave up (`GaveUp`); `Isolated` says that rows are whole, and that a row a
transaction found missing is missing until that transaction ends, which is what
running it again provides. Proved: `TypeCorrect`, `RacesAreHarmless`
(`RacesHarmless`), `SetUpIsReady` (`SetUpOnReady`), `ErrorsAreFromOutside`
(`ErrorsFromOutside`), for any number of tasks, probes and rows.

**Clients_proofs.** `LoadInv` says of each place in a method what went over its
stream before (`Reaches`: sending and receiving alternate, or one is over when the
other begins), and that no goroutine receives before the loop of a bidi method
has begun a virtual call, and never two; a call that succeeds is then complete. `CloudInv` says which
latencies the cloud prober has when nothing but deletions failed so far
(`Collected`: all of the probers before, and those of the requests before), where
a request that failed is to be found (`Failed`), that no latency is there before
its request was made (`MeasuredBefore`), and which prober may have left a
session. Proved: `ClientsTypeCorrect` (`TypeOK`), `StreamsAreInOrder`
(`StreamsInOrder`), `ProbesAreAccountable` (`Accountable`), for any number of
workers, requests of a stream and answers to one.

Some of these theorems state properties that no run lists, because another
property of the run implies them on the small instance or their proof leaves
nothing to run: `AddrsCurrent`, `FallbackReady`, `BoundInPool`, `KeysUsable`,
`PicksInPool`, `RecoveryTimed`, `CurrentUsable`, `TimersKeepAvailable`, `SticksToCurrent`,
`DefaultServes`, `NeverNil`.

Liveness stays with TLC (`LastAvailableServes`, `SettledStateSeen`,
`StoppedMonitorsEnd`, `CallsFollow`, `FailingPrimaryLeft`, `LoopsEnd`,
`ReceiversWoken`, `ProbesRecorded`, `CallsGoOn`): the proof system has no fairness or ENABLED.
So does `KeysExact`, whose module is recursive. Every other property of the
runs is the statement of a theorem.

## 6. Deviations

Where a comment or a doc says more than the code does, and, in the last two
rows, where the code differs from itself. Two have a run that
shows the behaviour; the others are stated in the modules, below the line
"What the comments and docs say, and the code does not do", and TLC finds each
violated when it is added to a configuration.

| Property | What happens | What the text says |
|---|---|---|
| `NilMeansNotReadyYet` | a refresh leaves `affinityMap` pointing at the replaced SubConn, so `getReadySubConnRef` returns nil for its keys for ever | `gcp_balancer.go:353-354` "If returned subConnRef is a nil, it means the underlying subconn is not READY yet" |
| `IdleReconnects` | state changes of a replacement other than READY are ignored; one that becomes IDLE is never connected and the refresh never ends | `gcp_balancer.go:578-580` "When a SubConn enters Idle, the balancer will immediately call sc.Connect()" |
| `SettlesOnTop` (run `doc_settles_on_top`) | a switch timer is never cancelled and may move `current` from the highest available endpoint to a lower one, for good | `multiendpoint.go:48` "The current endpoint is the highest available endpoint in the list" |
| `CallsServed` (run `doc_calls_served`) | `pickConn` without the lock finds no pool for the endpoint it read and dereferences nil | `gcp_multiendpoint.go:61` "Be able to reconfigure endpoints in runtime" |
| `RefreshingHasReplacement` | when NewSubConn fails in `refresh`, `refreshing` stays true and the channel is never refreshed again | `gcp_balancer.go:162` "If this subconn is in the process of refreshing" |
| `AffinityCntExact` | binding a bound key again counts it again | `gcp_balancer.go:158` "the number of keys bound to the subConn" |
| `UnbindRemovesBinding` | unbinding a key of a replaced SubConn dereferences nil | `gcp_balancer.go:426` "unbindSubConn removes the existing binding" |
| `BindFindsRef` | the SubConn a callback read is replaced before `bindSubConn` gets `gb.mu`: no `subConnRef` is found, and nil is dereferenced | `gcp_balancer.go:415` "bindSubConn binds the given affinity key to an existing subConnRef" |
| `LockReleased`, with shutdowns | an update of the addresses that finds the pool empty calls `newSubConn` with `gb.mu` held (`gcp_balancer.go:290`), which locks it again: the balancer stops for good | `gcp_balancer.go:315` "newSubConn creates a new SubConn" |
| `LockReleased`, with fallbackToReady | `getReadySubConnRef` holds `gb.mu` (`gcp_balancer.go:369`) and calls `getLeastBusySubConnRef`, which locks it again in `getConnectionPoolSize` if all channels are busy: the balancer stops for good | `gcp_balancer.go:368` "Try to create fallback mapping" |
| `FallbackIsReady` | a refresh leaves the replaced SubConn in `fallbackMap` | `grpc_gcp.proto:52-53` "will temporarily fallback to another ready channel" |
| `MaxSizeKept` | size check and growth are under different holds of `gb.mu`, with `p.mu` per picker: three RPCs overrun max_size (`PoolBounded` says by how much) | `grpc_gcp.proto:36` "The max number of channels in the pool"; the TODO at `gcp_balancer.go:309` |
| `RefreshJustified` | a response, or a finished refresh, between `deCallsInc` and `refresh` is not noticed: the channel is refreshed without cause | `grpc_gcp.proto:61`: if ">= unresponsive_calls RPC calls (started after last response from the server) timed-out" |
| `RefreshStrandsNoCall` | an RPC given the old SubConn just before a refresh replaces it waits for a new picker, and none is published | `grpc_gcp.proto:63-64` "The calls on the old connection will not be interrupted" |
| `DelaysOnlyAvailable` | leaving a recovering endpoint for a higher available one is delayed | `multiendpoint.go:70-71` "only applicable when switching from a lower priority available endpoint" |
| `Tracks` | `UpdateMultiEndpoints` tells a state while the monitor is between telling and waiting; if the state returns to what the monitor saw, nobody corrects it | `gcp_multiendpoint.go:65` "A MultiEndpoint tracks endpoints' availability" |
| `ShutdownIsSilent` | the monitor of a closed pool notifies once more and makes an endpoint unavailable that has a new pool | `gcp_multiendpoint.go:291-292` "the connection poll for this endpoint will be shutdown" |
| `PoolPerEndpoint`, without `ListsOK` | an empty list for an existing MultiEndpoint is ignored, and the pools of the endpoints it keeps are closed | `gcp_multiendpoint.go:108` "creates a [grpcgcp] connection pool for every unique endpoint" |
| `CallsReportedOnce` | RecvMsg reports again each time it is called after the end of a stream | `gcp_fallback.go:92` "the minimum number of failed calls" |
| `ErrorIsCurrent` | `initStreamErr` is never cleared: after a retried SendMsg succeeded, RecvMsg returns the old error | `gcp_interceptor.go:118-119` "wait until cs.ClientStream is initialized or the initialization failed" |
| `NoPanic` | CloseSend, Header and the like dereference nil before the first SendMsg | `gcp_interceptor.go:69-70` |
| `StreamsBind` | the stream interceptor leaves no `replyMsg`, so a BIND method that streams binds nothing | `grpc_gcp.proto:113-116`, of BIND methods of either kind |
| `UnbindsAll` | UNBIND removes the first key of its request, BIND made one binding for each | `grpc_gcp.proto:118-121` |
| `DatabaseSetUp` | a database that another task is still creating counts as created, so a prober may start before it is there | `proberlib.go:299` "New initializes Cloud Spanner clients, setup up the database, and return a new CSProber" |
| `LibraryChecks` | used without the flags of `main.go`, a rate of 0 makes NewTicker panic, since nothing in the library checks it | `proberlib.go:557` "qps must be > 0 as we validate this when constructing a CSProber" |
| `FlagsSuffice` | the flags let a rate of 1e-10 and NaN through (`main.go:187`); the interval (`proberlib.go:560`) overflows, on amd64 to a negative one, and NewTicker panics | `proberlib.go:559`, that a rate below 1 is supported |
| `BidiPersists` | the worker of a bidi method ends at its first error | `client.go:166` "persistent bidi stream workers", `client.go:320` "Restarting stream after failure or completion", of the load test |
| `ErrorsReported` | the constructor accepts a missing error reporting client, and the first error then dereferences nil | `stackdriverutils.go:64,67` |
| `NoSessionLeft` | a request of `transactionProber` that fails leaves its session in the database: it is the only prober that does not defer the deletion (`spannerprobers.go:257`, compare `:161`) | nothing in words; the deferred deletions of the other probers are for this |
| `LatenciesOfAnswers` | the error of DeleteSession is ignored, and its latency recorded and printed like that of an answer (`spannerprobers.go:71-72`) | nothing in words; every other latency is recorded after the test of the error |

Also seen while reading, and part of the models without a property of their
own: the proto says RPCs hang when a full pool is at its watermark, the code
picks the least busy channel; it says max_size 0 means unlimited and a
watermark above 100 is ignored, the code takes 4 and any watermark; the callback is called without an error for an
RPC that was never sent, so an UNBIND takes effect and a response is counted;
a stream never binds a key (`gcpContext` has no `replyMsg`); RecvMsg waits for
ever, whatever its context, when SendMsg is never called; GCPFallback never
goes back to the primary; a field in a oneof, or one whose name has an
underscore, is never found by the locator of an affinity key; the load test's
message for an unknown method omits StreamedSequentialUnaryCall (`client.go:341`);
streams that end with a single response, or are
abandoned, are never counted; a constructor of GCPMultiEndpoint that fails half
way leaves the connections and monitors it has made open, and nobody can close
them (`ConnsOwned` leaves it out).

`NoFault`, that the balancer neither panics nor locks itself out, therefore leaves
out pools with shutdowns, refreshes or fallbacks, and `WaitingWillWake` those
with refreshes: there the rows above are what happens. What still holds in them is
`ImplementsAffinityPool`: an RPC is never sent where it may not go.

## 7. What is not modelled

- *Time.* Deadlines, `unresponsiveWindow` (with its `uint32` overflow), periods
  and delays are choices: whatever they are, an order of events they could
  lead to is among those checked.
- *Metrics and logs*, and the counters of the fallback connection, which feed
  a gauge only.
- *Data races*: `scRefList` read without the lock in `getSubConnRoundRobin`,
  `lastResp`, `refreshCnt` and `scRef.subConn` are read and written as if each
  access was atomic. `Close` of a GCPMultiEndpoint is not concurrent with an
  update.
- *ParseConfig*, the protobuf and mock packages: generated or pure.
- *The prober's latency interceptors* (`spanner_prober/prober/interceptors.go`)
  measure and record; nothing reads what they keep. They call `Trailer` while
  the caller may still receive, which gRPC allows only after a stream's end.
- *The examples, e2e-checksum, firestore and grpcgcp_tests*: programs that make
  one request after another and print what they get; there is no state beyond
  local variables.
- *Set-up of telemetry and flags* of the programs: configuration of libraries.

The generated protobuf and mock packages are two thirds of the repository's Go
code (some 12 000 of 18 400 lines, 9 000 of them one file). They hold accessors
and descriptors and have no behaviour of their own to state; what the models
stand for is to be compared with the rest.

## 8. Plan

Done, in this order: `GcpBalancer` with proofs, `MultiEndpoint` with `Failover`
and proofs, `GcpMultiEndpoint` with proofs, `GcpPicker`, `GcpFallback`,
`GcpClientStream` with proofs, `GcpPicker_proofs`,
`GcpFallback_proofs`, `SpannerProber` with proofs, `LoadTest` and `CloudProber`,
`AffinityKeys`, `Clients_proofs`, `AffinityPool`.

To do:

1. The closing of a GCPMultiEndpoint during an update.
