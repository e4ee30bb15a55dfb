----------------------------- MODULE MultiEndpoint -----------------------------
(***************************************************************************)
(* src/grpcgcp/multiendpoint: a list of endpoints by priority, their       *)
(* availability, and the current endpoint among them.                      *)
(*                                                                         *)
(* Every method and every timer function runs under the lock of the        *)
(* multiEndpoint and is one action.  Time is abstracted: a timer that is   *)
(* set may fire at any later moment, and Timer.Stop may come too late, the *)
(* function being started already and waiting for the lock.                *)
(***************************************************************************)
EXTENDS Naturals, Sequences, FiniteSets

CONSTANTS Endpoint,    \* the endpoints that may be listed
          NoEndpoint,  \* the empty string
          Lists,       \* the lists that may be given, by priority
          Options,     \* which of the two delays are configured
          MaxTimers    \* bound: switch timers, and orphaned recovery timers

OptionsType == [recoveryTimeout : BOOLEAN, switchingDelay : BOOLEAN]
ListedIn(list) == {list[i] : i \in DOMAIN list}

ASSUME EndpointAssumption == NoEndpoint \notin Endpoint /\ IsFiniteSet(Endpoint)
ASSUME ListsAssumption == \A list \in Lists : list \in Seq(Endpoint) /\ list # <<>>
ASSUME OptionsAssumption == Options \subseteq OptionsType
ASSUME TimersAssumption == MaxTimers \in Nat

VARIABLES
    options,       \* recoveryTimeout > 0 and switchingDelay > 0
    status,        \* the status of each endpoint, "none" when it is not listed
    priority,      \* its position in the list, 0 when it is not listed
    timers,        \* the recovery timers set for listed endpoints
    orphans,       \* how many are set for endpoints that were removed since
    current,       \* me.current
    future,        \* me.future
    switchTimers   \* how many switch timers are set

vars == <<options, status, priority, timers, orphans, current, future, switchTimers>>
choice == <<current, future, switchTimers>>

Status == {"unavailable", "available", "recovering"}

\* outdated: the endpoint's lastChange is no longer the timer's stateChange.
Timer(e) == [endpoint |-> e, outdated |-> FALSE]
Late(e) == [endpoint |-> e, outdated |-> TRUE]

InStatus(s, st) == {e \in Endpoint : st[e] = s}
Available == InStatus("available", status)
Recovering == InStatus("recovering", status)
Listed == {e \in Endpoint : status[e] # "none"}

\* The endpoint of S with the top priority.
Top(S, pr) == CHOOSE e \in S : \A f \in S : pr[e] <= pr[f]

\* The position of e; the last one counts if it is listed twice.
PriorityIn(e, list) ==
    IF e \in ListedIn(list)
    THEN CHOOSE i \in DOMAIN list : list[i] = e /\ \A j \in DOMAIN list : list[j] = e => j <= i
    ELSE 0

NewStatus == IF options.recoveryTimeout THEN "recovering" ELSE "unavailable"

\* The timers newEndpoint sets for the endpoints of S.
NewTimers(S) == IF options.recoveryTimeout THEN {Timer(e) : e \in S} ELSE {}

-----------------------------------------------------------------------------
(***************************************************************************)
(* NewMultiEndpoint.  An endpoint listed twice is made twice, and the      *)
(* timer of the first one is orphaned.                                     *)
(***************************************************************************)
Init ==
    /\ options \in Options
    /\ \E list \in Lists :
         /\ status = [e \in Endpoint |-> IF e \in ListedIn(list) THEN NewStatus ELSE "none"]
         /\ priority = [e \in Endpoint |-> PriorityIn(e, list)]
         /\ timers = NewTimers(ListedIn(list))
         /\ orphans = IF options.recoveryTimeout
                      THEN Len(list) - Cardinality(ListedIn(list)) ELSE 0
         /\ current = list[1]
    /\ future = NoEndpoint
    /\ switchTimers = 0

-----------------------------------------------------------------------------
(***************************************************************************)
(* Choosing the current endpoint.  st and pr are the statuses and the      *)
(* priorities it is chosen by, the ones the step has arrived at.           *)
(***************************************************************************)

\* Mutants: an endpoint that gave up recovering is kept; a better one is not
\* taken meanwhile.
KeepsRecovering_unavailable(st, pr) ==
    /\ st[current] \in {"recovering", "unavailable"}
    /\ \A e \in InStatus("available", st) : pr[e] > pr[current]
KeepsRecovering_higher(st, pr) == st[current] = "recovering"

\* The current endpoint is given time while no better one is available.
KeepsRecovering(st, pr) ==
    /\ st[current] = "recovering"
    /\ \A e \in InStatus("available", st) : pr[e] > pr[current]

SwitchesNow(st) == ~options.switchingDelay \/ st[current] \in {"none", "unavailable"}

switchFromTo(t, st) ==
    \/ /\ current = t
       /\ UNCHANGED choice
    \/ /\ current # t /\ SwitchesNow(st)
       /\ current' = t
       /\ UNCHANGED <<future, switchTimers>>
    \/ /\ current # t /\ ~SwitchesNow(st)
       /\ switchTimers < MaxTimers
       /\ future' = t
       /\ switchTimers' = switchTimers + 1
       /\ UNCHANGED current

\* The current endpoint has left the list.
Resorts(st) == st[current] = "none"

maybeUpdateCurrent(st, pr) ==
    LET avail == InStatus("available", st)
        listed == {e \in Endpoint : st[e] # "none"}
    IN  \/ /\ KeepsRecovering(st, pr)
           /\ UNCHANGED choice
        \/ /\ ~KeepsRecovering(st, pr) /\ avail # {}
           /\ switchFromTo(Top(avail, pr), st)
        \/ /\ ~KeepsRecovering(st, pr) /\ avail = {}
           /\ current' = IF Resorts(st) THEN Top(listed, pr) ELSE current
           /\ UNCHANGED <<future, switchTimers>>

-----------------------------------------------------------------------------
(***************************************************************************)
(* The operations.                                                         *)
(***************************************************************************)

SetEndpoints(list) ==
    LET removed == Listed \ ListedIn(list)
        added == ListedIn(list) \ Listed
    IN  /\ status' = [e \in Endpoint |-> IF e \in removed THEN "none"
                                         ELSE IF e \in added THEN NewStatus ELSE status[e]]
        /\ priority' = [e \in Endpoint |-> PriorityIn(e, list)]
        /\ timers' = {t \in timers : t.endpoint \notin removed} \cup NewTimers(added)
        /\ orphans' = orphans + Cardinality({e \in removed : Timer(e) \in timers})
        /\ orphans' <= MaxTimers
        /\ maybeUpdateCurrent(status', priority')
        /\ UNCHANGED options

\* setState stops the endpoint's timer, if it is not too late for that.
setState(e, s) ==
    /\ status' = [status EXCEPT ![e] = s]
    /\ \/ timers' = timers \ {Timer(e)}
       \/ Timer(e) \in timers /\ timers' = (timers \ {Timer(e)}) \cup {Late(e)}

\* Mutant: an endpoint that has left the list comes back.
Known_any(e) == TRUE

Known(e) == e \in Listed

setEndpointAvailability(e, avail) ==
    \/ /\ Known(e) /\ avail
       /\ setState(e, "available")
    \/ /\ Known(e) /\ ~avail
       /\ status[e] = "available"
       /\ \/ /\ ~options.recoveryTimeout
             /\ setState(e, "unavailable")
          \/ /\ options.recoveryTimeout
             /\ status' = [status EXCEPT ![e] = "recovering"]
             /\ timers' = timers \cup {Timer(e)}
    \/ /\ ~Known(e) \/ (~avail /\ status[e] # "available")
       /\ UNCHANGED <<status, timers>>

SetEndpointAvailability(e, avail) ==
    /\ setEndpointAvailability(e, avail)
    /\ maybeUpdateCurrent(status', priority)
    /\ UNCHANGED <<options, priority, orphans>>

Outdated(t) == t.outdated

RecoveryTimeout(t) ==
    /\ t \in timers
    /\ timers' = timers \ {t}
    /\ \/ /\ Outdated(t)
          /\ UNCHANGED <<status, choice>>
       \/ /\ ~Outdated(t)
          /\ status' = [status EXCEPT ![t.endpoint] = "unavailable"]
          /\ maybeUpdateCurrent(status', priority)
    /\ UNCHANGED <<options, priority, orphans>>

\* The timer of a removed endpoint: only the current endpoint is reconsidered.
OrphanTimeout ==
    /\ orphans > 0
    /\ orphans' = orphans - 1
    /\ maybeUpdateCurrent(status, priority)
    /\ UNCHANGED <<options, status, priority, timers>>

\* Mutant: the endpoint to switch to need not be available still.
SwitchTarget_unchecked == future

\* Where a switch timer leads: to the last endpoint a switch was planned to.
SwitchTarget == IF future \in Available THEN future ELSE current

SwitchTimeout ==
    /\ switchTimers > 0
    /\ switchTimers' = switchTimers - 1
    /\ current' = SwitchTarget
    /\ UNCHANGED <<options, status, priority, timers, orphans, future>>

-----------------------------------------------------------------------------
Next ==
    \/ \E list \in Lists : SetEndpoints(list)
    \/ \E e \in Endpoint, avail \in BOOLEAN : SetEndpointAvailability(e, avail)
    \/ \E t \in timers : RecoveryTimeout(t)
    \/ OrphanTimeout
    \/ SwitchTimeout

Spec == Init /\ [][Next]_vars

\* The runtime fires every timer that is set and not stopped.
Fairness ==
    /\ \A e \in Endpoint : WF_vars(RecoveryTimeout(Timer(e)))
    /\ WF_vars(SwitchTimeout)

FairSpec == Spec /\ Fairness

-----------------------------------------------------------------------------
(***************************************************************************)
(* Properties.                                                             *)
(***************************************************************************)

\* The type of every variable.  The endpoints with a status are the listed ones.
TypeOK ==
    /\ options \in OptionsType
    /\ status \in [Endpoint -> Status \cup {"none"}]
    /\ priority \in [Endpoint -> Nat]
    /\ \A e \in Endpoint : priority[e] = 0 <=> status[e] = "none"
    /\ timers \subseteq {Timer(e) : e \in Endpoint} \cup {Late(e) : e \in Endpoint}
    /\ orphans \in Nat
    /\ current \in Endpoint
    /\ future \in Endpoint \cup {NoEndpoint}
    /\ switchTimers \in Nat

\* An endpoint is recovering exactly while a timer is set that ends it, through
\* every stop, late start and removal.
RecoveryTimed ==
    \A e \in Endpoint : status[e] = "recovering" <=> Timer(e) \in timers

\* The current endpoint is listed, and is not one that is known to be down while
\* another is available, whatever the delays and the switches under way.
CurrentUsable ==
    /\ current \in Listed
    /\ Available # {} => status[current] # "unavailable"

\* Without a switching delay, the current endpoint is the highest available one,
\* unless it is recovering and no higher one is available (multiendpoint.go:48-55).
CurrentIsTop ==
    (~options.switchingDelay /\ Available # {}) =>
        \/ current = Top(Available, priority)
        \/ /\ status[current] = "recovering"
           /\ \A e \in Available : priority[current] < priority[e]

\* No timer, outdated ones included, changes which endpoints are available.
TimersKeepAvailable ==
    [][(\E t \in timers : RecoveryTimeout(t)) => Available' = Available]_vars

\* With nothing available the current endpoint stays as long as it is listed
\* (multiendpoint.go:48-49).
SticksToCurrent ==
    [][Available' = {} => current' = current \/ current \notin Listed']_vars

\* If in the end one endpoint alone remains available, it becomes current for good.
LastAvailableServes ==
    \A e \in Endpoint : <>[](Available = {e}) => <>[](current = e)

\* A MultiEndpoint keeps the promise of Failover.
F == INSTANCE Failover WITH listed <- Listed, available <- Available,
                            recovering <- Recovering
ImplementsFailover == F!FSpec

(***************************************************************************)
(* What the comments say, and the code does not do.                        *)
(***************************************************************************)

\* multiendpoint.go:48: "The current endpoint is the highest available endpoint
\* in the list", once no timer is left that could make it so.
SettlesOnTop ==
    (switchTimers = 0 /\ orphans = 0 /\ timers = {} /\ Available # {})
        => current = Top(Available, priority)

\* multiendpoint.go:70-71: "This delay is only applicable when switching from a
\* lower priority available endpoint to a higher priority available endpoint."
DelaysOnlyAvailable ==
    [][switchTimers' > switchTimers => current \in Available']_vars
=============================================================================
