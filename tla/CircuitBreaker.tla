--------------------------- MODULE CircuitBreaker ---------------------------
(***************************************************************************)
(* The router's per-worker circuit breaker (infera/router/breaker.py) with *)
(* the requests that drive it: a router asks the breaker which candidates  *)
(* it may use, dispatches to one of them, and reports the outcome later,   *)
(* when the breaker may have moved on.                                     *)
(*                                                                         *)
(* Time is kept as what is left of each deadline: "cool" is the rest of    *)
(* the exclusion (now < opens_until iff cool > 0) and "slot" the rest of   *)
(* the time a claimed probe slot is honoured (an expired claim and no      *)
(* claim are the same to the code).  Tick lets one unit pass.              *)
(***************************************************************************)
EXTENDS Naturals

CONSTANTS
    Workers,            \* worker ids that ever join the fleet
    Calls,              \* dispatches that can be in flight at once
    FailureThreshold,   \* consecutive failures that open; 0 turns it off
    Cooldown,           \* first exclusion
    MaxCooldown,        \* ceiling of a doubled exclusion
    ProbeTimeout        \* how long a claimed probe slot is honoured

ASSUME BreakerConfig ==
    /\ FailureThreshold \in Nat
    /\ Cooldown \in Nat
    /\ MaxCooldown \in Nat
    /\ ProbeTimeout \in Nat

VARIABLES
    fleet,      \* workers the registry lists as active
    entry,      \* the _Entry of each worker, Fresh when it has none
    req         \* per dispatch: Idle, or the worker it went to

breakerVars == <<fleet, entry, req>>

CLOSED == "closed"
OPEN == "open"
HALF_OPEN == "half_open"
States == {CLOSED, OPEN, HALF_OPEN}

\* A dispatch remembers its worker and, when it is a half-open probe, what is
\* left of the time its claim on the probe slot is honoured.
Dispatches == [worker : Workers, claim : 0..ProbeTimeout]
Idle == [claim |-> 0]

\* The longest exclusion: the first one is not clamped to max_cooldown.
Longest == IF Cooldown > MaxCooldown THEN Cooldown ELSE MaxCooldown

Entry == [failures : 0..FailureThreshold, state : States,
          cool : 0..Longest, next : 0..Longest, slot : 0..ProbeTimeout]

Fresh == [failures |-> 0, state |-> CLOSED, cool |-> 0, next |-> Cooldown, slot |-> 0]

BreakerTypeOK ==
    /\ fleet \in SUBSET Workers
    /\ entry \in [Workers -> Entry]
    /\ req \in [Calls -> Dispatches \cup {Idle}]

-----------------------------------------------------------------------------
(* What the breaker computes. *)

enabled == FailureThreshold > 0

Least(a, b) == IF a < b THEN a ELSE b

\* allows(): the answer, and the entry it leaves behind.
allows(e) ==
    \/ ~enabled
    \/ e.state = CLOSED
    \/ e.state = OPEN /\ e.cool = 0
    \/ e.state = HALF_OPEN /\ e.slot = 0

Claims(e) == enabled /\ e.state # CLOSED /\ allows(e)

AfterAllows(e) ==
    IF Claims(e)
    THEN [failures |-> e.failures, state |-> HALF_OPEN,
          cool |-> e.cool, next |-> e.next, slot |-> ProbeTimeout]
    ELSE e

\* filter(): every candidate is asked; when all are refused, all are returned.
filter(ws) ==
    LET allowed == {w \in ws : allows(entry[w])}
    IN  IF allowed # {} THEN allowed ELSE ws

\* Mutants of record_success: the failure count, or the backed-off cooldown,
\* outlives the outage.
AfterSuccessKeepsCount(e) ==
    [e EXCEPT !.state = CLOSED, !.slot = 0, !.next = Cooldown]
AfterSuccessKeepsBackoff(e) ==
    [e EXCEPT !.failures = 0, !.state = CLOSED, !.slot = 0]

AfterSuccess(e) ==
    [failures |-> 0, state |-> CLOSED, cool |-> e.cool, next |-> Cooldown, slot |-> 0]

AfterNeutral(e) == [e EXCEPT !.slot = 0]

\* _open(): the exclusion restarts at every failure while open.
Opened(failures, next) ==
    [failures |-> failures, state |-> OPEN, cool |-> next, next |-> next, slot |-> 0]

\* The failure count is only ever compared with the threshold: it saturates.
AfterFailure(e) ==
    LET failures == Least(e.failures + 1, FailureThreshold)
    IN  IF ~enabled THEN e
        ELSE IF e.state = HALF_OPEN
             THEN Opened(failures, Least(e.next * 2, MaxCooldown))
        ELSE IF failures >= FailureThreshold THEN Opened(failures, e.next)
        ELSE [failures |-> failures, state |-> e.state,
              cool |-> e.cool, next |-> e.next, slot |-> 0]

Elapse(t) == IF t > 0 THEN t - 1 ELSE 0

\* Mutant of the clock: a claimed slot waits for an outcome that may not come.
AfterTickClaimsForever(e) == [e EXCEPT !.cool = Elapse(e.cool)]

AfterTick(e) ==
    [failures |-> e.failures, state |-> e.state,
     cool |-> Elapse(e.cool), next |-> e.next, slot |-> Elapse(e.slot)]

-----------------------------------------------------------------------------
(* What the routers and the registry do to it. *)

BreakerInit ==
    /\ fleet = Workers
    /\ entry = [w \in Workers |-> Fresh]
    /\ req = [r \in Calls |-> Idle]

InFlight(r) == req[r] # Idle

Outcome(r, e) == entry' = [entry EXCEPT ![req[r].worker] = e]

\* Candidates ws are filtered and the policy dispatches to one of the rest:
\* every candidate was asked, so each may have claimed its slot.
Dispatch(r, ws, w) ==
    /\ ~InFlight(r)
    /\ ws # {}
    /\ w \in filter(ws)
    /\ entry' = [x \in Workers |-> IF x \in ws THEN AfterAllows(entry[x]) ELSE entry[x]]
    /\ req' = [req EXCEPT ![r] =
                 [worker |-> w, claim |-> IF Claims(entry[w]) THEN ProbeTimeout ELSE 0]]
    /\ UNCHANGED fleet

\* A clean response, or the first bytes of a stream.
record_success(r) ==
    /\ InFlight(r)
    /\ Outcome(r, AfterSuccess(entry[req[r].worker]))
    /\ req' = [req EXCEPT ![r] = Idle]
    /\ UNCHANGED fleet

\* A 4xx or a 429: the request's fault, or backpressure.
record_neutral(r) ==
    /\ InFlight(r)
    /\ Outcome(r, AfterNeutral(entry[req[r].worker]))
    /\ req' = [req EXCEPT ![r] = Idle]
    /\ UNCHANGED fleet

\* 2xx headers of a decode stream: neutral, and the request goes on.
ScoreHeaders(r) ==
    /\ InFlight(r)
    /\ Outcome(r, AfterNeutral(entry[req[r].worker]))
    /\ UNCHANGED <<fleet, req>>

\* A 5xx or a transport error before the first byte.
record_failure(r) ==
    /\ InFlight(r)
    /\ Outcome(r, AfterFailure(entry[req[r].worker]))
    /\ req' = [req EXCEPT ![r] = Idle]
    /\ UNCHANGED fleet

\* The client went away first: nobody reports how the worker did.
Abandon(r) ==
    /\ InFlight(r)
    /\ req' = [req EXCEPT ![r] = Idle]
    /\ UNCHANGED <<fleet, entry>>

\* on_worker_removed: the worker leaves the pool and the breaker forgets it.
forget(w) ==
    /\ w \in fleet
    /\ fleet' = fleet \ {w}
    /\ entry' = [entry EXCEPT ![w] = Fresh]
    /\ UNCHANGED req

Join(w) ==
    /\ w \notin fleet
    /\ fleet' = fleet \cup {w}
    /\ UNCHANGED <<entry, req>>

\* One unit of time passes.
Tick ==
    /\ entry' = [w \in Workers |-> AfterTick(entry[w])]
    /\ req' = [r \in Calls |-> [req[r] EXCEPT !.claim = Elapse(req[r].claim)]]
    /\ UNCHANGED fleet

BreakerNext ==
    \/ \E r \in Calls, ws \in SUBSET fleet : \E w \in ws : Dispatch(r, ws, w)
    \/ \E r \in Calls : record_success(r)
    \/ \E r \in Calls : record_neutral(r)
    \/ \E r \in Calls : ScoreHeaders(r)
    \/ \E r \in Calls : record_failure(r)
    \/ \E r \in Calls : Abandon(r)
    \/ \E w \in Workers : forget(w)
    \/ \E w \in Workers : Join(w)
    \/ Tick

BreakerSpec == BreakerInit /\ [][BreakerNext]_breakerVars

\* Time passes whatever the router does; nothing else is promised.
BreakerFairSpec == BreakerSpec /\ WF_breakerVars(Tick)

-----------------------------------------------------------------------------
(* Properties. *)

\* A worker is out of rotation (open or half-open) exactly while the count of
\* consecutive failures stands at the threshold: record_failure opens at the
\* threshold and only record_success, which closes, clears the count.
ExclusionEarned ==
    enabled => \A w \in Workers :
        entry[w].state # CLOSED <=> entry[w].failures = FailureThreshold

\* The probe slot and the backed-off cooldown belong to the outage: a closed
\* worker holds neither, and a claim never survives a return to open, so the
\* next outage starts from the configured cooldown with a free slot.
OutageStateIsReset ==
    \A w \in Workers :
        /\ entry[w].slot > 0 => entry[w].state = HALF_OPEN
        /\ entry[w].state = CLOSED => entry[w].next = Cooldown
        /\ entry[w].cool <= entry[w].next \/ entry[w].state = CLOSED

\* No claim, lost outcome or failure wedges a worker: a fleet member is again
\* and again offered to the policy, or dispatched to when nothing else is
\* left (probe_timeout and the all-open fallback of filter).
NeverWedged ==
    \A w \in Workers :
        \/ []<>(w \in fleet => w \in filter(fleet))
        \/ []<><<\E r \in Calls : ~InFlight(r) /\ req'[r] # Idle
                                     /\ req'[r].worker = w>>_breakerVars
=============================================================================
