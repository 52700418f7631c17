------------------------- MODULE DisaggRouterProofs -------------------------
(***************************************************************************)
(* The router of prefill and decode pairs, for any number of requests in   *)
(* any of its modes, and the circuit breaker it reports to, for any fleet  *)
(* and any configuration.                                                  *)
(*                                                                         *)
(* Nothing one request does is seen by another but through the counters of *)
(* the policy.  So the router's invariant has two parts: what is known of  *)
(* each request by itself, and the account that adds them up.              *)
(***************************************************************************)
EXTENDS DisaggRouter, CircuitBreaker, FiniteSetTheorems, TLAPS

-----------------------------------------------------------------------------
(* The breaker. *)

\* What one entry satisfies, whatever was reported about its worker.
GoodEntry(e) ==
    /\ e \in Entry
    /\ enabled => (e.state # CLOSED <=> e.failures = FailureThreshold)
    /\ e.slot > 0 => e.state = HALF_OPEN
    /\ e.state = CLOSED => e.next = Cooldown
    /\ e.cool <= e.next \/ e.state = CLOSED

\* The breaker's inductive invariant: every entry is good.
BreakerInv ==
    /\ fleet \in SUBSET Workers
    /\ req \in [Calls -> Dispatches \cup {Idle}]
    /\ entry \in [Workers -> Entry]
    /\ \A w \in Workers : GoodEntry(entry[w])

\* Both configured times fit in the longest exclusion.
LEMMA LongestBounds == Longest \in Nat /\ Cooldown <= Longest /\ MaxCooldown <= Longest
  BY BreakerConfig DEF Longest

\* A worker without an entry is good.
LEMMA FreshGood == GoodEntry(Fresh)
  BY BreakerConfig, LongestBounds DEF GoodEntry, Fresh, Entry, States, CLOSED, OPEN, HALF_OPEN, enabled

\* Asking for a candidate (allows) keeps an entry good.
LEMMA AllowsGood ==
  ASSUME NEW e, GoodEntry(e)
  PROVE  GoodEntry(AfterAllows(e))
  BY BreakerConfig, LongestBounds
     DEF GoodEntry, AfterAllows, Claims, allows, Entry, States, CLOSED, OPEN, HALF_OPEN, enabled

\* record_success keeps an entry good: it clears all the outage left.
LEMMA SuccessGood ==
  ASSUME NEW e, GoodEntry(e)
  PROVE  GoodEntry(AfterSuccess(e))
  BY BreakerConfig, LongestBounds
     DEF GoodEntry, AfterSuccess, Entry, States, CLOSED, OPEN, HALF_OPEN, enabled

\* record_neutral keeps an entry good: it only frees the slot.
LEMMA NeutralGood ==
  ASSUME NEW e, GoodEntry(e)
  PROVE  GoodEntry(AfterNeutral(e))
  BY BreakerConfig, LongestBounds
     DEF GoodEntry, AfterNeutral, Entry, States, CLOSED, OPEN, HALF_OPEN, enabled

\* Time keeps an entry good.
LEMMA TickGood ==
  ASSUME NEW e, GoodEntry(e)
  PROVE  GoodEntry(AfterTick(e))
  BY BreakerConfig, LongestBounds
     DEF GoodEntry, AfterTick, Elapse, Entry, States, CLOSED, OPEN, HALF_OPEN, enabled

\* record_failure keeps an entry good, whatever state it finds.
LEMMA FailureGood ==
  ASSUME NEW e, GoodEntry(e)
  PROVE  GoodEntry(AfterFailure(e))
  BY BreakerConfig, LongestBounds
     DEF GoodEntry, AfterFailure, Opened, Least, Entry, States, CLOSED, OPEN, HALF_OPEN, enabled

-----------------------------------------------------------------------------

\* No entry is kept before the first request.
LEMMA InitBreakerInv == BreakerInit => BreakerInv
  BY Zenon, FreshGood DEF BreakerInit, BreakerInv, GoodEntry

\* A request in flight names a worker.
LEMMA InFlightTyped ==
  ASSUME BreakerInv, NEW r \in Calls, InFlight(r)
  PROVE  req[r] \in Dispatches /\ req[r].worker \in Workers
  BY Zenon DEF BreakerInv, InFlight, Dispatches

\* An outcome that leaves a good entry for its worker leaves all of them good.
LEMMA OutcomeGood ==
  ASSUME BreakerInv, NEW r \in Calls, InFlight(r), NEW e, GoodEntry(e), Outcome(r, e)
  PROVE  entry' \in [Workers -> Entry] /\ \A w \in Workers : GoodEntry(entry[w])'
<1>1. req[r].worker \in Workers
  BY Zenon, InFlightTyped
<1>2. e \in Entry
  BY Zenon DEF GoodEntry
<1>3. \A w \in Workers : entry'[w] = e \/ entry'[w] = entry[w]
  BY Zenon, <1>1 DEF Outcome, BreakerInv
<1>4. entry' \in [Workers -> Entry]
  BY Zenon, <1>1, <1>2 DEF Outcome, BreakerInv
<1> QED
  BY Zenon, <1>3, <1>4 DEF BreakerInv, GoodEntry

\* Every step of a router, of the registry and of the clock keeps the invariant.
LEMMA NextBreakerInv == BreakerInv /\ [BreakerNext]_breakerVars => BreakerInv'
<1> SUFFICES ASSUME BreakerInv, [BreakerNext]_breakerVars PROVE BreakerInv'
  BY Zenon
<1>1. ASSUME NEW r \in Calls, NEW ws \in SUBSET fleet, NEW w \in ws, Dispatch(r, ws, w)
      PROVE  BreakerInv'
  <2>1. w \in Workers /\ req' \in [Calls -> Dispatches \cup {Idle}]
    BY <1>1, BreakerConfig DEF BreakerInv, Dispatch, Dispatches
  <2>2. \A x \in Workers : entry'[x] = entry[x] \/ entry'[x] = AfterAllows(entry[x])
    BY Zenon, <1>1 DEF Dispatch
  <2>3. \A x \in Workers : GoodEntry(entry'[x])
    BY Zenon, <2>2, AllowsGood DEF BreakerInv
  <2>4. entry' \in [Workers -> Entry]
    <3>1. entry' = [x \in Workers |-> IF x \in ws THEN AfterAllows(entry[x]) ELSE entry[x]]
      BY Zenon, <1>1 DEF Dispatch
    <3>2. \A x \in Workers : entry'[x] \in Entry
      BY Zenon, <2>3 DEF GoodEntry
    <3> QED
      BY Zenon, <3>1, <3>2
  <2> QED
    BY Zenon, <1>1, <2>1, <2>3, <2>4 DEF BreakerInv, Dispatch, GoodEntry
<1>2. ASSUME NEW r \in Calls, record_success(r) PROVE BreakerInv'
  <2>1. GoodEntry(AfterSuccess(entry[req[r].worker]))
    BY Zenon, <1>2, InFlightTyped, SuccessGood DEF record_success, BreakerInv
  <2> QED
    BY Zenon, <1>2, <2>1, OutcomeGood DEF record_success, BreakerInv, GoodEntry
<1>3. ASSUME NEW r \in Calls, record_neutral(r) PROVE BreakerInv'
  <2>1. GoodEntry(AfterNeutral(entry[req[r].worker]))
    BY Zenon, <1>3, InFlightTyped, NeutralGood DEF record_neutral, BreakerInv
  <2> QED
    BY Zenon, <1>3, <2>1, OutcomeGood DEF record_neutral, BreakerInv, GoodEntry
<1>4. ASSUME NEW r \in Calls, ScoreHeaders(r) PROVE BreakerInv'
  <2>1. GoodEntry(AfterNeutral(entry[req[r].worker]))
    BY Zenon, <1>4, InFlightTyped, NeutralGood DEF ScoreHeaders, BreakerInv
  <2> QED
    BY Zenon, <1>4, <2>1, OutcomeGood DEF ScoreHeaders, BreakerInv, GoodEntry
<1>5. ASSUME NEW r \in Calls, record_failure(r) PROVE BreakerInv'
  <2>1. GoodEntry(AfterFailure(entry[req[r].worker])) /\ req[r].worker \in Workers
    BY Zenon, <1>5, InFlightTyped, FailureGood DEF record_failure, BreakerInv
  <2> QED
    BY Zenon, <1>5, <2>1, OutcomeGood DEF record_failure, BreakerInv, GoodEntry
<1>6. ASSUME NEW r \in Calls, Abandon(r) PROVE BreakerInv'
  BY Zenon, <1>6 DEF Abandon, BreakerInv, GoodEntry
<1>7. ASSUME NEW w \in Workers, forget(w) PROVE BreakerInv'
  <2>1. Fresh \in Entry
    BY Zenon, FreshGood DEF GoodEntry
  <2>2. \A x \in Workers : entry'[x] = Fresh \/ entry'[x] = entry[x]
    BY Zenon, <1>7 DEF forget, BreakerInv
  <2>3. entry' \in [Workers -> Entry]
    BY Zenon, <1>7, <2>1 DEF forget, BreakerInv
  <2> QED
    BY Zenon, <1>7, <2>2, <2>3, FreshGood DEF forget, BreakerInv, GoodEntry
<1>8. ASSUME NEW w \in Workers, Join(w) PROVE BreakerInv'
  BY Zenon, <1>8 DEF Join, BreakerInv, GoodEntry
<1>9. CASE Tick
  <2>1. \A w \in Workers : GoodEntry(entry'[w])
    BY Zenon, <1>9, TickGood DEF Tick, BreakerInv
  <2>2. entry' \in [Workers -> Entry]
    <3>1. \A w \in Workers : entry'[w] \in Entry
      BY Zenon, <2>1 DEF GoodEntry
    <3> QED
      BY Zenon, <1>9, <3>1 DEF Tick
  <2>3. req' \in [Calls -> Dispatches \cup {Idle}]
    <3>1. ASSUME NEW r \in Calls
          PROVE  [req[r] EXCEPT !.claim = Elapse(req[r].claim)] \in Dispatches \cup {Idle}
      <4>1. CASE req[r] = Idle
        BY <4>1 DEF Idle, Elapse
      <4>2. CASE req[r] \in Dispatches
        BY <4>2, BreakerConfig DEF Dispatches, Elapse
      <4> QED
        BY Zenon, <4>1, <4>2 DEF BreakerInv
    <3> QED
      BY Zenon, <1>9, <3>1 DEF Tick
  <2> QED
    BY Zenon, <1>9, <2>1, <2>2, <2>3 DEF Tick, BreakerInv, GoodEntry
<1>10. CASE UNCHANGED breakerVars
  BY Zenon, <1>10 DEF breakerVars, BreakerInv, GoodEntry
<1> QED
  BY Zenon, <1>1, <1>2, <1>3, <1>4, <1>5, <1>6, <1>7, <1>8, <1>9, <1>10 DEF BreakerNext

\* The properties the runs check follow from the invariant.
LEMMA BreakerInvImplies == BreakerInv => BreakerTypeOK /\ ExclusionEarned /\ OutageStateIsReset
  BY Zenon DEF BreakerInv, GoodEntry, BreakerTypeOK, ExclusionEarned, OutageStateIsReset

\* The inductive invariant holds in every behaviour of the breaker.
LEMMA BreakerInvariant == BreakerSpec => []BreakerInv
  BY InitBreakerInv, NextBreakerInv, PTL DEF BreakerSpec

\* Whatever is dispatched, reported, forgotten or timed out, the breaker's
\* state stays well typed; in particular no exclusion outlasts both
\* the configured cooldown and max_cooldown, whichever of them is larger.
THEOREM BreakerTypeCorrect == BreakerSpec => []BreakerTypeOK
  BY BreakerInvariant, BreakerInvImplies, PTL

\* A worker is out of rotation exactly while its consecutive failures stand at
\* the threshold (record_failure, record_success).
THEOREM ExclusionIsEarned == BreakerSpec => []ExclusionEarned
  BY BreakerInvariant, BreakerInvImplies, PTL

\* Probe claims and backed-off cooldowns do not outlive the outage they belong
\* to (record_success, _open).
THEOREM OutageStateResets == BreakerSpec => []OutageStateIsReset
  BY BreakerInvariant, BreakerInvImplies, PTL

-----------------------------------------------------------------------------
(* One request. *)

LegStates == Answers \cup {"none", "open", "closed", "timedout"}
EngineStates == {"idle", "running", "told", "over"}
Verdicts == {"success", "failure", "neutral"}

\* What is known of one request.
Typed(r) ==
    /\ mode[r] \in AllModes
    /\ pc[r] \in Live \cup {"idle", "over"}
    /\ leg[r] \in [Legs -> LegStates]
    /\ engine[r] \in [Legs -> EngineStates]
    /\ tries[r] \in 0..MaxOpenRetries
    /\ admits[r] \in 0..1
    /\ served[r] \in BOOLEAN
    /\ done[r] \in BOOLEAN
    /\ verdict[r] \in [Legs -> SUBSET Verdicts]

\* The decode of r has been heard to the end.
Heard(r) == IF mode[r].stream THEN done[r] ELSE leg[r]["d"] \in Answers

\* Where a request is tells what its two legs are doing.
Shape(r) ==
    /\ pc[r] \in {"idle", "admit"} => leg[r]["p"] = "none" /\ leg[r]["d"] = "none"
    /\ pc[r] = "admit" => mode[r].nats
    /\ pc[r] = "prefill" =>
          mode[r].serial /\ leg[r]["p"] = "open" /\ leg[r]["d"] = "none"
    /\ pc[r] = "both" =>
          ~mode[r].serial /\ ~mode[r].nats /\ \A l \in Legs : leg[r][l] \in Answers \cup {"open"}
    /\ pc[r] = "opening" => mode[r].stream /\ leg[r]["d"] = "none"
    /\ pc[r] = "stream" => mode[r].stream /\ leg[r]["d"] = "open"
    /\ pc[r] = "wait" =>
          ~mode[r].stream /\ (mode[r].serial \/ mode[r].nats) /\ leg[r]["d"] = "open"
    /\ pc[r] \in {"opening", "stream", "wait"} /\ mode[r].serial => leg[r]["p"] # "open"
    /\ pc[r] \in {"abort", "nabort", "drain", "reap"} => ~mode[r].serial /\ leg[r]["d"] # "open"
    /\ pc[r] \in {"abort", "reap"} => leg[r]["p"] # "open"
    /\ pc[r] = "nabort" => ~mode[r].stream
    /\ pc[r] \in {"nabort", "drain", "reap"} => Heard(r)
    /\ pc[r] = "over" => leg[r]["d"] # "open" /\ (leg[r]["p"] = "open" => Heard(r))
    /\ pc[r] \in {"idle", "admit", "prefill", "opening"} => admits[r] = 0

\* Who runs is listened to.
Watched(r) == \A l \in Legs : engine[r][l] = "running" => leg[r][l] = "open"

\* ScoredByItself, of one request.
Fair(r) ==
    \A l \in Legs :
        /\ "success" \in verdict[r][l] => leg[r][l] = "ok" \/ (l = "d" /\ served[r])
        /\ "failure" \in verdict[r][l] => leg[r][l] \in {"fault", "lost", "timedout"}

Maps ==
    /\ mode \in [Requests -> AllModes]
    /\ pc \in [Requests -> Live \cup {"idle", "over"}]
    /\ leg \in [Requests -> [Legs -> LegStates]]
    /\ engine \in [Requests -> [Legs -> EngineStates]]
    /\ tries \in [Requests -> 0..MaxOpenRetries]
    /\ admits \in [Requests -> 0..1]
    /\ served \in [Requests -> BOOLEAN]
    /\ done \in [Requests -> BOOLEAN]
    /\ verdict \in [Requests -> [Legs -> SUBSET Verdicts]]

Known(r) == Typed(r) /\ Shape(r) /\ Watched(r) /\ Fair(r)

CallInv == Maps /\ \A r \in Requests : Known(r)

\* Of the requests, only r takes part in the step.
Only(r) ==
    /\ mode' = [mode EXCEPT ![r] = mode'[r]]
    /\ pc' = [pc EXCEPT ![r] = pc'[r]]
    /\ leg' = [leg EXCEPT ![r] = leg'[r]]
    /\ engine' = [engine EXCEPT ![r] = engine'[r]]
    /\ tries' = [tries EXCEPT ![r] = tries'[r]]
    /\ admits' = [admits EXCEPT ![r] = admits'[r]]
    /\ served' = [served EXCEPT ![r] = served'[r]]
    /\ done' = [done EXCEPT ![r] = done'[r]]
    /\ verdict' = [verdict EXCEPT ![r] = verdict'[r]]

\* A step of one request leaves what is known of the others.
LEMMA OneByOne ==
  ASSUME CallInv, NEW r \in Requests, Only(r), Known(r)'
  PROVE  CallInv'
<1>1. Maps'
  BY Zenon DEF CallInv, Only, Known, Typed, Maps
<1>2. ASSUME NEW x \in Requests, x # r PROVE Known(x)'
  <2>1. /\ mode'[x] = mode[x] /\ pc'[x] = pc[x] /\ leg'[x] = leg[x] /\ engine'[x] = engine[x]
        /\ tries'[x] = tries[x] /\ admits'[x] = admits[x] /\ served'[x] = served[x]
        /\ done'[x] = done[x] /\ verdict'[x] = verdict[x]
    BY Zenon, <1>2 DEF CallInv, Only, Maps
  <2>2. Known(x)
    BY Zenon DEF CallInv
  <2>3. Typed(x)'
    BY Zenon, <2>1, <2>2 DEF Known, Typed
  <2>4. Shape(x)'
    BY Zenon, <2>1, <2>2 DEF Known, Shape, Heard
  <2>5. Watched(x)'
    BY Zenon, <2>1, <2>2 DEF Known, Watched
  <2>6. Fair(x)'
    <3>1. leg'[x] = leg[x] /\ served'[x] = served[x] /\ verdict'[x] = verdict[x] /\ Fair(x)
      BY Zenon, <2>1, <2>2 DEF Known
    <3> QED BY <3>1 DEF Fair
  <2>q. QED
    BY Zenon, <2>3, <2>4, <2>5, <2>6 DEF Known
<1>q. QED
  BY Zenon, <1>1, <1>2 DEF CallInv

\* Steps that only move the request on: what an engine still runs when it ends
\* so has been heard to the end of its decode.
LEMMA MovesKnown ==
  ASSUME CallInv, NEW r \in Requests,
         \/ reject(r) \/ refuse(r) \/ aborted(r) \/ pair_aborted(r) \/ reaped(r)
         \/ drop_draining(r) \/ drop_unguarded(r)
  PROVE  CallInv'
<1>1. Maps /\ Known(r)
  BY Zenon DEF CallInv
<1>2. Only(r)
  BY Zenon, <1>1, DisaggConfig DEF reject, refuse, aborted, pair_aborted, reaped,
                                   drop_draining, drop_unguarded, Goto, Become, Release, Leak,
                                   Send, callVars, Legs, Only, Maps
<1>3. Typed(r)'
  BY Zenon, <1>1, DisaggConfig DEF reject, refuse, aborted, pair_aborted, reaped,
                                   drop_draining, drop_unguarded, Goto, Become, Release, Leak,
                                   Send, callVars, Legs, Maps, Known, Typed, Shape, Answers,
                                   Live, LegStates, EngineStates, Verdicts
<1>4. Shape(r)'
  BY ZenonT(30), <1>1 DEF reject, refuse, aborted, pair_aborted, reaped, drop_draining,
                          drop_unguarded, Goto, Become, Release, Leak, Send, callVars, Legs,
                          Maps, Known, Typed, Shape, Heard, Answers, Live, LegStates,
                          EngineStates, Verdicts
<1>5. Watched(r)'
  BY Zenon, <1>1 DEF reject, refuse, aborted, pair_aborted, reaped, drop_draining,
                     drop_unguarded, Goto, Become, Release, Leak, Send, callVars, Legs, Maps,
                     Known, Typed, Shape, Watched, Answers, Live, LegStates, EngineStates,
                     Verdicts
<1>6. Fair(r)'
  BY Zenon, <1>1 DEF reject, refuse, aborted, pair_aborted, reaped, drop_draining,
                     drop_unguarded, Goto, Become, Release, Leak, Send, callVars, Legs, Maps,
                     Known, Typed, Shape, Fair, Answers, Live, LegStates, EngineStates, Verdicts
<1> QED BY Zenon, <1>2, <1>3, <1>4, <1>5, <1>6, OneByOne DEF Known

\* dispatch: what is sent depends on where the request waits first.
LEMMA DispatchKnown ==
  ASSUME CallInv, NEW r \in Requests,
         dispatch(r)
  PROVE  CallInv'
<1>1. Maps /\ Known(r)
  BY Zenon DEF CallInv
<1>2. Only(r)
  BY Zenon, <1>1, DisaggConfig DEF dispatch, Goto, Become, Send, Legs, Only, Maps
<1>3. Typed(r)'
  BY <1>1, DisaggConfig DEF dispatch, Goto, Become, Send, Legs, Maps, Known, Typed, Shape,
                            Answers, Live, LegStates, EngineStates, Verdicts
<1>4. Shape(r)'
  <2>1. mode' = mode /\ mode[r] \in AllModes /\ done' = done
    BY Zenon, <1>1 DEF dispatch, Known, Typed
  <2>2. leg[r]["p"] = "none" /\ leg[r]["d"] = "none" /\ admits[r] = 0
    BY Zenon, <1>1 DEF Known, Shape, dispatch
  <2>3. pc'[r] = (IF mode[r].serial THEN "prefill"
                  ELSE IF mode[r].nats THEN "admit"
                  ELSE IF mode[r].stream THEN "opening" ELSE "both")
    BY Zenon, <1>1 DEF dispatch, Become, Maps
  <2>4. /\ leg'[r]["p"] = IF mode[r].nats THEN "none" ELSE "open"
        /\ leg'[r]["d"] = IF mode[r].nats \/ mode[r].serial \/ mode[r].stream THEN "none" ELSE "open"
        /\ admits'[r] = IF mode[r].nats \/ mode[r].serial \/ mode[r].stream THEN 0 ELSE 1
    BY <1>1, <2>2 DEF dispatch, Send, Maps, Legs
  <2>5. mode[r].serial => ~mode[r].nats
    BY Zenon, <2>1 DEF AllModes
  <2> QED BY Zenon, <2>1, <2>3, <2>4, <2>5 DEF Shape, Legs
<1>5. Watched(r)'
  BY Zenon, <1>1 DEF dispatch, Goto, Become, Send, Legs, Maps, Known, Typed, Shape, Watched,
                     Answers, Live, LegStates, EngineStates, Verdicts
<1>6. Fair(r)'
  BY Zenon, <1>1 DEF dispatch, Goto, Become, Send, Legs, Maps, Known, Typed, Shape, Fair,
                     Answers, Live, LegStates, EngineStates, Verdicts
<1> QED BY Zenon, <1>2, <1>3, <1>4, <1>5, <1>6, OneByOne DEF Known

\* Both legs over NATS.
LEMMA AdmitKnown ==
  ASSUME CallInv, NEW r \in Requests,
         admit(r)
  PROVE  CallInv'
<1>1. Maps /\ Known(r)
  BY Zenon DEF CallInv
<1>2. Only(r)
  BY Zenon, <1>1, DisaggConfig DEF admit, Goto, Become, Send, Legs, Only, Maps
<1>3. Typed(r)'
  BY <1>1, DisaggConfig DEF admit, Goto, Become, Send, Legs, Maps, Known, Typed, Shape,
                            Answers, Live, LegStates, EngineStates, Verdicts
<1>4. Shape(r)'
  <2>1. mode' = mode /\ mode[r] \in AllModes /\ mode[r].nats /\ ~mode[r].serial
    BY Zenon, <1>1 DEF admit, Known, Typed, Shape, AllModes
  <2>2. /\ pc'[r] = IF mode[r].stream THEN "stream" ELSE "wait"
        /\ leg'[r]["p"] = "open" /\ leg'[r]["d"] = "open"
    BY Zenon, <1>1 DEF admit, Goto, Become, Send, Maps, Legs
  <2> QED BY Zenon, <2>1, <2>2 DEF Shape
<1>5. Watched(r)'
  BY Zenon, <1>1 DEF admit, Goto, Become, Send, Legs, Maps, Known, Typed, Shape, Watched,
                     Answers, Live, LegStates, EngineStates, Verdicts
<1>6. Fair(r)'
  BY Zenon, <1>1 DEF admit, Goto, Become, Send, Legs, Maps, Known, Typed, Shape, Fair, Answers,
                     Live, LegStates, EngineStates, Verdicts
<1> QED BY Zenon, <1>2, <1>3, <1>4, <1>5, <1>6, OneByOne DEF Known

\* A leg that was open is answered, also after the request is over.
LEMMA AnsweredKnown ==
  ASSUME CallInv, NEW r \in Requests, NEW l \in Legs, NEW a \in Answers,
         answered(r, l, a)
  PROVE  CallInv'
<1>1. Maps /\ Known(r)
  BY Zenon DEF CallInv
<1>2. Only(r)
  BY Zenon, <1>1, DisaggConfig DEF answered, score_leg, Legs, Only, Maps
<1>3. Typed(r)'
  BY Zenon, <1>1, DisaggConfig DEF answered, score_leg, Legs, Maps, Known, Typed, Shape,
                                   Answers, Live, LegStates, EngineStates, Verdicts
<1>4. Shape(r)'
  BY Zenon, <1>1 DEF answered, score_leg, Legs, Maps, Known, Typed, Shape, Heard, Answers,
                     Live, LegStates, EngineStates, Verdicts
<1>5. Watched(r)'
  BY Zenon, <1>1 DEF answered, score_leg, Legs, Maps, Known, Typed, Shape, Watched, Answers,
                     Live, LegStates, EngineStates, Verdicts
<1>6. Fair(r)'
  BY Zenon, <1>1 DEF answered, score_leg, Legs, Maps, Known, Typed, Shape, Fair, Answers, Live,
                     LegStates, EngineStates, Verdicts
<1> QED BY Zenon, <1>2, <1>3, <1>4, <1>5, <1>6, OneByOne DEF Known

\* A unary pair: both have answered, so each is scored by its answer.
LEMMA GatheredKnown ==
  ASSUME CallInv, NEW r \in Requests,
         gathered(r)
  PROVE  CallInv'
<1>1. Maps /\ Known(r)
  BY Zenon DEF CallInv
<1>2. Only(r)
  <2>1. verdict' = [verdict EXCEPT ![r] = verdict'[r]]
    BY ZenonT(30), <1>1 DEF gathered, score_leg, Maps, Legs
  <2>2. pc' = [pc EXCEPT ![r] = pc'[r]]
    BY Zenon, <1>1 DEF gathered, Goto, Release, Become, Maps
  <2> QED BY Zenon, <1>1, <2>1, <2>2 DEF gathered, Only, Maps
<1>3. Typed(r)'
  <2>1. pc'[r] \in Live \cup {"idle", "over"}
    BY Zenon, <1>1 DEF gathered, Goto, Become, Release, Maps, Live
  <2>2. verdict'[r] \in [Legs -> SUBSET Verdicts]
    <3> DEFINE All == [Requests -> [Legs -> SUBSET Verdicts]]
    <3>1. ASSUME NEW v \in All, NEW l \in Legs, NEW a PROVE score_leg(v, r, l, a) \in All
      BY DEF score_leg, Verdicts
    <3>2. verdict \in All /\ "p" \in Legs /\ "d" \in Legs
      BY Zenon, <1>1 DEF Maps, Legs
    <3> HIDE DEF All
    <3>3. verdict' \in All
      BY Zenon, <3>1, <3>2 DEF gathered
    <3> QED BY Zenon, <3>3 DEF All
  <2> QED BY Zenon, <1>1, <2>1, <2>2 DEF gathered, Known, Typed
<1>4. Shape(r)'
  BY ZenonT(30), <1>1 DEF gathered, Goto, Become, Release, score_leg, Legs, Maps, Known, Typed,
                          Shape, Heard, Answers, Live, LegStates, EngineStates, Verdicts
<1>5. Watched(r)'
  BY Zenon, <1>1 DEF gathered, Goto, Become, Release, score_leg, Legs, Maps, Known, Typed,
                     Shape, Watched, Answers, Live, LegStates, EngineStates, Verdicts
<1>6. Fair(r)'
  BY Zenon, <1>1 DEF gathered, Goto, Become, Release, score_leg, Legs, Maps, Known, Typed,
                     Shape, Fair, Answers, Live, LegStates, EngineStates, Verdicts
<1> QED BY Zenon, <1>2, <1>3, <1>4, <1>5, <1>6, OneByOne DEF Known

\* The decode of a serial pair is given the request for the first time.
LEMMA HandoffKnown ==
  ASSUME CallInv, NEW r \in Requests,
         handoff(r)
  PROVE  CallInv'
<1>1. Maps /\ Known(r)
  BY Zenon DEF CallInv
<1>2. Only(r)
  BY Zenon, <1>1, DisaggConfig DEF handoff, Finish, Become, score_leg, Legs, Only, Maps
<1>3. Typed(r)'
  BY <1>1, DisaggConfig DEF handoff, Finish, Become, score_leg, Legs, Maps, Known, Typed,
                            Shape, Answers, Live, LegStates, EngineStates, Verdicts
<1>4. Shape(r)'
  BY Zenon, <1>1 DEF handoff, Finish, Become, score_leg, Legs, Maps, Known, Typed, Shape,
                     Heard, Answers, Live, LegStates, EngineStates, Verdicts
<1>5. Watched(r)'
  BY <1>1 DEF handoff, Finish, Become, score_leg, Legs, Maps, Known, Typed, Shape, Watched,
              Answers, Live, LegStates, EngineStates, Verdicts
<1>6. Fair(r)'
  BY <1>1 DEF handoff, Finish, Become, score_leg, Legs, Maps, Known, Typed, Shape, Fair,
              Answers, Live, LegStates, EngineStates, Verdicts
<1> QED BY Zenon, <1>2, <1>3, <1>4, <1>5, <1>6, OneByOne DEF Known

\* A failed serial prefill leaves a decode that was never sent.
LEMMA PrefillFailedKnown ==
  ASSUME CallInv, NEW r \in Requests, NEW a \in Answers,
         prefill_failed(r, a)
  PROVE  CallInv'
<1>1. Maps /\ Known(r)
  BY Zenon DEF CallInv
<1>2. Only(r)
  BY Zenon, <1>1, DisaggConfig DEF prefill_failed, Become, Release, score_leg, Legs, Only, Maps
<1>3. Typed(r)'
  BY Zenon, <1>1, DisaggConfig DEF prefill_failed, Become, Release, score_leg, Legs, Maps,
                                   Known, Typed, Shape, Answers, Live, LegStates, EngineStates,
                                   Verdicts
<1>4. Shape(r)'
  BY Zenon, <1>1 DEF prefill_failed, Become, Release, score_leg, Legs, Maps, Known, Typed,
                     Shape, Heard, Answers, Live, LegStates, EngineStates, Verdicts
<1>5. Watched(r)'
  BY Zenon, <1>1 DEF prefill_failed, Become, Release, score_leg, Legs, Maps, Known, Typed,
                     Shape, Watched, Answers, Live, LegStates, EngineStates, Verdicts
<1>6. Fair(r)'
  BY Zenon, <1>1 DEF prefill_failed, Become, Release, score_leg, Legs, Maps, Known, Typed,
                     Shape, Fair, Answers, Live, LegStates, EngineStates, Verdicts
<1> QED BY Zenon, <1>2, <1>3, <1>4, <1>5, <1>6, OneByOne DEF Known

\* A retried connection: the engine has not been given the request.
LEMMA RetryKnown ==
  ASSUME CallInv, NEW r \in Requests,
         open_retry(r)
  PROVE  CallInv'
<1>1. Maps /\ Known(r)
  BY Zenon DEF CallInv
<1>2. Only(r)
  BY Zenon, <1>1, DisaggConfig DEF open_retry, Legs, Only, Maps
<1>3. Typed(r)'
  BY <1>1, DisaggConfig DEF open_retry, Legs, Maps, Known, Typed, Shape, Answers, Live,
                            LegStates, EngineStates, Verdicts
<1>4. Shape(r)'
  BY Zenon, <1>1 DEF open_retry, Legs, Maps, Known, Typed, Shape, Heard, Answers, Live,
                     LegStates, EngineStates, Verdicts
<1>5. Watched(r)'
  BY Zenon, <1>1 DEF open_retry, Legs, Maps, Known, Typed, Shape, Watched, Answers, Live,
                     LegStates, EngineStates, Verdicts
<1>6. Fair(r)'
  BY Zenon, <1>1 DEF open_retry, Legs, Maps, Known, Typed, Shape, Fair, Answers, Live,
                     LegStates, EngineStates, Verdicts
<1> QED BY Zenon, <1>2, <1>3, <1>4, <1>5, <1>6, OneByOne DEF Known

\* Data of the stream: a success is one of a worker that has delivered.
LEMMA ChunkKnown ==
  ASSUME CallInv, NEW r \in Requests, NEW m \in BOOLEAN,
         chunk(r, m)
  PROVE  CallInv'
<1>1. Maps /\ Known(r)
  BY Zenon DEF CallInv
<1>2. Only(r)
  BY Zenon, <1>1, DisaggConfig DEF chunk, score_leg, Legs, Only, Maps
<1>3. Typed(r)'
  BY Zenon, <1>1, DisaggConfig DEF chunk, score_leg, Legs, Maps, Known, Typed, Shape, Answers,
                                   Live, LegStates, EngineStates, Verdicts
<1>4. Shape(r)'
  BY Zenon, <1>1 DEF chunk, score_leg, Legs, Maps, Known, Typed, Shape, Heard, Answers, Live,
                     LegStates, EngineStates, Verdicts
<1>5. Watched(r)'
  BY Zenon, <1>1 DEF chunk, score_leg, Legs, Maps, Known, Typed, Shape, Watched, Answers, Live,
                     LegStates, EngineStates, Verdicts
<1>6. Fair(r)'
  BY Zenon, <1>1 DEF chunk, score_leg, Legs, Maps, Known, Typed, Shape, Fair, Answers, Live,
                     LegStates, EngineStates, Verdicts
<1> QED BY Zenon, <1>2, <1>3, <1>4, <1>5, <1>6, OneByOne DEF Known

\* The answer of a unary decode.
LEMMA DecodedKnown ==
  ASSUME CallInv, NEW r \in Requests, NEW a \in Answers,
         decoded(r, a)
  PROVE  CallInv'
<1>1. Maps /\ Known(r)
  BY Zenon DEF CallInv
<1>2. Only(r)
  BY Zenon, <1>1, DisaggConfig DEF decoded, Goto, Become, Release, Tell, score_leg, abort_pair,
                                   Legs, Only, Maps
<1>3. Typed(r)'
  BY <1>1, DisaggConfig DEF decoded, Goto, Become, Release, Tell, score_leg, abort_pair, Legs,
                            Maps, Known, Typed, Shape, Answers, Live, LegStates, EngineStates,
                            Verdicts
<1>4. Shape(r)'
  <2>1. mode' = mode /\ mode[r] \in AllModes /\ done' = done /\ ~mode[r].stream
    BY Zenon, <1>1 DEF decoded, Known, Typed, Shape
  <2>2. pc'[r] = IF mode[r].serial THEN "over" ELSE IF a \in {"ok", "bad"} THEN "drain" ELSE "nabort"
    BY Zenon, <1>1, <2>1 DEF decoded, Goto, Release, Become, Maps, Known, Shape, AllModes,
                             Answers
  <2>3. leg'[r]["d"] = a /\ leg'[r]["p"] = leg[r]["p"] /\ (mode[r].serial => leg[r]["p"] # "open")
    BY Zenon, <1>1 DEF decoded, Maps, Legs, Known, Shape
  <2> QED BY Zenon, <2>1, <2>2, <2>3 DEF Shape, Heard, Answers
<1>5. Watched(r)'
  BY <1>1 DEF decoded, Goto, Become, Release, Tell, score_leg, abort_pair, Legs, Maps, Known,
              Typed, Shape, Watched, Answers, Live, LegStates, EngineStates, Verdicts
<1>6. Fair(r)'
  BY Zenon, <1>1 DEF decoded, Goto, Become, Release, Tell, score_leg, abort_pair, Legs, Maps,
                     Known, Typed, Shape, Fair, Answers, Live, LegStates, EngineStates, Verdicts
<1> QED BY Zenon, <1>2, <1>3, <1>4, <1>5, <1>6, OneByOne DEF Known

\* An answer that is no JSON.
LEMMA GarbledKnown ==
  ASSUME CallInv, NEW r \in Requests,
         garbled(r)
  PROVE  CallInv'
<1>1. Maps /\ Known(r)
  BY Zenon DEF CallInv
<1>2. Only(r)
  BY Zenon, <1>1, DisaggConfig DEF garbled, Goto, Become, Tell, abort_pair, Legs, Only, Maps
<1>3. Typed(r)'
  BY Zenon, <1>1, DisaggConfig DEF garbled, Goto, Become, Tell, abort_pair, Legs, Maps, Known,
                                   Typed, Shape, Answers, Live, LegStates, EngineStates,
                                   Verdicts
<1>4. Shape(r)'
  <2>1. mode' = mode /\ mode[r] \in AllModes /\ done' = done /\ ~mode[r].stream /\ ~mode[r].serial
    BY Zenon, <1>1 DEF garbled, Known, Typed, Shape, AllModes
  <2>2. pc'[r] = "nabort" /\ leg'[r]["d"] = "ok"
    BY Zenon, <1>1 DEF garbled, Goto, Become, Maps, Legs
  <2> QED BY Zenon, <2>1, <2>2 DEF Shape, Heard, Answers
<1>5. Watched(r)'
  BY Zenon, <1>1 DEF garbled, Goto, Become, Tell, abort_pair, Legs, Maps, Known, Typed, Shape,
                     Watched, Answers, Live, LegStates, EngineStates, Verdicts
<1>6. Fair(r)'
  BY Zenon, <1>1 DEF garbled, Goto, Become, Tell, abort_pair, Legs, Maps, Known, Typed, Shape,
                     Fair, Answers, Live, LegStates, EngineStates, Verdicts
<1> QED BY Zenon, <1>2, <1>3, <1>4, <1>5, <1>6, OneByOne DEF Known

\* The prefill has answered by itself.
LEMMA DrainedKnown ==
  ASSUME CallInv, NEW r \in Requests,
         drained(r)
  PROVE  CallInv'
<1>1. Maps /\ Known(r)
  BY Zenon DEF CallInv
<1>2. Only(r)
  BY Zenon, <1>1, DisaggConfig DEF drained, Become, Release, score_leg, Legs, Only, Maps
<1>3. Typed(r)'
  BY Zenon, <1>1, DisaggConfig DEF drained, Become, Release, score_leg, Legs, Maps, Known,
                                   Typed, Shape, Answers, Live, LegStates, EngineStates,
                                   Verdicts
<1>4. Shape(r)'
  BY Zenon, <1>1 DEF drained, Become, Release, score_leg, Legs, Maps, Known, Typed, Shape,
                     Heard, Answers, Live, LegStates, EngineStates, Verdicts
<1>5. Watched(r)'
  BY Zenon, <1>1 DEF drained, Become, Release, score_leg, Legs, Maps, Known, Typed, Shape,
                     Watched, Answers, Live, LegStates, EngineStates, Verdicts
<1>6. Fair(r)'
  BY Zenon, <1>1 DEF drained, Become, Release, score_leg, Legs, Maps, Known, Typed, Shape,
                     Fair, Answers, Live, LegStates, EngineStates, Verdicts
<1> QED BY Zenon, <1>2, <1>3, <1>4, <1>5, <1>6, OneByOne DEF Known

\* The prefill is given up, and its engine told.
LEMMA TimeoutKnown ==
  ASSUME CallInv, NEW r \in Requests,
         drain_timeout(r)
  PROVE  CallInv'
<1>1. Maps /\ Known(r)
  BY Zenon DEF CallInv
<1>2. Only(r)
  BY Zenon, <1>1, DisaggConfig DEF drain_timeout, Goto, Become, Release, Tell, score_leg,
                                   abort_pair, Aborted, Legs, Only, Maps
<1>3. Typed(r)'
  BY Zenon, <1>1, DisaggConfig DEF drain_timeout, Goto, Become, Release, Tell, score_leg,
                                   abort_pair, Aborted, Legs, Maps, Known, Typed, Shape,
                                   Answers, Live, LegStates, EngineStates, Verdicts
<1>4. Shape(r)'
  BY ZenonT(30), <1>1 DEF drain_timeout, Goto, Become, Release, Tell, score_leg, abort_pair,
                          Aborted, Legs, Maps, Known, Typed, Shape, Heard, Answers, Live,
                          LegStates, EngineStates, Verdicts
<1>5. Watched(r)'
  BY Zenon, <1>1 DEF drain_timeout, Goto, Become, Release, Tell, score_leg, abort_pair,
                     Aborted, Legs, Maps, Known, Typed, Shape, Watched, Answers, Live,
                     LegStates, EngineStates, Verdicts
<1>6. Fair(r)'
  BY Zenon, <1>1 DEF drain_timeout, Goto, Become, Release, Tell, score_leg, abort_pair,
                     Aborted, Legs, Maps, Known, Typed, Shape, Fair, Answers, Live, LegStates,
                     EngineStates, Verdicts
<1> QED BY Zenon, <1>2, <1>3, <1>4, <1>5, <1>6, OneByOne DEF Known

\* The client of a serial prefill or a unary request leaves: both engines are told.
LEMMA DropKnown ==
  ASSUME CallInv, NEW r \in Requests,
         drop_prefill(r) \/ drop_unary(r)
  PROVE  CallInv'
<1>1. Maps /\ Known(r)
  BY Zenon DEF CallInv
<1>2. Only(r)
  BY ZenonT(30), <1>1, DisaggConfig DEF drop_prefill, drop_unary, Goto, Become, Release, Tell,
                                        Hang, Legs, Only, Maps
<1>3. Typed(r)'
  BY <1>1, DisaggConfig DEF drop_prefill, drop_unary, Goto, Become, Release, Tell, Hang, Legs,
                            Maps, Known, Typed, Shape, Answers, Live, LegStates, EngineStates,
                            Verdicts
<1>4. Shape(r)'
  BY <1>1 DEF drop_prefill, drop_unary, Goto, Become, Release, Tell, Hang, Legs, Maps, Known,
              Typed, Shape, Heard, Answers, Live, LegStates, EngineStates, Verdicts
<1>5. Watched(r)'
  BY <1>1 DEF drop_prefill, drop_unary, Goto, Become, Release, Tell, Hang, Legs, Maps, Known,
              Typed, Shape, Watched, Answers, Live, LegStates, EngineStates, Verdicts
<1>6. Fair(r)'
  BY SMTT(30), <1>1 DEF drop_prefill, drop_unary, Goto, Become, Release, Tell, Hang, Legs,
                        Maps, Known, Typed, Shape, Fair, Answers, Live, LegStates,
                        EngineStates, Verdicts
<1> QED BY Zenon, <1>2, <1>3, <1>4, <1>5, <1>6, OneByOne DEF Known

\* A new request starts from nothing.
LEMMA AgainKnown ==
  ASSUME CallInv, NEW r \in Requests,
         again(r)
  PROVE  CallInv'
<1>1. Maps /\ Known(r)
  BY Zenon DEF CallInv
<1>2. Only(r)
  BY Zenon, <1>1, DisaggConfig DEF again, Goto, Become, Legs, Only, Maps
<1>3. Typed(r)'
  BY <1>1, DisaggConfig DEF again, Goto, Become, Legs, Maps, Known, Typed, Shape, Answers,
                            Live, LegStates, EngineStates, Verdicts
<1>4. Shape(r)'
  BY Zenon, <1>1 DEF again, Goto, Become, Legs, Maps, Known, Typed, Shape, Heard, Answers,
                     Live, LegStates, EngineStates, Verdicts
<1>5. Watched(r)'
  BY Zenon, <1>1 DEF again, Goto, Become, Legs, Maps, Known, Typed, Shape, Watched, Answers,
                     Live, LegStates, EngineStates, Verdicts
<1>6. Fair(r)'
  BY Zenon, <1>1 DEF again, Goto, Become, Legs, Maps, Known, Typed, Shape, Fair, Answers, Live,
                     LegStates, EngineStates, Verdicts
<1> QED BY Zenon, <1>2, <1>3, <1>4, <1>5, <1>6, OneByOne DEF Known

\* The stream is open; its headers are not a success yet.
LEMMA OpenedKnown ==
  ASSUME CallInv, NEW r \in Requests,
         headers(r, "ok")
  PROVE  CallInv'
<1>1. Maps /\ Known(r)
  BY Zenon DEF CallInv
<1>2. Only(r)
  <2>1. verdict' = [verdict EXCEPT ![r] = verdict'[r]]
    BY Zenon, <1>1 DEF headers, score_leg_headers, Maps
  <2>2. /\ pc' = [pc EXCEPT ![r] = pc'[r]] /\ leg' = [leg EXCEPT ![r] = leg'[r]]
        /\ engine' = [engine EXCEPT ![r] = engine'[r]] /\ done' = [done EXCEPT ![r] = done'[r]]
    BY Zenon, <1>1 DEF headers, Goto, Become, Maps
  <2> QED BY Zenon, <1>1, <2>1, <2>2 DEF headers, Only, Maps
<1>3. Typed(r)'
  BY SMTT(30), <1>1, DisaggConfig DEF headers, score_leg_headers, Goto, Become, Release, Tell,
                                      Hang, score_leg, abort_pair, Aborted, Legs, Maps, Known,
                                      Typed, Shape, Answers, Live, LegStates, EngineStates,
                                      Verdicts
<1>4. Shape(r)'
  BY <1>1 DEF headers, score_leg_headers, Goto, Become, Release, Tell, Hang, score_leg,
              abort_pair, Aborted, Legs, Maps, Known, Typed, Shape, Heard, Answers, Live,
              LegStates, EngineStates, Verdicts
<1>5. Watched(r)'
  BY SMTT(30), <1>1 DEF headers, score_leg_headers, Goto, Become, Release, Tell, Hang,
                        score_leg, abort_pair, Aborted, Legs, Maps, Known, Typed, Shape,
                        Watched, Answers, Live, LegStates, EngineStates, Verdicts
<1>6. Fair(r)'
  BY <1>1 DEF headers, score_leg_headers, Goto, Become, Release, Tell, Hang, score_leg,
              abort_pair, Aborted, Legs, Maps, Known, Typed, Shape, Fair, Answers, Live,
              LegStates, EngineStates, Verdicts
<1> QED BY Zenon, <1>2, <1>3, <1>4, <1>5, <1>6, OneByOne DEF Known

\* The broker refuses a unary decode, which leaves the prefill to be drained.
LEMMA BrokerUnaryKnown ==
  ASSUME CallInv, NEW r \in Requests, broker_error(r), ~mode[r].stream
  PROVE  CallInv'
<1>1. /\ Maps /\ Known(r) /\ pc[r] = "wait" /\ mode[r].nats
      /\ leg' = [leg EXCEPT ![r]["d"] = "lost"]
      /\ engine' = [engine EXCEPT ![r]["d"] = "told"]
      /\ Goto(r, "drain")
      /\ UNCHANGED <<mode, tries, admits, served, done, verdict>>
  BY Zenon DEF CallInv, Known, Shape, broker_error
<1>2. Only(r)
  BY Zenon, <1>1 DEF Goto, Become, Only, Maps, Legs
<1>3. Typed(r)'
  BY Zenon, <1>1 DEF Goto, Become, Maps, Known, Typed, Live, LegStates, EngineStates, Answers,
                     Legs
<1>4. Shape(r)'
  <2>1. ~mode[r].serial /\ mode' = mode
    BY Zenon, <1>1 DEF Known, Typed, AllModes
  <2>2. pc'[r] = "drain" /\ leg'[r]["d"] = "lost"
    BY Zenon, <1>1 DEF Goto, Become, Maps, Legs
  <2> QED BY Zenon, <2>1, <2>2 DEF Shape, Heard, Answers
<1>5. Watched(r)'
  BY Zenon, <1>1 DEF Maps, Known, Watched, Legs
<1>6. Fair(r)'
  BY Zenon, <1>1 DEF Maps, Known, Shape, Fair, Legs
<1> QED BY Zenon, <1>2, <1>3, <1>4, <1>5, <1>6, OneByOne DEF Known

\* Engines like the present ones, but for r's decode, which does not run.
Stopped(e, r) ==
    /\ e \in [Requests -> [Legs -> EngineStates]]
    /\ e = [engine EXCEPT ![r] = e[r]]
    /\ e[r]["p"] = engine[r]["p"]
    /\ e[r]["d"] # "running"

\* A verdict on r's decode, which ended as d, and on no other worker.
Judged(r, d) ==
    /\ verdict' = [verdict EXCEPT ![r] = verdict'[r]]
    /\ verdict'[r] \in [Legs -> SUBSET Verdicts]
    /\ verdict'[r]["p"] = verdict[r]["p"]
    /\ "success" \in verdict'[r]["d"] => served[r] \/ d = "ok"
    /\ "failure" \in verdict'[r]["d"] => d \in {"fault", "lost"}

\* The three ways out of a stream's finally clause.
LEMMA SettleEnds ==
  ASSUME Maps, NEW r \in Requests, NEW c \in BOOLEAN, NEW d \in LegStates, NEW e,
         Stopped(e, r), Settle(r, c, d, e)
  PROVE  /\ pc' = [pc EXCEPT ![r] = pc'[r]]
         /\ pc'[r] = IF mode[r].serial THEN "over" ELSE IF c THEN "drain" ELSE "abort"
         /\ leg' = [leg EXCEPT ![r] = leg'[r]]
         /\ leg'[r] \in [Legs -> LegStates]
         /\ leg'[r]["d"] = d
         /\ leg'[r]["p"] = IF ~mode[r].serial /\ ~c /\ leg[r]["p"] = "open"
                           THEN "closed" ELSE leg[r]["p"]
         /\ engine' = [engine EXCEPT ![r] = engine'[r]]
         /\ engine'[r] \in [Legs -> EngineStates]
         /\ engine'[r]["d"] # "running"
         /\ engine'[r]["p"] = IF ~mode[r].serial /\ ~c /\ engine[r]["p"] = "running"
                              THEN "told" ELSE engine[r]["p"]
         /\ done' = [done EXCEPT ![r] = c]
<1>1. done' = [done EXCEPT ![r] = c]
  BY Zenon DEF Settle
<1> DEFINE hung == [Hang(r, {"p"}) EXCEPT !["d"] = d]
<1>2. /\ hung \in [Legs -> LegStates] /\ hung["d"] = d
      /\ hung["p"] = IF leg[r]["p"] = "open" THEN "closed" ELSE leg[r]["p"]
  <2>1. /\ Hang(r, {"p"}) \in [Legs -> LegStates]
        /\ Hang(r, {"p"})["p"] = IF leg[r]["p"] = "open" THEN "closed" ELSE leg[r]["p"]
    BY DEF Hang, Maps, Legs, LegStates
  <2> HIDE DEF hung
  <2> QED BY Zenon, <2>1 DEF hung, Legs
<1> HIDE DEF hung
<1>3. CASE mode[r].serial
  BY SMTT(30), <1>1, <1>3 DEF Settle, Release, Become, Stopped, Maps, Legs
<1>4. CASE ~mode[r].serial /\ c
  BY SMTT(30), <1>1, <1>4 DEF Settle, Goto, Become, Stopped, Maps, Legs
<1>5. CASE ~mode[r].serial /\ ~c
  <2>1. /\ pc' = [pc EXCEPT ![r] = "abort"] /\ leg' = [leg EXCEPT ![r] = hung]
        /\ engine' = Aborted(e, r)
    BY Zenon, <1>5 DEF Settle, Goto, Become, hung
  <2>2. /\ engine' = [engine EXCEPT ![r] = engine'[r]]
        /\ engine'[r] \in [Legs -> EngineStates]
        /\ engine'[r]["d"] # "running"
        /\ engine'[r]["p"] = IF engine[r]["p"] = "running" THEN "told" ELSE engine[r]["p"]
    <3> DEFINE told == [l \in Legs |-> IF l \in {"p"} \cup abort_pair(r) /\ e[r][l] = "running"
                                      THEN "told" ELSE e[r][l]]
    <3>1. e[r] \in [Legs -> EngineStates] /\ e[r]["d"] # "running" /\ e[r]["p"] = engine[r]["p"]
      BY Zenon DEF Stopped
    <3>2. engine' = [e EXCEPT ![r] = told]
      BY Zenon, <2>1 DEF Aborted, Tell
    <3>3. engine' = [engine EXCEPT ![r] = told] /\ engine'[r] = told
      BY Zenon, <3>2 DEF Stopped, Maps
    <3>4. told \in [Legs -> EngineStates]
      BY Zenon, <3>1 DEF EngineStates
    <3>5. /\ told["d"] # "running"
          /\ told["p"] = IF engine[r]["p"] = "running" THEN "told" ELSE engine[r]["p"]
      BY <3>1 DEF Legs
    <3> QED BY Zenon, <3>3, <3>4, <3>5
  <2> QED BY Zenon, <1>1, <1>2, <1>5, <2>1, <2>2 DEF Maps
<1> QED BY Zenon, <1>3, <1>4, <1>5

\* A stream that is settled leaves nothing running unheard.
LEMMA SettleKnown ==
  ASSUME CallInv, NEW r \in Requests, NEW c \in BOOLEAN, NEW d \in LegStates \ {"open"}, NEW e,
         pc[r] \in {"opening", "stream"}, Stopped(e, r), Settle(r, c, d, e), Judged(r, d),
         UNCHANGED <<mode, tries, served>>,
         admits' = [admits EXCEPT ![r] = admits'[r]], admits'[r] \in 0..1
  PROVE  CallInv'
<1>1. Maps /\ Known(r)
  BY Zenon DEF CallInv
<1>2. /\ pc' = [pc EXCEPT ![r] = pc'[r]]
      /\ pc'[r] = IF mode[r].serial THEN "over" ELSE IF c THEN "drain" ELSE "abort"
      /\ leg' = [leg EXCEPT ![r] = leg'[r]]
      /\ leg'[r] \in [Legs -> LegStates]
      /\ leg'[r]["d"] = d
      /\ leg'[r]["p"] = IF ~mode[r].serial /\ ~c /\ leg[r]["p"] = "open"
                        THEN "closed" ELSE leg[r]["p"]
      /\ engine' = [engine EXCEPT ![r] = engine'[r]]
      /\ engine'[r] \in [Legs -> EngineStates]
      /\ engine'[r]["d"] # "running"
      /\ engine'[r]["p"] = IF ~mode[r].serial /\ ~c /\ engine[r]["p"] = "running"
                           THEN "told" ELSE engine[r]["p"]
      /\ done' = [done EXCEPT ![r] = c]
  BY Zenon, <1>1, SettleEnds
<1>3. done'[r] = c /\ done' = [done EXCEPT ![r] = done'[r]]
  BY Zenon, <1>1, <1>2 DEF Maps
<1>4. Only(r)
  BY Zenon, <1>1, <1>2, <1>3 DEF Only, Judged, Maps
<1>5. Typed(r)'
  BY Zenon, <1>1, <1>2, <1>3 DEF Typed, Judged, Known, Live
<1>6. mode[r].stream /\ (mode[r].serial => leg[r]["p"] # "open")
  BY Zenon, <1>1 DEF Known, Shape
<1>7. Shape(r)'
  BY Zenon, <1>2, <1>3, <1>6 DEF Shape, Heard
<1>8. Watched(r)'
  BY Zenon, <1>1, <1>2 DEF Watched, Known, Legs
<1>9. Fair(r)'
  <2>1. /\ "success" \in verdict[r]["p"] => leg[r]["p"] = "ok"
        /\ "failure" \in verdict[r]["p"] => leg[r]["p"] \in {"fault", "lost", "timedout"}
    BY Zenon, <1>1 DEF Known, Fair, Legs
  <2> QED BY Zenon, <1>2, <2>1 DEF Fair, Judged, Legs
<1> QED BY Zenon, <1>4, <1>5, <1>7, <1>8, <1>9, OneByOne DEF Known

\* What is known of the verdict on a decode that has not ended.
LEMMA Unjudged ==
  ASSUME CallInv, NEW r \in Requests, pc[r] \in {"opening", "stream"}
  PROVE  /\ "success" \in verdict[r]["d"] => served[r]
         /\ "failure" \notin verdict[r]["d"]
         /\ pc[r] = "opening" => admits[r] = 0
         /\ leg[r]["d"] # "ok"
  BY Zenon DEF CallInv, Known, Shape, Fair, Legs

\* The connection broke once the request was sent: admitted, and not again.
LEMMA OpenLostKnown ==
  ASSUME CallInv, NEW r \in Requests,
         open_lost(r)
  PROVE  CallInv'
<1>1. Maps /\ Known(r) /\ pc[r] \in {"opening", "stream"}
  BY Zenon DEF CallInv, open_lost
<1>2. Stopped([engine EXCEPT ![r]["d"] = "told"], r)
  BY Zenon, <1>1 DEF open_lost, Stopped, Known, Typed, Shape, Watched, Maps, EngineStates,
                     Legs, Tell
<1>3. Judged(r, "lost")
  BY ZenonT(30), <1>1, Unjudged DEF Judged, open_lost, score_leg, Maps, Verdicts, Legs, Answers
<1>4. admits' = [admits EXCEPT ![r] = admits'[r]] /\ admits'[r] \in 0..1
  BY <1>1, Unjudged DEF open_lost, Maps
<1>5. Settle(r, done'[r], "lost", [engine EXCEPT ![r]["d"] = "told"]) /\ done'[r] \in BOOLEAN
  BY Zenon, <1>1 DEF open_lost, Maps, Settle
<1>6. UNCHANGED <<mode, tries, served>>
  BY Zenon DEF open_lost
<1> QED BY <1>1, <1>2, <1>3, <1>4, <1>5, <1>6, SettleKnown DEF LegStates, Answers

\* The connection could not be established: the engine never had the request.
LEMMA OpenFailedKnown ==
  ASSUME CallInv, NEW r \in Requests,
         open_failed(r)
  PROVE  CallInv'
<1>1. Maps /\ Known(r) /\ pc[r] \in {"opening", "stream"}
  BY Zenon DEF CallInv, open_failed
<1>2. Stopped(engine, r)
  BY Zenon, <1>1 DEF open_failed, Stopped, Known, Typed, Shape, Watched, Maps, EngineStates,
                     Legs, Tell
<1>3. Judged(r, "lost")
  BY ZenonT(30), <1>1, Unjudged DEF Judged, open_failed, score_leg, Maps, Verdicts, Legs,
                                    Answers
<1>4. admits' = [admits EXCEPT ![r] = admits'[r]] /\ admits'[r] \in 0..1
  BY Zenon, <1>1, Unjudged DEF open_failed, Maps
<1>5. Settle(r, done'[r], "lost", engine) /\ done'[r] \in BOOLEAN
  BY Zenon, <1>1 DEF open_failed, Maps, Settle
<1>6. UNCHANGED <<mode, tries, served>>
  BY Zenon DEF open_failed
<1> QED BY <1>1, <1>2, <1>3, <1>4, <1>5, <1>6, SettleKnown DEF LegStates, Answers

\* The stream over HTTP ends or breaks off.
LEMMA StreamEndKnown ==
  ASSUME CallInv, NEW r \in Requests, NEW b \in BOOLEAN,
         stream_end(r, b)
  PROVE  CallInv'
<1>1. Maps /\ Known(r) /\ pc[r] \in {"opening", "stream"}
  BY Zenon DEF CallInv, stream_end
<1>2. Stopped([engine EXCEPT ![r]["d"] = IF b THEN "told" ELSE "over"], r)
  BY Zenon, <1>1 DEF stream_end, Stopped, Known, Typed, Shape, Watched, Maps, EngineStates,
                     Legs, Tell
<1>3. Judged(r, (IF b THEN "lost" ELSE "ok"))
  BY Zenon, <1>1, Unjudged DEF Judged, stream_end, score_leg, Maps, Verdicts, Legs, Answers
<1>4. admits' = [admits EXCEPT ![r] = admits'[r]] /\ admits'[r] \in 0..1
  BY Zenon, <1>1, Unjudged DEF stream_end, Maps
<1>5. /\ Settle(r, done[r], (IF b THEN "lost" ELSE "ok"),
                [engine EXCEPT ![r]["d"] = IF b THEN "told" ELSE "over"])
      /\ done[r] \in BOOLEAN
  BY Zenon, <1>1 DEF stream_end, Maps, Settle
<1>6. UNCHANGED <<mode, tries, served>>
  BY Zenon DEF stream_end
<1> QED BY <1>1, <1>2, <1>3, <1>4, <1>5, <1>6, SettleKnown DEF LegStates, Answers

\* The done frame of a stream over NATS.
LEMMA StreamDoneKnown ==
  ASSUME CallInv, NEW r \in Requests, NEW a \in Answers,
         stream_done(r, a)
  PROVE  CallInv'
<1>1. Maps /\ Known(r) /\ pc[r] \in {"opening", "stream"}
  BY Zenon DEF CallInv, stream_done
<1>2. Stopped([engine EXCEPT ![r]["d"] = "over"], r)
  BY Zenon, <1>1 DEF stream_done, Stopped, Known, Typed, Shape, Watched, Maps, EngineStates,
                     Legs, Tell
<1>3. Judged(r, a)
  BY ZenonT(30), <1>1, Unjudged DEF Judged, stream_done, score_leg, Maps, Verdicts, Legs,
                                    Answers
<1>4. admits' = [admits EXCEPT ![r] = admits'[r]] /\ admits'[r] \in 0..1
  BY Zenon, <1>1, Unjudged DEF stream_done, Maps
<1>5. Settle(r, done'[r], a, [engine EXCEPT ![r]["d"] = "over"]) /\ done'[r] \in BOOLEAN
  BY Zenon, <1>1 DEF stream_done, Maps, Settle
<1>6. UNCHANGED <<mode, tries, served>>
  BY Zenon DEF stream_done
<1> QED BY <1>1, <1>2, <1>3, <1>4, <1>5, <1>6, SettleKnown DEF LegStates, Answers

\* An error frame of a stream over NATS.
LEMMA StreamErrorKnown ==
  ASSUME CallInv, NEW r \in Requests,
         stream_error(r)
  PROVE  CallInv'
<1>1. Maps /\ Known(r) /\ pc[r] \in {"opening", "stream"}
  BY Zenon DEF CallInv, stream_error
<1>2. Stopped([engine EXCEPT ![r]["d"] = "told"], r)
  BY Zenon, <1>1 DEF stream_error, Stopped, Known, Typed, Shape, Watched, Maps, EngineStates,
                     Legs, Tell
<1>3. Judged(r, "lost")
  <2>1. CASE served[r]
    <3>1. verdict' = verdict
      BY Zenon, <2>1 DEF stream_error
    <3> QED BY Zenon, <1>1, <3>1, Unjudged DEF Judged, Maps
  <2>2. CASE ~served[r]
    <3>1. verdict' = [verdict EXCEPT ![r]["d"] = @ \cup {"failure"}]
      BY Zenon, <2>2 DEF stream_error, score_leg
    <3> QED BY Zenon, <1>1, <3>1, Unjudged DEF Judged, Maps, Verdicts, Legs
  <2> QED BY Zenon, <2>1, <2>2
<1>4. admits' = [admits EXCEPT ![r] = admits'[r]] /\ admits'[r] \in 0..1
  BY Zenon, <1>1, Unjudged DEF stream_error, Maps
<1>5. Settle(r, done'[r], "lost", [engine EXCEPT ![r]["d"] = "told"]) /\ done'[r] \in BOOLEAN
  BY Zenon, <1>1 DEF stream_error, Maps, Settle
<1>6. UNCHANGED <<mode, tries, served>>
  BY Zenon DEF stream_error
<1> QED BY <1>1, <1>2, <1>3, <1>4, <1>5, <1>6, SettleKnown DEF LegStates, Answers

\* The client of a stream leaves.
LEMMA DropStreamKnown ==
  ASSUME CallInv, NEW r \in Requests,
         drop_stream(r)
  PROVE  CallInv'
<1>1. Maps /\ Known(r) /\ pc[r] \in {"opening", "stream"}
  BY Zenon DEF CallInv, drop_stream
<1>2. Stopped(Tell(engine, r, {"d"}), r)
  BY Zenon, <1>1 DEF drop_stream, Stopped, Known, Typed, Shape, Watched, Maps, EngineStates,
                     Legs, Tell
<1>3. Judged(r, "closed")
  BY Zenon, <1>1, Unjudged DEF Judged, drop_stream, score_leg, Maps, Verdicts, Legs, Answers
<1>4. admits' = [admits EXCEPT ![r] = admits'[r]] /\ admits'[r] \in 0..1
  BY Zenon, <1>1, Unjudged DEF drop_stream, Maps
<1>5. Settle(r, done[r], "closed", Tell(engine, r, {"d"})) /\ done[r] \in BOOLEAN
  BY Zenon, <1>1 DEF drop_stream, Maps, Settle
<1>6. UNCHANGED <<mode, tries, served>>
  BY Zenon DEF drop_stream
<1> QED BY <1>1, <1>2, <1>3, <1>4, <1>5, <1>6, SettleKnown DEF LegStates, Answers

\* A stream that is answered by an error: admitted, and scored by its status.
LEMMA RejectedKnown ==
  ASSUME CallInv, NEW r \in Requests, NEW a \in Answers,
         headers(r, a), a # "ok"
  PROVE  CallInv'
<1>1. Maps /\ Known(r) /\ pc[r] \in {"opening", "stream"}
  BY Zenon DEF CallInv, headers
<1>2. Stopped([engine EXCEPT ![r]["d"] = "over"], r)
  BY Zenon, <1>1 DEF headers, Stopped, Known, Typed, Shape, Watched, Maps, EngineStates, Legs,
                     Tell
<1>3. Judged(r, a)
  BY ZenonT(30), <1>1, Unjudged DEF Judged, headers, score_leg_headers, score_leg, Maps,
                                    Verdicts, Legs, Answers
<1>4. admits' = [admits EXCEPT ![r] = admits'[r]] /\ admits'[r] \in 0..1
  BY <1>1, Unjudged DEF headers, Maps
<1>5. Settle(r, done'[r], a, [engine EXCEPT ![r]["d"] = "over"]) /\ done'[r] \in BOOLEAN
  BY Zenon, <1>1 DEF headers, Maps, Settle
<1>6. UNCHANGED <<mode, tries, served>>
  BY Zenon DEF headers
<1> QED BY SMTT(30), <1>1, <1>2, <1>3, <1>4, <1>5, <1>6, SettleKnown DEF LegStates, Answers

\* The broker refuses a stream.
LEMMA BrokerStreamKnown ==
  ASSUME CallInv, NEW r \in Requests,
         broker_error(r), mode[r].stream
  PROVE  CallInv'
<1>1. Maps /\ Known(r) /\ pc[r] \in {"opening", "stream"}
  BY Zenon DEF CallInv, broker_error, Known, Shape
<1>2. Stopped([engine EXCEPT ![r]["d"] = "told"], r)
  BY Zenon, <1>1 DEF broker_error, Stopped, Known, Typed, Shape, Watched, Maps, EngineStates,
                     Legs, Tell
<1>3. Judged(r, "lost")
  BY Zenon, <1>1, Unjudged DEF Judged, broker_error, score_leg, Maps, Verdicts, Legs, Answers
<1>4. admits' = [admits EXCEPT ![r] = admits'[r]] /\ admits'[r] \in 0..1
  BY Zenon, <1>1, Unjudged DEF broker_error, Maps
<1>5. Settle(r, done'[r], "lost", [engine EXCEPT ![r]["d"] = "told"]) /\ done'[r] \in BOOLEAN
  BY Zenon, <1>1 DEF broker_error, Maps, Settle
<1>6. UNCHANGED <<mode, tries, served>>
  BY Zenon DEF broker_error
<1> QED BY <1>1, <1>2, <1>3, <1>4, <1>5, <1>6, SettleKnown DEF LegStates, Answers

\* Every step keeps what is known of each request.
LEMMA NextCalls == CallInv /\ [Next]_vars => CallInv'
<1> SUFFICES ASSUME CallInv, [Next]_vars PROVE CallInv'
  BY Zenon
<1>1. ASSUME NEW r \in Requests, Decode(r) PROVE CallInv'
  <2>1. CASE open_retry(r) \/ open_lost(r) \/ open_failed(r)
    BY Zenon, <2>1, RetryKnown, OpenLostKnown, OpenFailedKnown
  <2>2. ASSUME NEW a \in Answers, headers(r, a) PROVE CallInv'
    <3>1. CASE a = "ok"
      BY Zenon, <2>2, <3>1, OpenedKnown
    <3>2. CASE a # "ok"
      BY Zenon, <2>2, <3>2, RejectedKnown
    <3> QED BY Zenon, <3>1, <3>2
  <2>3. ASSUME NEW marked \in BOOLEAN, chunk(r, marked) PROVE CallInv'
    BY Zenon, <2>3, ChunkKnown
  <2>4. ASSUME NEW broken \in BOOLEAN, stream_end(r, broken) PROVE CallInv'
    BY Zenon, <2>4, StreamEndKnown
  <2>5. ASSUME NEW a \in Answers, stream_done(r, a) \/ decoded(r, a) PROVE CallInv'
    BY Zenon, <2>5, StreamDoneKnown, DecodedKnown
  <2>6. CASE stream_error(r) \/ garbled(r) \/ broker_error(r)
    BY Zenon, <2>6, StreamErrorKnown, GarbledKnown, BrokerStreamKnown, BrokerUnaryKnown
  <2> QED BY Zenon, <1>1, <2>1, <2>2, <2>3, <2>4, <2>5, <2>6 DEF Decode
<1>2. ASSUME NEW r \in Requests, Wind(r) PROVE CallInv'
  BY Zenon, <1>2, MovesKnown, DrainedKnown, TimeoutKnown DEF Wind
<1>3. ASSUME NEW r \in Requests, Drop(r) PROVE CallInv'
  BY Zenon, <1>3, MovesKnown, DropKnown, DropStreamKnown DEF Drop
<1>4. ASSUME NEW r \in Requests, NEW l \in Legs, NEW a \in Answers, answered(r, l, a) PROVE CallInv'
  BY Zenon, <1>4, AnsweredKnown
<1>5. ASSUME NEW r \in Requests, NEW a \in Answers, prefill_failed(r, a) PROVE CallInv'
  BY ZenonT(30), <1>5, PrefillFailedKnown
<1>6. ASSUME NEW r \in Requests,
             \/ reject(r) \/ refuse(r) \/ dispatch(r) \/ admit(r)
             \/ gathered(r) \/ handoff(r) \/ again(r)
      PROVE  CallInv'
  BY Zenon, <1>6, MovesKnown, DispatchKnown, AdmitKnown, GatheredKnown, HandoffKnown, AgainKnown
<1>7. CASE UNCHANGED vars
  <2>1. Maps'
    BY Zenon, <1>7 DEF vars, CallInv, Maps
  <2>2. ASSUME NEW r \in Requests PROVE Known(r)'
    <3>1. Known(r)
      BY Zenon DEF CallInv
    <3>2. Typed(r)'
      BY Zenon, <1>7, <3>1 DEF vars, Known, Typed
    <3>3. Shape(r)'
      BY Zenon, <1>7, <3>1 DEF vars, Known, Shape, Heard
    <3>4. Watched(r)'
      BY Zenon, <1>7, <3>1 DEF vars, Known, Watched
    <3>5. Fair(r)'
      BY Zenon, <1>7, <3>1 DEF vars, Known, Fair
    <3> QED BY Zenon, <3>1, <3>2, <3>3, <3>4, <3>5 DEF Known
  <2> QED BY Zenon, <2>1, <2>2 DEF CallInv
<1> QED BY Zenon, <1>1, <1>2, <1>3, <1>4, <1>5, <1>6, <1>7 DEF Next

Account ==
    /\ refs \in [Legs -> [Block -> Nat]]
    /\ leaked \in [Legs -> 0..MaxLeaks]
    /\ PairIsAccounted

Held(r, l) == IF Holds(r, l) THEN 1 ELSE 0

\* What a step may do to the charge of one worker: nothing; it is taken; it is
\* released; it is lost track of.
Shift(was, is, load, load2, lost, lost2) ==
    \/ is = was /\ load2 = load /\ lost2 = lost
    \/ was = 0 /\ is = 1 /\ load2 = load + 1 /\ lost2 = lost
    \/ was = 1 /\ is = 0 /\ load2 = (IF load > 0 THEN load - 1 ELSE 0) /\ lost2 = lost
    \/ was = 1 /\ is = 0 /\ load2 = load /\ lost2 = lost + 1

Shifts(r) ==
    \A l \in Legs : Shift(Held(r, l), Held(r, l)', refs[l]["b"], refs'[l]["b"], leaked[l], leaked'[l])

Holders(l) == {x \in Requests : Holds(x, l)}

\* The holders of a leg before and after a step of r differ at most in r.
LEMMA HoldersBut ==
  ASSUME NEW r \in Requests, NEW l \in Legs,
         \A x \in Requests : x # r => pc'[x] = pc[x] /\ mode'[x] = mode[x]
  PROVE  \E n \in Nat :
            /\ Cardinality(Holders(l)) = n + Held(r, l)
            /\ Cardinality(Holders(l)') = n + Held(r, l)'
<1> DEFINE Others == Holders(l) \ {r}
<1>1. Others = Holders(l)' \ {r}
  BY Zenon DEF Holders, Holds
<1>2. IsFiniteSet(Holders(l)) /\ IsFiniteSet(Holders(l)')
  BY Zenon, FS_Subset, DisaggConfig DEF Holders
<1>3. IsFiniteSet(Others) /\ Cardinality(Others) \in Nat
  BY Zenon, <1>2, FS_RemoveElement, FS_CardinalityType
<1>4. ASSUME NEW S, IsFiniteSet(S), S \ {r} = Others
      PROVE  Cardinality(S) = Cardinality(Others) + (IF r \in S THEN 1 ELSE 0)
  <2>1. CASE r \in S
    <3>1. S = Others \cup {r} /\ r \notin Others
      BY Zenon, <1>4, <2>1
    <3> QED BY Zenon, <2>1, <3>1, <1>3, FS_AddElement
  <2>2. CASE r \notin S
    <3>1. S = Others
      BY Zenon, <1>4, <2>2
    <3> QED BY <2>2, <3>1, <1>3
  <2> QED BY Zenon, <2>1, <2>2
<1>5. (r \in Holders(l) <=> Holds(r, l)) /\ (r \in Holders(l)' <=> Holds(r, l)')
  BY Zenon DEF Holders
<1>6. /\ Cardinality(Holders(l)) = Cardinality(Others) + Held(r, l)
      /\ Cardinality(Holders(l)') = Cardinality(Others) + Held(r, l)'
  BY Zenon, <1>1, <1>2, <1>4, <1>5 DEF Held
<1> QED BY Zenon, <1>3, <1>6

\* A step of one request that shifts each charge so keeps the account.
LEMMA ShiftBalances ==
  ASSUME Account, NEW r \in Requests,
         \A x \in Requests : x # r => pc'[x] = pc[x] /\ mode'[x] = mode[x],
         refs' \in [Legs -> [Block -> Nat]], leaked' \in [Legs -> 0..MaxLeaks], Shifts(r)
  PROVE  Account'
<1>1. ASSUME NEW l \in Legs
      PROVE  refs'[l]["b"] = Cardinality(Holders(l)') + leaked'[l]
  <2>1. PICK n \in Nat :
           /\ Cardinality(Holders(l)) = n + Held(r, l)
           /\ Cardinality(Holders(l)') = n + Held(r, l)'
    BY Zenon, HoldersBut
  <2>2. refs[l]["b"] = n + Held(r, l) + leaked[l]
    BY Zenon, <2>1 DEF Account, PairIsAccounted, Holders
  <2>3. refs[l]["b"] \in Nat /\ refs'[l]["b"] \in Nat /\ leaked[l] \in Nat /\ leaked'[l] \in Nat
    <3>1. "b" \in Block
      BY Zenon DEF Block
    <3>2. refs[l]["b"] \in Nat /\ refs'[l]["b"] \in Nat
      BY Zenon, <3>1 DEF Account
    <3>3. leaked[l] \in 0..MaxLeaks /\ leaked'[l] \in 0..MaxLeaks
      BY Zenon DEF Account
    <3> QED BY <3>2, <3>3, DisaggConfig
  <2>4. Held(r, l) \in {0, 1} /\ Held(r, l)' \in {0, 1}
    BY Zenon DEF Held
  <2>5. Shift(Held(r, l), Held(r, l)', refs[l]["b"], refs'[l]["b"], leaked[l], leaked'[l])
    BY Zenon DEF Shifts
  <2> DEFINE u == Held(r, l)
             v == Held(r, l)'
             f == refs[l]["b"]
             g == refs'[l]["b"]
             x == leaked[l]
             y == leaked'[l]
  <2>6. /\ u \in {0, 1} /\ v \in {0, 1} /\ f \in Nat /\ g \in Nat /\ x \in Nat /\ y \in Nat
        /\ f = n + u + x /\ Shift(u, v, f, g, x, y)
    BY Zenon, <2>2, <2>3, <2>4, <2>5
  <2> HIDE DEF u, v, f, g, x, y
  <2>7. g = n + v + y
    BY <2>6 DEF Shift
  <2> QED BY Zenon, <2>1, <2>7 DEF v, g, y
<1>2. PairIsAccounted'
  BY Zenon, <1>1 DEF PairIsAccounted, Holders
<1> QED BY Zenon, <1>2 DEF Account

\* A step that leaves r charged as it was, and the policy alone.
LEMMA QuietKept ==
  ASSUME Account, NEW r \in Requests, UNCHANGED <<refs, leaked>>,
         \A x \in Requests : x # r => pc'[x] = pc[x] /\ mode'[x] = mode[x],
         \A l \in Legs : Holds(r, l)' <=> Holds(r, l)
  PROVE  Account'
<1>1. Shifts(r)
  BY Zenon DEF Shifts, Shift, Held
<1>2. refs' \in [Legs -> [Block -> Nat]] /\ leaked' \in [Legs -> 0..MaxLeaks]
  BY Zenon DEF Account
<1> QED BY Zenon, <1>1, <1>2, ShiftBalances

\* A request in flight that goes on, past a serial prefill, stays charged.
LEMMA GotoKept ==
  ASSUME Account, Maps, NEW r \in Requests, NEW s \in Live \ {"prefill"}, Goto(r, s), UNCHANGED mode,
         pc[r] \in Live \ {"prefill"}
  PROVE  Account'
<1>1. pc'[r] = s /\ \A x \in Requests : x # r => pc'[x] = pc[x]
  BY Zenon DEF Goto, Become, Maps
<1>2. \A l \in Legs : Holds(r, l)' <=> Holds(r, l)
  BY Zenon, <1>1 DEF Holds
<1> QED BY Zenon, <1>1, <1>2, QuietKept DEF Goto

\* Neither before it is dispatched nor once it is over is a request charged.
LEMMA RestKept ==
  ASSUME Account, Maps, NEW r \in Requests, reject(r) \/ again(r)
  PROVE  Account'
<1>1. /\ pc[r] \notin Live /\ pc'[r] \notin Live /\ UNCHANGED <<refs, leaked>>
      /\ \A x \in Requests : x # r => pc'[x] = pc[x] /\ mode'[x] = mode[x]
  BY Zenon DEF reject, again, Goto, Become, Maps, Live
<1>2. \A l \in Legs : Holds(r, l)' <=> Holds(r, l)
  BY Zenon, <1>1 DEF Holds
<1> QED BY Zenon, <1>1, <1>2, QuietKept

\* on_request_finished for the legs ls.
LEMMA FinishTakes ==
  ASSUME Account, NEW ls, Finish(ls)
  PROVE  /\ refs' \in [Legs -> [Block -> Nat]]
         /\ \A l \in Legs : refs'[l]["b"] =
               IF l \in ls THEN (IF refs[l]["b"] > 0 THEN refs[l]["b"] - 1 ELSE 0)
               ELSE refs[l]["b"]
  BY DEF Account, Finish, Refs!on_request_finished, Refs!Count, Block

\* on_request_started for both.
LEMMA StartAdds ==
  ASSUME Account, Start
  PROVE  /\ refs' \in [Legs -> [Block -> Nat]]
         /\ \A l \in Legs : refs'[l]["b"] = refs[l]["b"] + 1
  BY SMTT(30) DEF Account, Start, Refs!on_request_started, Refs!Count, Block, Legs

\* A request that ends and releases just what it held.
LEMMA ReleaseKept ==
  ASSUME Account, Maps, NEW r \in Requests, NEW ls \in SUBSET Legs, Release(r, ls), UNCHANGED mode,
         pc[r] \in Live,
         ls = IF mode[r].serial /\ pc[r] # "prefill" THEN {"d"} ELSE Legs
  PROVE  Account'
<1>1. pc'[r] = "over" /\ (\A x \in Requests : x # r => pc'[x] = pc[x]) /\ leaked' = leaked
  BY Zenon DEF Release, Become, Maps
<1>2. \A l \in Legs : Holds(r, l) <=> l \in ls
  BY Zenon DEF Holds, Legs
<1>3. \A l \in Legs : ~Holds(r, l)'
  BY Zenon, <1>1 DEF Holds, Live
<1>4. /\ refs' \in [Legs -> [Block -> Nat]]
      /\ \A l \in Legs : refs'[l]["b"] =
            IF l \in ls THEN (IF refs[l]["b"] > 0 THEN refs[l]["b"] - 1 ELSE 0) ELSE refs[l]["b"]
  BY Zenon, FinishTakes DEF Release
<1>5. Shifts(r)
  BY Zenon, <1>1, <1>2, <1>3, <1>4 DEF Shifts, Shift, Held
<1> QED BY Zenon, <1>1, <1>4, <1>5, ShiftBalances DEF Account

\* A request that is cancelled unguarded leaves both its charges behind.
LEMMA LeakKept ==
  ASSUME Account, Maps, NEW r \in Requests, Leak(r), UNCHANGED mode,
         pc[r] \in Live, ~mode[r].serial
  PROVE  Account'
<1>1. pc'[r] = "over" /\ (\A x \in Requests : x # r => pc'[x] = pc[x]) /\ refs' = refs
  BY Zenon DEF Leak, Become, Maps
<1>2. \A l \in Legs : Holds(r, l) /\ ~Holds(r, l)'
  BY Zenon, <1>1 DEF Holds, Live
<1>3. leaked' \in [Legs -> 0..MaxLeaks] /\ \A l \in Legs : leaked'[l] = leaked[l] + 1
  BY DisaggConfig DEF Leak, Account
<1>4. Shifts(r)
  BY Zenon, <1>1, <1>2, <1>3 DEF Shifts, Shift, Held
<1> QED BY Zenon, <1>1, <1>3, <1>4, ShiftBalances DEF Account

\* dispatch charges both workers.
LEMMA DispatchKept ==
  ASSUME Account, Maps, NEW r \in Requests, dispatch(r)
  PROVE  Account'
<1>1. /\ pc[r] \notin Live /\ pc'[r] \in Live /\ (mode[r].serial => pc'[r] = "prefill")
      /\ \A x \in Requests : x # r => pc'[x] = pc[x]
      /\ mode' = mode /\ leaked' = leaked
  BY Zenon DEF dispatch, Become, Maps, Live
<1>2. \A l \in Legs : ~Holds(r, l) /\ Holds(r, l)'
  BY Zenon, <1>1 DEF Holds
<1>3. /\ refs' \in [Legs -> [Block -> Nat]]
      /\ \A l \in Legs : refs'[l]["b"] = refs[l]["b"] + 1
  BY Zenon, StartAdds DEF dispatch
<1>4. Shifts(r)
  BY Zenon, <1>1, <1>2, <1>3 DEF Shifts, Shift, Held
<1> QED BY Zenon, <1>1, <1>3, <1>4, ShiftBalances DEF Account

\* The handoff of a serial prefill releases its worker and keeps the decode's.
LEMMA HandoffKept ==
  ASSUME Account, CallInv, NEW r \in Requests, handoff(r)
  PROVE  Account'
<1>1. Maps /\ Shape(r)
  BY Zenon DEF CallInv, Known
<1>2. /\ pc[r] = "prefill" /\ pc'[r] \in {"opening", "wait"} /\ mode[r].serial
      /\ \A x \in Requests : x # r => pc'[x] = pc[x]
      /\ mode' = mode /\ leaked' = leaked /\ Finish({"p"})
  BY Zenon, <1>1 DEF handoff, Become, Maps, Shape
<1>3. Holds(r, "p") /\ Holds(r, "d") /\ ~Holds(r, "p")' /\ Holds(r, "d")'
  BY Zenon, <1>2 DEF Holds, Live
<1>4. /\ refs' \in [Legs -> [Block -> Nat]]
      /\ refs'["p"]["b"] = IF refs["p"]["b"] > 0 THEN refs["p"]["b"] - 1 ELSE 0
      /\ refs'["d"]["b"] = refs["d"]["b"]
  BY <1>2, FinishTakes DEF Legs
<1>5. Shifts(r)
  BY Zenon, <1>2, <1>3, <1>4 DEF Shifts, Shift, Held, Legs
<1> QED BY Zenon, <1>2, <1>4, <1>5, ShiftBalances DEF Account

\* The finally clause of a stream releases a serial decode and keeps a pair.
LEMMA SettleKept ==
  ASSUME Account, Maps, NEW r \in Requests, UNCHANGED mode, pc[r] \in {"opening", "stream"},
         \/ mode[r].serial /\ Release(r, {"d"})
         \/ ~mode[r].serial /\ (Goto(r, "drain") \/ Goto(r, "abort"))
  PROVE  Account'
<1>1. CASE mode[r].serial /\ Release(r, {"d"})
  BY Zenon, <1>1, ReleaseKept DEF Live, Legs
<1>2. CASE Goto(r, "drain") \/ Goto(r, "abort")
  BY Zenon, <1>2, GotoKept DEF Live
<1> QED BY Zenon, <1>1, <1>2

\* The steps of a decode keep the account.
LEMMA DecodeKept ==
  ASSUME Account, CallInv, NEW r \in Requests, Decode(r)
  PROVE  Account'
<1>1. Maps /\ Shape(r) /\ mode[r] \in AllModes
  BY Zenon DEF CallInv, Known, Typed
<1>2. CASE open_retry(r) \/ \E m \in BOOLEAN : chunk(r, m)
  BY Zenon, <1>2, QuietKept DEF open_retry, chunk, Holds
<1>3. CASE open_lost(r) \/ open_failed(r)
  BY Zenon, <1>1, <1>3, SettleKept DEF open_lost, open_failed, Settle
<1>4. ASSUME NEW a \in Answers, headers(r, a) PROVE Account'
  <2>1. CASE a = "ok"
    <3>1. Goto(r, "stream") /\ pc[r] = "opening" /\ mode' = mode
      BY Zenon, <1>4, <2>1 DEF headers
    <3> QED BY Zenon, <1>1, <3>1, GotoKept DEF Live
  <2>2. CASE a # "ok"
    BY Zenon, <1>1, <1>4, <2>2, SettleKept DEF headers, Settle
  <2> QED BY Zenon, <2>1, <2>2
<1>5. ASSUME NEW b \in BOOLEAN, stream_end(r, b) PROVE Account'
  BY Zenon, <1>1, <1>5, SettleKept DEF stream_end, Settle
<1>6. ASSUME NEW a \in Answers, stream_done(r, a) PROVE Account'
  BY Zenon, <1>1, <1>6, SettleKept DEF stream_done, Settle
<1>7. CASE stream_error(r)
  BY Zenon, <1>1, <1>7, SettleKept DEF stream_error, Settle
<1>8. ASSUME NEW a \in Answers, decoded(r, a) PROVE Account'
  <2>1. pc[r] = "wait" /\ mode' = mode
    BY Zenon, <1>8 DEF decoded
  <2>2. CASE mode[r].serial /\ Release(r, {"d"})
    BY Zenon, <1>1, <2>1, <2>2, ReleaseKept DEF Live, Legs
  <2>3. CASE Goto(r, "drain") \/ Goto(r, "nabort")
    BY Zenon, <1>1, <2>1, <2>3, GotoKept DEF Live
  <2> QED BY Zenon, <1>8, <2>2, <2>3 DEF decoded
<1>9. CASE garbled(r)
  <2>1. Goto(r, "nabort") /\ pc[r] = "wait" /\ mode' = mode
    BY Zenon, <1>9 DEF garbled
  <2> QED BY Zenon, <1>1, <2>1, GotoKept DEF Live
<1>10. CASE broker_error(r)
  <2>1. pc[r] \in {"wait", "stream"} /\ mode' = mode /\ mode[r].nats
    BY Zenon, <1>10 DEF broker_error
  <2>2. ~mode[r].serial
    BY Zenon, <1>1, <2>1 DEF AllModes
  <2>3. Goto(r, "drain") \/ Goto(r, "abort")
    BY Zenon, <1>10, <2>2 DEF broker_error, Settle
  <2> QED BY Zenon, <1>1, <2>1, <2>3, GotoKept DEF Live
<1> QED BY Zenon, <1>2, <1>3, <1>4, <1>5, <1>6, <1>7, <1>8, <1>9, <1>10, <1>1 DEF Decode

\* So do the end of a pair and a client that leaves.
LEMMA EndKept ==
  ASSUME Account, CallInv, NEW r \in Requests, Wind(r) \/ Drop(r)
  PROVE  Account'
<1>1. Maps /\ Shape(r) /\ mode[r] \in AllModes
  BY Zenon DEF CallInv, Known, Typed
<1>2. CASE aborted(r) \/ drained(r) \/ reaped(r) \/ drop_draining(r)
  <2>1. /\ pc[r] \in {"abort", "drain", "reap"} /\ mode' = mode /\ Release(r, Legs)
    BY Zenon, <1>2 DEF aborted, drained, reaped, drop_draining
  <2>2. ~mode[r].serial
    BY Zenon, <1>1, <2>1 DEF Shape
  <2> QED BY Zenon, <1>1, <2>1, <2>2, ReleaseKept DEF Live
<1>3. CASE pair_aborted(r)
  <2>1. pc[r] = "nabort" /\ mode' = mode /\ Goto(r, "drain")
    BY Zenon, <1>3 DEF pair_aborted
  <2> QED BY Zenon, <1>1, <2>1, GotoKept DEF Live
<1>4. CASE drain_timeout(r)
  <2>1. pc[r] = "drain" /\ mode' = mode /\ ~mode[r].serial
    BY Zenon, <1>1, <1>4 DEF drain_timeout, Shape
  <2>2. CASE Goto(r, "reap")
    BY Zenon, <1>1, <2>1, <2>2, GotoKept DEF Live
  <2>3. CASE Release(r, Legs)
    BY Zenon, <1>1, <2>1, <2>3, ReleaseKept DEF Live
  <2> QED BY Zenon, <1>4, <2>2, <2>3 DEF drain_timeout
<1>5. CASE drop_prefill(r)
  <2>1. pc[r] = "prefill" /\ mode' = mode /\ Release(r, Legs)
    BY Zenon, <1>5 DEF drop_prefill
  <2> QED BY Zenon, <1>1, <2>1, ReleaseKept DEF Live
<1>6. CASE drop_unary(r)
  <2>1. pc[r] \in {"both", "wait"} /\ mode' = mode
    BY Zenon, <1>6 DEF drop_unary
  <2>2. CASE mode[r].serial /\ Release(r, {"d"})
    BY Zenon, <1>1, <2>1, <2>2, ReleaseKept DEF Live, Legs
  <2>3. CASE Goto(r, "abort")
    BY Zenon, <1>1, <2>1, <2>3, GotoKept DEF Live
  <2> QED BY Zenon, <1>6, <2>2, <2>3 DEF drop_unary
<1>7. CASE drop_stream(r)
  BY Zenon, <1>1, <1>7, SettleKept DEF drop_stream, Settle
<1>8. CASE drop_unguarded(r)
  <2>1. pc[r] \in {"admit", "nabort", "drain", "reap"} /\ mode' = mode /\ Leak(r)
    BY Zenon, <1>8 DEF drop_unguarded
  <2>2. ~mode[r].serial
    BY Zenon, <1>1, <2>1 DEF Shape, AllModes
  <2> QED BY Zenon, <1>1, <2>1, <2>2, LeakKept DEF Live
<1> QED BY Zenon, <1>2, <1>3, <1>4, <1>5, <1>6, <1>7, <1>8 DEF Wind, Drop

\* Every step keeps the account.
LEMMA NextAccount == CallInv /\ Account /\ [Next]_vars => Account'
<1> SUFFICES ASSUME CallInv, Account, [Next]_vars PROVE Account'
  BY Zenon
<1>1. ASSUME NEW r \in Requests, reject(r) \/ again(r) \/ dispatch(r) PROVE Account'
  BY Zenon, <1>1, RestKept, DispatchKept DEF CallInv
<1>2. ASSUME NEW r \in Requests, admit(r) PROVE Account'
  <2>1. /\ pc[r] = "admit" /\ mode' = mode
        /\ Goto(r, "stream") \/ Goto(r, "wait")
    BY Zenon, <1>2 DEF admit
  <2> QED BY Zenon, <2>1, GotoKept DEF Live, CallInv
<1>3. ASSUME NEW r \in Requests,
             refuse(r) \/ \E a \in Answers : prefill_failed(r, a)
      PROVE  Account'
  <2>1. pc[r] \in {"admit", "prefill"} /\ mode' = mode /\ Release(r, Legs)
    BY Zenon, <1>3 DEF refuse, prefill_failed
  <2>2. pc[r] = "admit" => ~mode[r].serial
    BY Zenon DEF CallInv, Known, Typed, Shape, AllModes
  <2> QED BY Zenon, <2>1, <2>2, ReleaseKept DEF Live, CallInv
<1>4. ASSUME NEW r \in Requests, NEW l \in Legs, NEW a \in Answers, answered(r, l, a)
      PROVE  Account'
  BY Zenon, <1>4, QuietKept DEF answered, Holds
<1>5. ASSUME NEW r \in Requests, gathered(r) PROVE Account'
  <2>1. pc[r] = "both" /\ mode' = mode /\ ~mode[r].serial
    BY Zenon, <1>5 DEF gathered, CallInv, Known, Shape
  <2>2. CASE Goto(r, "abort")
    BY Zenon, <2>1, <2>2, GotoKept DEF Live, CallInv
  <2>3. CASE Release(r, Legs)
    BY Zenon, <2>1, <2>3, ReleaseKept DEF Live, CallInv
  <2> QED BY Zenon, <1>5, <2>2, <2>3 DEF gathered
<1>6. ASSUME NEW r \in Requests, handoff(r) PROVE Account'
  BY Zenon, <1>6, HandoffKept
<1>7. ASSUME NEW r \in Requests, Decode(r) \/ Wind(r) \/ Drop(r) PROVE Account'
  BY Zenon, <1>7, DecodeKept, EndKept
<1>8. CASE UNCHANGED vars
  BY Zenon, <1>8 DEF vars, Account, PairIsAccounted, Holds
<1> QED BY Zenon, <1>1, <1>2, <1>3, <1>4, <1>5, <1>6, <1>7, <1>8 DEF Next

-----------------------------------------------------------------------------

\* The router's inductive invariant.
IInv == CallInv /\ Account

\* Nothing has been sent or charged yet.
LEMMA InitIInv == Init => IInv
<1> SUFFICES ASSUME Init PROVE IInv
  BY Zenon
<1>1. Maps
  BY DisaggConfig DEF Init, Maps, Live, LegStates, EngineStates, Verdicts
<1>2. ASSUME NEW r \in Requests PROVE Known(r)
  BY Zenon, <1>1 DEF Init, Maps, Known, Typed, Shape, Heard, Watched, Fair, Legs
<1>3. /\ refs \in [Legs -> [Block -> Nat]] /\ leaked \in [Legs -> 0..MaxLeaks]
      /\ \A l \in Legs : refs[l]["b"] = 0 /\ leaked[l] = 0
  BY DisaggConfig DEF Init, Refs!RefsInit, Refs!NoRefs, Block
<1>4. \A l \in Legs : {r \in Requests : Holds(r, l)} = {}
  BY Zenon DEF Init, Holds, Live
<1>5. \A l \in Legs : Cardinality({r \in Requests : Holds(r, l)}) = 0
  BY Zenon, <1>4, FS_EmptySet
<1>6. PairIsAccounted
  BY <1>3, <1>5 DEF PairIsAccounted
<1> QED BY Zenon, <1>1, <1>2, <1>3, <1>6 DEF IInv, CallInv, Account

\* The invariant holds in every behaviour of the router.
LEMMA Invariant == Spec => []IInv
<1>1. IInv /\ [Next]_vars => IInv'
  BY Zenon, NextCalls, NextAccount DEF IInv
<1> QED BY <1>1, InitIInv, PTL DEF Spec

\* Every request stays in a place of its handler, with the answers its legs can
\* have, however it is dispatched, retried, drained or dropped.
THEOREM TypeCorrect == Spec => []TypeOK
<1>1. IInv => TypeOK
  <2> SUFFICES ASSUME IInv PROVE TypeOK
    BY Zenon
  <2>1. 0..1 \subseteq 0..(MaxOpenRetries + 1)
    BY DisaggConfig
  <2>2. admits \in [Requests -> 0..(MaxOpenRetries + 1)]
    BY Zenon, <2>1 DEF IInv, CallInv, Maps
  <2> QED BY Zenon, <2>2 DEF IInv, CallInv, Account, Maps, TypeOK, Refs!RefsTypeOK,
                             LegStates, EngineStates, Verdicts
<1> QED BY <1>1, Invariant, PTL

\* Every way out of a pair, of a serial hand-off and of a stream releases each
\* worker it charged once (the finally clauses, _release_prefill_drain).
THEOREM PairAccounted == Spec => []PairIsAccounted
<1>1. IInv => PairIsAccounted
  BY Zenon DEF IInv, Account
<1> QED BY <1>1, Invariant, PTL

\* No engine is left working on a request that is over and that nobody listens
\* to: a losing leg is aborted or drained (_abort_pair, _finish_prefill).
THEOREM NoneUnheard == Spec => []NoneRunsUnheard
<1>1. IInv => NoneRunsUnheard
  BY Zenon DEF IInv, CallInv, Known, Shape, Heard, Watched, NoneRunsUnheard, Legs
<1> QED BY <1>1, Invariant, PTL

\* What the breaker is told of a worker is what that worker did: no leg is scored
\* for the failure of the other (_score_leg, _score_leg_headers).
THEOREM EachScoredByItself == Spec => []ScoredByItself
<1>1. IInv => ScoredByItself
  BY Zenon DEF IInv, CallInv, Known, Fair, ScoredByItself
<1> QED BY <1>1, Invariant, PTL

\* A connection that is tried again has not been admitted before: the decode
\* engine gets a request at most once (_open_decode_stream).
THEOREM DecodeAdmittedOnce == Spec => []AdmittedOnce
<1>1. ASSUME IInv, NEW r \in Requests PROVE admits[r] <= 1
  <2>1. admits[r] \in 0..1
    BY Zenon, <1>1 DEF IInv, CallInv, Known, Typed
  <2> QED BY <2>1
<1>2. IInv => AdmittedOnce
  BY Zenon, <1>1 DEF AdmittedOnce
<1> QED BY <1>2, Invariant, PTL
=============================================================================
