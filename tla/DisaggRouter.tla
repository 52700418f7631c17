---------------------------- MODULE DisaggRouter ----------------------------
(***************************************************************************)
(* The router for prefill/decode pairs (infera/router/disagg.py).  The     *)
(* prefill leg of a request fills the KV cache the decode leg reads.  A    *)
(* concurrent protocol sends both legs at once and drains the prefill in   *)
(* the background; a serial one needs the prefill's answer before it can   *)
(* send the decode.  Both workers are charged to the policy meanwhile.     *)
(*                                                                         *)
(* Each action is what one request does between two suspension points.     *)
(* One worker of each role stands for the pair that was picked.  An answer *)
(* is abstracted to its class: "ok" 2xx/3xx, "bad" 4xx, "fault" 5xx,       *)
(* "lost" no answer but a transport error.                                 *)
(***************************************************************************)
EXTENDS Naturals, FiniteSets

CONSTANTS
    Requests,
    Modes,              \* Modes[r]: the ways request r may be dispatched
    MaxOpenRetries,     \* _DECODE_OPEN_MAX_RETRIES
    MaxLeaks            \* bound: charges of one worker that may be lost track of

Legs == {"p", "d"}

\* nats: delivered over NATS; rid: the protocol forged an id to abort by.  The
\* serial topology always posts over HTTP and never aborts by id.
AllModes == {m \in [serial : BOOLEAN, stream : BOOLEAN, nats : BOOLEAN, rid : BOOLEAN] :
                m.serial => ~m.nats /\ ~m.rid}

ASSUME DisaggConfig ==
    /\ IsFiniteSet(Requests)
    /\ Modes \in [Requests -> SUBSET AllModes]
    /\ MaxOpenRetries \in Nat
    /\ MaxLeaks \in Nat

VARIABLES
    refs,       \* the policy's load, per leg (see BlockRefs)
    mode,       \* per request: how it is dispatched
    pc,         \* per request: where it waits
    leg,        \* leg[r][l]: how far the call to worker l has come
    engine,     \* engine[r][l]: what worker l's engine does with it
    tries,      \* retries of the decode stream's opening
    admits,     \* history: times the decode engine was given the request
    served,     \* the decode stream has delivered data
    done,       \* done_seen, completed: and its end marker
    verdict,    \* history: what the breaker was told of each worker
    leaked      \* history: charges whose request ended without releasing them

callVars == <<leg, engine, tries, admits, served, done, verdict>>
vars == <<refs, mode, pc, leg, engine, tries, admits, served, done, verdict, leaked>>

Block == {"b"}
Refs == INSTANCE BlockRefs WITH Workers <- Legs, Blocks <- Block

Answers == {"ok", "bad", "fault", "lost"}
\* admit: for the backlogs of NATS workers; prefill: for a serial prefill; both:
\* for the two legs of a unary request; opening: for the headers of the decode
\* stream; stream: for its data; wait: for a unary decode; abort: for the aborts
\* of both legs, shielded or released by an outer finally; nabort: for those of
\* _concurrent_nats; drain: for the prefill; reap: for the aborts of a prefill
\* that was given up.
Live == {"admit", "prefill", "both", "opening", "stream", "wait",
         "abort", "nabort", "drain", "reap"}

TypeOK ==
    /\ Refs!RefsTypeOK
    /\ mode \in [Requests -> AllModes]
    /\ pc \in [Requests -> Live \cup {"idle", "over"}]
    /\ leg \in [Requests -> [Legs -> Answers \cup {"none", "open", "closed", "timedout"}]]
    /\ engine \in [Requests -> [Legs -> {"idle", "running", "told", "over"}]]
    /\ tries \in [Requests -> 0..MaxOpenRetries]
    /\ admits \in [Requests -> 0..(MaxOpenRetries + 1)]
    /\ served \in [Requests -> BOOLEAN]
    /\ done \in [Requests -> BOOLEAN]
    /\ verdict \in [Requests -> [Legs -> SUBSET {"success", "failure", "neutral"}]]
    /\ leaked \in [Legs -> 0..MaxLeaks]

Init ==
    /\ Refs!RefsInit
    /\ mode \in {f \in [Requests -> AllModes] : \A r \in Requests : f[r] \in Modes[r]}
    /\ pc = [r \in Requests |-> "idle"]
    /\ leg = [r \in Requests |-> [l \in Legs |-> "none"]]
    /\ engine = [r \in Requests |-> [l \in Legs |-> "idle"]]
    /\ tries = [r \in Requests |-> 0]
    /\ admits = [r \in Requests |-> 0]
    /\ served = [r \in Requests |-> FALSE]
    /\ done = [r \in Requests |-> FALSE]
    /\ verdict = [r \in Requests |-> [l \in Legs |-> {}]]
    /\ leaked = [l \in Legs |-> 0]

-----------------------------------------------------------------------------

Become(r, s) == pc' = [pc EXCEPT ![r] = s]

Start == refs' = Refs!on_request_started(Refs!on_request_started(refs, "p", Block), "d", Block)
Finish(ls) ==
    refs' = [l \in Legs |->
                IF l \in ls THEN Refs!on_request_finished(refs, l, Block)[l] ELSE refs[l]]

\* The request ends, its finally clause having released the legs ls.
Release(r, ls) == Become(r, "over") /\ Finish(ls) /\ UNCHANGED leaked

\* It is cancelled at an await that no finally clause guards.
Leak(r) ==
    /\ \A l \in Legs : leaked[l] < MaxLeaks
    /\ leaked' = [l \in Legs |-> leaked[l] + 1]
    /\ Become(r, "over")
    /\ UNCHANGED refs

Goto(r, s) == Become(r, s) /\ UNCHANGED <<refs, leaked>>

\* _score_leg: a fault is the worker's, a 4xx the request's.
score_leg(v, r, l, a) ==
    [v EXCEPT ![r][l] = @ \cup (IF a = "ok" THEN {"success"}
                                ELSE IF a = "bad" THEN {"neutral"} ELSE {"failure"})]

\* Mutant: the headers of a stream count as success.
score_leg_headersTrusting(v, r, l, a) == score_leg(v, r, l, a)

\* score_leg_headers: a 2xx header only frees the probe slot.
score_leg_headers(v, r, l, a) ==
    IF a = "ok" THEN [v EXCEPT ![r][l] = @ \cup {"neutral"}] ELSE score_leg(v, r, l, a)

\* The engines of the legs ls learn that nobody waits: their connection was
\* closed, a cancel signal sent, or /abort_request called.
Tell(e, r, ls) ==
    [e EXCEPT ![r] = [l \in Legs |-> IF l \in ls /\ @[l] = "running" THEN "told" ELSE @[l]]]

Hang(r, ls) == [l \in Legs |-> IF l \in ls /\ leg[r][l] = "open" THEN "closed" ELSE leg[r][l]]

\* _abort_pair reaches both engines, of a protocol with an id to abort by.
abort_pair(r) == IF mode[r].rid THEN Legs ELSE {}

Send(r, ls) ==
    /\ leg' = [leg EXCEPT ![r] = [l \in Legs |-> IF l \in ls THEN "open" ELSE @[l]]]
    /\ engine' = [engine EXCEPT ![r] = [l \in Legs |-> IF l \in ls THEN "running" ELSE @[l]]]
    /\ admits' = [admits EXCEPT ![r] = IF "d" \in ls THEN @ + 1 ELSE @]

-----------------------------------------------------------------------------
(* dispatch and _dispatch_pd *)

\* No worker of a role, two transports, an unknown protocol, no request id: an
\* error before anything is charged; a body that cannot be annotated: after.
reject(r) ==
    /\ pc[r] = "idle"
    /\ Goto(r, "over")
    /\ UNCHANGED <<mode, callVars>>

\* Up to the first wait: the backlogs, the prefill, both legs or, in the
\* generator of a streamed response, the prefill task and the decode's opening.
dispatch(r) ==
    /\ pc[r] = "idle"
    /\ Start
    /\ Become(r, IF mode[r].serial THEN "prefill"
                 ELSE IF mode[r].nats THEN "admit"
                 ELSE IF mode[r].stream THEN "opening" ELSE "both")
    /\ Send(r, IF mode[r].nats THEN {}
               ELSE IF mode[r].serial \/ mode[r].stream THEN {"p"} ELSE Legs)
    /\ UNCHANGED <<mode, tries, served, done, verdict, leaked>>

\* _concurrent_nats: the prefill drain is started, the decode published.
admit(r) ==
    /\ pc[r] = "admit"
    /\ Send(r, Legs)
    /\ Goto(r, IF mode[r].stream THEN "stream" ELSE "wait")
    /\ UNCHANGED <<mode, tries, served, done, verdict>>

\* One of the two is over its backlog limit: 429.
refuse(r) ==
    /\ pc[r] = "admit"
    /\ Release(r, Legs)
    /\ UNCHANGED <<mode, callVars>>

\* A leg that is awaited as a task of its own gets its answer.  Over NATS the
\* drain task scores the prefill itself.
answered(r, l, a) ==
    /\ leg[r][l] = "open"
    /\ l = "p" \/ pc[r] = "both"
    /\ pc[r] # "prefill"
    /\ leg' = [leg EXCEPT ![r][l] = a]
    /\ engine' = [engine EXCEPT ![r][l] = IF a = "lost" THEN "told" ELSE "over"]
    /\ verdict' = IF mode[r].nats THEN score_leg(verdict, r, l, a) ELSE verdict
    /\ UNCHANGED <<refs, mode, pc, tries, admits, served, done, leaked>>

-----------------------------------------------------------------------------
(* _dispatch_concurrent, unary over HTTP *)

\* Each leg is scored by its own answer; a failed pair is aborted first.
gathered(r) ==
    /\ pc[r] = "both"
    /\ \A l \in Legs : leg[r][l] # "open"
    /\ verdict' = score_leg(score_leg(verdict, r, "p", leg[r]["p"]), r, "d", leg[r]["d"])
    /\ IF \E l \in Legs : leg[r][l] \in {"fault", "lost"} THEN Goto(r, "abort")
       ELSE Release(r, Legs)
    /\ UNCHANGED <<mode, leg, engine, tries, admits, served, done>>

-----------------------------------------------------------------------------
(* _dispatch_serial *)

\* The prefill answers.  Unless it hands over what the decode needs, both
\* workers are released; if it does, its own is, and the decode is sent.
handoff(r) ==
    /\ pc[r] = "prefill"
    /\ Finish({"p"})
    /\ Become(r, IF mode[r].stream THEN "opening" ELSE "wait")
    /\ leg' = [leg EXCEPT ![r] = [p |-> "ok", d |-> IF mode[r].stream THEN "none" ELSE "open"]]
    /\ engine' = [engine EXCEPT ![r] = [p |-> "over",
                                        d |-> IF mode[r].stream THEN "idle" ELSE "running"]]
    /\ admits' = [admits EXCEPT ![r] = IF mode[r].stream THEN @ ELSE @ + 1]
    /\ verdict' = score_leg(verdict, r, "p", "ok")
    /\ UNCHANGED <<mode, tries, served, done, leaked>>

\* Mutant: the decode worker of a failed prefill stays charged.
prefill_failedKeepsDecode(r, a) ==
    /\ pc[r] = "prefill"
    /\ Release(r, {"p"})
    /\ leg' = [leg EXCEPT ![r]["p"] = a]
    /\ engine' = [engine EXCEPT ![r]["p"] = IF a = "lost" THEN "told" ELSE "over"]
    /\ verdict' = score_leg(verdict, r, "p", a)
    /\ UNCHANGED <<mode, tries, admits, served, done>>

\* An error, no JSON, no handoff fields or (an "ok" too) no annotated decode.
prefill_failed(r, a) ==
    /\ pc[r] = "prefill"
    /\ Release(r, Legs)
    /\ leg' = [leg EXCEPT ![r]["p"] = a]
    /\ engine' = [engine EXCEPT ![r]["p"] = IF a = "lost" THEN "told" ELSE "over"]
    /\ verdict' = score_leg(verdict, r, "p", a)
    /\ UNCHANGED <<mode, tries, admits, served, done>>

-----------------------------------------------------------------------------
(* The decode stream over HTTP: _stream_dual, _stream_decode_only *)

\* Mutant: without an id to abort by the prefill is left alone.
AbortedById(e, r) == Tell(e, r, abort_pair(r))

\* _finish_prefill(abort=True): the prefill's task is cancelled, which closes
\* its connection; an id to abort by is an extra step, not a precondition.
Aborted(e, r) == Tell(e, r, {"p"} \cup abort_pair(r))

\* The finally clause of a stream whose decode leg is left as d and whose
\* engines as e: the serial one is released; else a completed stream drains
\* its prefill, any other aborts it.
Settle(r, completed, d, e) ==
    /\ done' = [done EXCEPT ![r] = completed]
    /\ \/ /\ mode[r].serial
          /\ Release(r, {"d"})
          /\ leg' = [leg EXCEPT ![r]["d"] = d]
          /\ engine' = e
       \/ /\ ~mode[r].serial /\ completed
          /\ Goto(r, "drain")
          /\ leg' = [leg EXCEPT ![r]["d"] = d]
          /\ engine' = e
       \/ /\ ~mode[r].serial /\ ~completed
          /\ Goto(r, "abort")
          /\ leg' = [leg EXCEPT ![r] = [Hang(r, {"p"}) EXCEPT !["d"] = d]]
          /\ engine' = Aborted(e, r)

\* Mutant: one retry too many.
open_retryOneMore(r) ==
    /\ pc[r] = "opening"
    /\ tries[r] <= MaxOpenRetries
    /\ tries' = [tries EXCEPT ![r] = @ + 1]
    /\ UNCHANGED <<refs, mode, pc, leg, engine, admits, served, done, verdict, leaked>>

\* The connection cannot be established: _open_decode_stream tries again.
open_retry(r) ==
    /\ pc[r] = "opening"
    /\ tries[r] < MaxOpenRetries
    /\ tries' = [tries EXCEPT ![r] = @ + 1]
    /\ UNCHANGED <<refs, mode, pc, leg, engine, admits, served, done, verdict, leaked>>

\* Mutant: a request the engine may have is sent again.
open_lostRetries(r) ==
    /\ pc[r] = "opening"
    /\ tries[r] < MaxOpenRetries
    /\ tries' = [tries EXCEPT ![r] = @ + 1]
    /\ admits' = [admits EXCEPT ![r] = @ + 1]
    /\ UNCHANGED <<refs, mode, pc, leg, engine, served, done, verdict, leaked>>

\* The connection breaks once the request was sent: never tried again.
open_lost(r) ==
    /\ pc[r] = "opening"
    /\ admits' = [admits EXCEPT ![r] = @ + 1]
    /\ verdict' = score_leg(verdict, r, "d", "lost")
    /\ Settle(r, FALSE, "lost", [engine EXCEPT ![r]["d"] = "told"])
    /\ UNCHANGED <<mode, tries, served>>

open_failed(r) ==
    /\ pc[r] = "opening"
    /\ tries[r] = MaxOpenRetries
    /\ verdict' = score_leg(verdict, r, "d", "lost")
    /\ Settle(r, FALSE, "lost", engine)
    /\ UNCHANGED <<mode, tries, admits, served>>

headers(r, a) ==
    /\ pc[r] = "opening"
    /\ admits' = [admits EXCEPT ![r] = @ + 1]
    /\ verdict' = score_leg_headers(verdict, r, "d", a)
    /\ \/ /\ a = "ok"
          /\ leg' = [leg EXCEPT ![r]["d"] = "open"]
          /\ engine' = [engine EXCEPT ![r]["d"] = "running"]
          /\ Goto(r, "stream")
          /\ UNCHANGED done
       \/ a \in {"bad", "fault"} /\ Settle(r, FALSE, a, [engine EXCEPT ![r]["d"] = "over"])
    /\ UNCHANGED <<mode, tries, served>>

\* Data is passed on; over HTTP the end marker may be in it.
chunk(r, marked) ==
    /\ pc[r] = "stream"
    /\ marked => ~mode[r].nats
    /\ ~served[r] \/ (marked /\ ~done[r])      \* any other changes nothing
    /\ served' = [served EXCEPT ![r] = TRUE]
    /\ done' = [done EXCEPT ![r] = @ \/ marked]
    /\ verdict' = IF served[r] THEN verdict ELSE score_leg(verdict, r, "d", "ok")
    /\ UNCHANGED <<refs, mode, pc, leg, engine, tries, admits, leaked>>

\* The response ends, or breaks off; before its end marker both are failures.
stream_end(r, broken) ==
    /\ pc[r] = "stream"
    /\ ~mode[r].nats
    /\ Settle(r, done[r], IF broken THEN "lost" ELSE "ok",
              [engine EXCEPT ![r]["d"] = IF broken THEN "told" ELSE "over"])
    /\ UNCHANGED <<mode, tries, admits, served, verdict>>

-----------------------------------------------------------------------------
(* The decode leg over NATS: _stream_dual_nats, _concurrent_nats; the unary one
   of the serial topology *)

\* The done frame of a stream, with the engine's status.
stream_done(r, a) ==
    /\ pc[r] = "stream"
    /\ mode[r].nats
    /\ a # "lost"
    /\ Settle(r, a # "fault", a, [engine EXCEPT ![r]["d"] = "over"])
    /\ verdict' = IF a = "fault" THEN score_leg(verdict, r, "d", a) ELSE verdict
    /\ UNCHANGED <<mode, tries, admits, served>>

\* An error frame counts against a worker that delivered nothing.
stream_error(r) ==
    /\ pc[r] = "stream"
    /\ mode[r].nats
    /\ Settle(r, FALSE, "lost", [engine EXCEPT ![r]["d"] = "told"])
    /\ verdict' = IF served[r] THEN verdict ELSE score_leg(verdict, r, "d", "lost")
    /\ UNCHANGED <<mode, tries, admits, served>>

decoded(r, a) ==
    /\ pc[r] = "wait"
    /\ leg' = [leg EXCEPT ![r]["d"] = a]
    /\ verdict' = score_leg(verdict, r, "d", a)
    /\ LET e == [engine EXCEPT ![r]["d"] = IF a = "lost" THEN "told" ELSE "over"] IN
       \/ mode[r].serial /\ Release(r, {"d"}) /\ engine' = e
       \/ mode[r].nats /\ a \in {"ok", "bad"} /\ Goto(r, "drain") /\ engine' = e
       \/ /\ mode[r].nats /\ a \in {"fault", "lost"}
          /\ Goto(r, "nabort")
          /\ engine' = Tell(e, r, abort_pair(r))
    /\ UNCHANGED <<mode, tries, admits, served, done>>

\* No JSON: the pair has failed, but nobody is scored.
garbled(r) ==
    /\ pc[r] = "wait"
    /\ mode[r].nats
    /\ leg' = [leg EXCEPT ![r]["d"] = "ok"]
    /\ engine' = Tell([engine EXCEPT ![r]["d"] = "over"], r, abort_pair(r))
    /\ Goto(r, "nabort")
    /\ UNCHANGED <<mode, tries, admits, served, done, verdict>>

\* The broker refuses: the exception passes through the finally clause.
broker_error(r) ==
    /\ pc[r] \in {"wait", "stream"}
    /\ mode[r].nats
    /\ \/ /\ mode[r].stream
          /\ Settle(r, FALSE, "lost", [engine EXCEPT ![r]["d"] = "told"])
       \/ /\ ~mode[r].stream
          /\ leg' = [leg EXCEPT ![r]["d"] = "lost"]
          /\ engine' = [engine EXCEPT ![r]["d"] = "told"]
          /\ Goto(r, "drain")
          /\ UNCHANGED done
    /\ UNCHANGED <<mode, tries, admits, served, verdict>>

-----------------------------------------------------------------------------
(* The end of a pair: _finish_prefill and the releases *)

aborted(r) ==
    /\ pc[r] = "abort"
    /\ Release(r, Legs)
    /\ UNCHANGED <<mode, callVars>>

\* _concurrent_nats has aborted a failed pair, and drains its prefill next.
pair_aborted(r) ==
    /\ pc[r] = "nabort"
    /\ Goto(r, "drain")
    /\ UNCHANGED <<mode, callVars>>

\* The prefill has ended; over HTTP it is scored here.
drained(r) ==
    /\ pc[r] = "drain"
    /\ leg[r]["p"] \in Answers
    /\ verdict' = IF mode[r].nats THEN verdict ELSE score_leg(verdict, r, "p", leg[r]["p"])
    /\ Release(r, Legs)
    /\ UNCHANGED <<mode, leg, engine, tries, admits, served, done>>

\* Mutant: the drain of a prefill without an abort id is not bounded.
drain_timeoutById(r) ==
    /\ pc[r] = "drain"
    /\ leg[r]["p"] = "open"
    /\ mode[r].rid
    /\ leg' = [leg EXCEPT ![r]["p"] = "timedout"]
    /\ engine' = Aborted(engine, r)
    /\ verdict' = score_leg(verdict, r, "p", "lost")
    /\ Goto(r, "reap")
    /\ UNCHANGED <<mode, tries, admits, served, done>>

\* INFERA_PD_PREFILL_DRAIN_TIMEOUT: the prefill is given up.
drain_timeout(r) ==
    /\ pc[r] = "drain"
    /\ leg[r]["p"] = "open"
    /\ leg' = [leg EXCEPT ![r]["p"] = "timedout"]
    /\ engine' = Aborted(engine, r)
    /\ verdict' = score_leg(verdict, r, "p", "lost")
    /\ IF mode[r].rid THEN Goto(r, "reap") ELSE Release(r, Legs)
    /\ UNCHANGED <<mode, tries, admits, served, done>>

reaped(r) ==
    /\ pc[r] = "reap"
    /\ Release(r, Legs)
    /\ UNCHANGED <<mode, callVars>>

-----------------------------------------------------------------------------
(* The client leaves: the request is cancelled where it waits *)

drop_prefill(r) ==
    /\ pc[r] = "prefill"
    /\ leg' = [leg EXCEPT ![r] = Hang(r, Legs)]
    /\ engine' = Tell(engine, r, Legs)
    /\ Release(r, Legs)
    /\ UNCHANGED <<mode, tries, admits, served, done, verdict>>

\* A unary request: the serial decode is hung up; a pair is aborted under a
\* shield first.
drop_unary(r) ==
    /\ pc[r] \in {"both", "wait"}
    /\ leg' = [leg EXCEPT ![r] = Hang(r, Legs)]
    /\ engine' = Tell(engine, r, Legs)
    /\ IF mode[r].serial THEN Release(r, {"d"}) ELSE Goto(r, "abort")
    /\ UNCHANGED <<mode, tries, admits, served, done, verdict>>

drop_stream(r) ==
    /\ pc[r] \in {"opening", "stream"}
    /\ Settle(r, done[r], "closed", Tell(engine, r, {"d"}))
    /\ UNCHANGED <<mode, tries, admits, served, verdict>>

\* The stream was complete: the prefill is not torn down.
drop_draining(r) ==
    /\ pc[r] \in {"drain", "reap"}
    /\ mode[r].stream
    /\ Release(r, Legs)
    /\ UNCHANGED <<mode, callVars>>

\* The admission check, and the awaits in the finally clause of
\* _concurrent_nats, stand before the releases and are not guarded.
drop_unguarded(r) ==
    /\ pc[r] \in {"admit", "nabort"} \/ (pc[r] \in {"drain", "reap"} /\ ~mode[r].stream)
    /\ Leak(r)
    /\ UNCHANGED <<mode, callVars>>

\* r stands for another request, once nothing is left of it.
again(r) ==
    /\ pc[r] = "over"
    /\ leg[r]["p"] # "open"
    /\ Goto(r, "idle")
    /\ \E m \in Modes[r] : mode' = [mode EXCEPT ![r] = m]
    /\ leg' = [leg EXCEPT ![r] = [l \in Legs |-> "none"]]
    /\ engine' = [engine EXCEPT ![r] = [l \in Legs |-> "idle"]]
    /\ tries' = [tries EXCEPT ![r] = 0]
    /\ admits' = [admits EXCEPT ![r] = 0]
    /\ served' = [served EXCEPT ![r] = FALSE]
    /\ done' = [done EXCEPT ![r] = FALSE]
    /\ verdict' = [verdict EXCEPT ![r] = [l \in Legs |-> {}]]

-----------------------------------------------------------------------------

Wind(r) == aborted(r) \/ pair_aborted(r) \/ drained(r) \/ drain_timeout(r) \/ reaped(r)

Drop(r) ==
    \/ drop_prefill(r)
    \/ drop_unary(r)
    \/ drop_stream(r)
    \/ drop_draining(r)
    \/ drop_unguarded(r)

Decode(r) ==
    \/ open_retry(r)
    \/ open_lost(r)
    \/ open_failed(r)
    \/ \E a \in Answers : headers(r, a)
    \/ \E marked \in BOOLEAN : chunk(r, marked)
    \/ \E broken \in BOOLEAN : stream_end(r, broken)
    \/ \E a \in Answers : stream_done(r, a)
    \/ stream_error(r)
    \/ \E a \in Answers : decoded(r, a)
    \/ garbled(r)
    \/ broker_error(r)

Next ==
    \E r \in Requests :
        \/ reject(r)
        \/ dispatch(r)
        \/ admit(r)
        \/ refuse(r)
        \/ \E l \in Legs, a \in Answers : answered(r, l, a)
        \/ gathered(r)
        \/ handoff(r)
        \/ \E a \in Answers : prefill_failed(r, a)
        \/ Decode(r)
        \/ Wind(r)
        \/ Drop(r)
        \/ again(r)

Spec == Init /\ [][Next]_vars

\* Aborts end (each call is bounded and its errors swallowed) and the drain
\* timeout fires; a NATS call ends by its own timeouts.  Nothing is promised
\* about engines reached over HTTP, which have no read timeout, and clients.
FairSpec ==
    /\ Spec
    /\ \A r \in Requests :
        /\ WF_vars(Wind(r))
        /\ WF_vars(mode[r].nats /\ answered(r, "p", "lost"))

-----------------------------------------------------------------------------
(* Properties *)

Holds(r, l) == pc[r] \in Live /\ ~(l = "p" /\ mode[r].serial /\ pc[r] # "prefill")

\* Both workers of a pair are charged while it lasts, a serial prefill until it
\* has answered; every way out releases each of them once, except a
\* cancellation where no finally clause guards the await.
PairIsAccounted ==
    \A l \in Legs : refs[l]["b"] = Cardinality({r \in Requests : Holds(r, l)}) + leaked[l]

\* When a request is over no engine works on it unheard: what still runs is the
\* prefill of a pair whose decode was complete (of a stream) or had been
\* answered, its task still waiting for it.
NoneRunsUnheard ==
    \A r \in Requests, l \in Legs :
        pc[r] = "over" /\ engine[r][l] = "running" =>
            /\ l = "p" /\ leg[r]["p"] = "open"
            /\ IF mode[r].stream THEN done[r] ELSE leg[r]["d"] \in Answers

\* The breaker hears of each worker only what it did itself: success of one that
\* delivered, failure of one that failed, broke off or kept a drain waiting.
ScoredByItself ==
    \A r \in Requests, l \in Legs :
        /\ "success" \in verdict[r][l] => leg[r][l] = "ok" \/ (l = "d" /\ served[r])
        /\ "failure" \in verdict[r][l] => leg[r][l] \in {"fault", "lost", "timedout"}

\* However often its connection is tried, the decode engine gets a request once.
AdmittedOnce == \A r \in Requests : admits[r] <= 1

\* Once the decode is settled the workers are released, whatever the prefill does.
PairWindsUp ==
    \A r \in Requests : pc[r] \in {"abort", "nabort", "drain", "reap"} ~> pc[r] = "over"
=============================================================================
