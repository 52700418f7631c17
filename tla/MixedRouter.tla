----------------------------- MODULE MixedRouter -----------------------------
(***************************************************************************)
(* The router for plain workers (infera/router/mixed.py): a request is     *)
(* dispatched to one worker after another until one answers, a committed   *)
(* stream may be carried to another worker, and every attempt is charged   *)
(* to the policy while it lasts.  The breaker it is scored by has a module *)
(* of its own, CircuitBreaker.                                             *)
(*                                                                         *)
(* Each action is what one request does between two suspension points of   *)
(* the event loop.  Which candidates the breaker leaves and which of them  *)
(* the policy picks is left open; an answer is abstracted to its class:    *)
(*   "ok"  2xx/3xx     "bad"  4xx     "fault"  5xx or a transport error    *)
(***************************************************************************)
EXTENDS BlockRefs

CONSTANTS
    Requests,
    Fleets,             \* fleets to consider, each by its workers on NATS
    MaxRetries,         \* request_max_retries
    MigrationLimit,     \* migration_limit
    MaxLeaks,           \* bound: charges of one block that may be lost track of
    None

ASSUME RouterConfig ==
    /\ Fleets \subseteq SUBSET Workers
    /\ MaxRetries \in Nat
    /\ MigrationLimit \in Nat
    /\ None \notin Workers
    /\ MaxLeaks \in Nat
    /\ IsFiniteSet(Requests)

VARIABLES
    nats,       \* workers whose request_transport is nats
    fleet,      \* active workers of the model
    departed,   \* history: workers that were removed at least once
    leaked,     \* history: charges whose request ended without releasing them
    req         \* the requests

fleetVars == <<nats, fleet, departed>>
vars == <<refs, nats, fleet, departed, leaked, req>>

Answers == {"ok", "bad", "fault"}

\* choose: at the head of the retry loop; admit: waiting for the backlog of a
\* NATS worker; unary, peek: waiting for the response, the first event of the
\* stream; stream: the committed response is being read; resume: waiting for
\* the first event of a continuation.
Live == {"admit", "unary", "peek", "stream", "resume"}
Idle == [pc |-> "idle", streaming |-> FALSE, tried |-> {}, left |-> 0,
         worker |-> None, blocks |-> {}, next |-> None, nextBlocks |-> {}]
RequestStates ==
    [pc : Live \cup {"idle", "choose"}, streaming : BOOLEAN, tried : SUBSET Workers,
     left : 0..MigrationLimit, worker : Workers \cup {None}, blocks : SUBSET Blocks,
     next : Workers \cup {None}, nextBlocks : SUBSET Blocks]

TypeOK ==
    /\ RefsTypeOK
    /\ nats \in Fleets
    /\ fleet \in SUBSET Workers
    /\ departed \in SUBSET Workers
    /\ leaked \in [Workers -> [Blocks -> 0..MaxLeaks]]
    /\ req \in [Requests -> RequestStates]

Init ==
    /\ RefsInit
    /\ nats \in Fleets
    /\ fleet = Workers
    /\ departed = {}
    /\ leaked = refs
    /\ req = [r \in Requests |-> Idle]

-----------------------------------------------------------------------------

At(r, pc) == req[r].pc = pc
Become(r, new) == req' = [req EXCEPT ![r] = new]
Goto(r, pc) == Become(r, [req[r] EXCEPT !.pc = pc])
Leave(r) == Become(r, Idle)

Finish(r) == refs' = on_request_finished(refs, req[r].worker, req[r].blocks)
FinishBoth(r) ==
    refs' = on_request_finished(on_request_finished(refs, req[r].next, req[r].nextBlocks),
                                req[r].worker, req[r].blocks)

\* The ways a charge is lost: see broker_error, drop_unguarded and left_resuming.
Leak(w, bs) ==
    /\ \A b \in bs : leaked[w][b] < MaxLeaks
    /\ leaked' = on_request_started(leaked, w, bs)

dispatch(r, streaming) ==
    /\ At(r, "idle")
    /\ Become(r, [Idle EXCEPT !.pc = "choose", !.streaming = streaming, !.left = MigrationLimit])
    /\ UNCHANGED <<refs, fleetVars, leaked>>

\* The next turn of the retry loop: pick, and _attempt up to its first wait.
attempt(r, w, bs) ==
    /\ At(r, "choose")
    /\ Cardinality(req[r].tried) <= MaxRetries
    /\ w \in fleet \ req[r].tried
    /\ refs' = on_request_started(refs, w, bs)
    /\ Become(r, [req[r] EXCEPT !.tried = @ \cup {w}, !.worker = w, !.blocks = bs,
                     !.pc = IF w \in nats THEN "admit"
                            ELSE IF req[r].streaming THEN "peek" ELSE "unary"])
    /\ UNCHANGED <<fleetVars, leaked>>

\* Mutant: an exhausted fleet is waited out.
GiveUpWaits(r) ==
    /\ At(r, "choose")
    /\ Cardinality(req[r].tried) > MaxRetries
    /\ Leave(r)
    /\ UNCHANGED <<refs, fleetVars, leaked>>

\* No candidate or no retry left: the last error, or 503.
GiveUp(r) ==
    /\ At(r, "choose")
    /\ fleet \subseteq req[r].tried \/ Cardinality(req[r].tried) > MaxRetries
    /\ Leave(r)
    /\ UNCHANGED <<refs, fleetVars, leaked>>

admission(r) ==
    /\ At(r, "admit")
    /\ Goto(r, IF req[r].streaming THEN "peek" ELSE "unary")
    /\ UNCHANGED <<refs, fleetVars, leaked>>

\* The worker's backlog is at its limit: 429, on to another worker.
refuse(r) ==
    /\ At(r, "admit")
    /\ Finish(r)
    /\ Goto(r, "choose")
    /\ UNCHANGED <<fleetVars, leaked>>

\* _attempt_unary: only a fault is retried.
answer_unary(r, answer) ==
    /\ At(r, "unary")
    /\ Finish(r)
    /\ IF answer = "fault" THEN Goto(r, "choose") ELSE Leave(r)
    /\ UNCHANGED <<fleetVars, leaked>>

\* _attempt_stream: the first event is data.  Over NATS the body of an error
\* response is data too, its status comes with the done frame.
first_data(r, answer) ==
    /\ At(r, "peek")
    /\ answer = "ok" \/ req[r].worker \in nats
    /\ Goto(r, "stream")
    /\ UNCHANGED <<refs, fleetVars, leaked>>

\* The first event is an error, or the stream is empty: on to another worker.
first_error(r, answer) ==
    /\ At(r, "peek")
    /\ answer = "fault" \/ (answer = "bad" /\ req[r].worker \notin nats)
    /\ Finish(r)
    /\ Goto(r, "choose")
    /\ UNCHANGED <<fleetVars, leaked>>

\* The broker refuses the subscription or the publication: the exception ends
\* the request, through the finally clause of a unary one only.
broker_error(r) ==
    /\ req[r].worker \in nats
    /\ \/ At(r, "unary") /\ Finish(r) /\ UNCHANGED leaked
       \/ At(r, "peek") /\ Leak(req[r].worker, req[r].blocks) /\ UNCHANGED refs
    /\ Leave(r)
    /\ UNCHANGED fleetVars

\* The handler is cancelled: the client is gone, or the server shuts down.  Only
\* a unary attempt has a finally clause; a streaming one loses its charge while
\* the backlog is asked for, while the first event is awaited or, once that is
\* there, when nobody begins to read the response.
drop_unguarded(r) ==
    /\ \/ At(r, "unary") /\ Finish(r) /\ UNCHANGED leaked
       \/ /\ req[r].pc \in {"admit", "peek"}
          /\ Leak(req[r].worker, req[r].blocks)
          /\ UNCHANGED refs
    /\ Leave(r)
    /\ UNCHANGED fleetVars

-----------------------------------------------------------------------------
(* generate(): the committed stream *)

\* The done frame, the client's departure, or a break that cannot be carried.
end_stream(r) ==
    /\ At(r, "stream")
    /\ Finish(r)
    /\ Leave(r)
    /\ UNCHANGED <<fleetVars, leaked>>

\* The stream breaks and _resume_elsewhere finds another NATS worker.
resume_elsewhere(r, w, bs) ==
    /\ At(r, "stream")
    /\ req[r].worker \in nats
    /\ req[r].left > 0
    /\ w \in (fleet \cap nats) \ {req[r].worker}
    /\ refs' = on_request_started(refs, w, bs)
    /\ Become(r, [req[r] EXCEPT !.pc = "resume", !.left = @ - 1, !.next = w, !.nextBlocks = bs])
    /\ UNCHANGED <<fleetVars, leaked>>

\* Mutant: the carried generation stays charged to the worker that broke.
resumedKeepsOld(r) ==
    /\ At(r, "resume")
    /\ Become(r, [req[r] EXCEPT !.pc = "stream", !.worker = req[r].next,
                     !.blocks = req[r].nextBlocks, !.next = None, !.nextBlocks = {}])
    /\ UNCHANGED <<refs, fleetVars, leaked>>

\* Its first frame arrives: the charge moves to the new worker.
resumed(r) ==
    /\ At(r, "resume")
    /\ Finish(r)
    /\ Become(r, [req[r] EXCEPT !.pc = "stream", !.worker = req[r].next,
                     !.blocks = req[r].nextBlocks, !.next = None, !.nextBlocks = {}])
    /\ UNCHANGED <<fleetVars, leaked>>

\* It does not come: the stream ends with a visible error.
resume_failed(r) ==
    /\ At(r, "resume")
    /\ FinishBoth(r)
    /\ Leave(r)
    /\ UNCHANGED <<fleetVars, leaked>>

\* The client leaves, or the broker fails, while the frame is awaited: the
\* finally clause knows only the worker that broke.
left_resuming(r) ==
    /\ At(r, "resume")
    /\ Finish(r)
    /\ Leak(req[r].next, req[r].nextBlocks)
    /\ Leave(r)
    /\ UNCHANGED fleetVars

-----------------------------------------------------------------------------
(* Discovery *)

remove_worker(w) ==
    /\ w \in fleet
    /\ fleet' = fleet \ {w}
    /\ departed' = departed \cup {w}
    /\ refs' = on_worker_removed(refs, w)
    /\ leaked' = on_worker_removed(leaked, w)
    /\ UNCHANGED <<nats, req>>

add_worker(w) ==
    /\ w \notin fleet
    /\ fleet' = fleet \cup {w}
    /\ UNCHANGED <<refs, nats, departed, leaked, req>>

Progress(r) ==
    \/ \E w \in Workers, bs \in SUBSET Blocks : attempt(r, w, bs)
    \/ GiveUp(r)
    \/ admission(r)
    \/ refuse(r)
    \/ \E a \in Answers : answer_unary(r, a)
    \/ \E a \in Answers : first_data(r, a)
    \/ \E a \in Answers : first_error(r, a)

Next ==
    \/ \E r \in Requests, s \in BOOLEAN : dispatch(r, s)
    \/ \E r \in Requests : Progress(r)
    \/ \E r \in Requests : broker_error(r)
    \/ \E r \in Requests : drop_unguarded(r)
    \/ \E r \in Requests : end_stream(r)
    \/ \E r \in Requests, w \in Workers, bs \in SUBSET Blocks : resume_elsewhere(r, w, bs)
    \/ \E r \in Requests : resumed(r)
    \/ \E r \in Requests : resume_failed(r)
    \/ \E r \in Requests : left_resuming(r)
    \/ \E w \in Workers : remove_worker(w)
    \/ \E w \in Workers : add_worker(w)

Spec == Init /\ [][Next]_vars

\* The client of an HTTP worker has no read timeout: it may wait for ever.
WaitsOnHttp(r) == req[r].pc \in {"unary", "peek"} /\ req[r].worker \notin nats

\* Over NATS a worker answers or the idle timeout (on by default) does; nothing is
\* promised about HTTP workers, clients, streams and the fleet.
FairSpec == Spec /\ \A r \in Requests : WF_vars(Progress(r) /\ ~WaitsOnHttp(r))

-----------------------------------------------------------------------------
(* Properties. *)

\* The requests a worker is charged with for a block.
Users(w, b) ==
    {r \in Requests :
        \/ req[r].pc \in Live /\ req[r].worker = w /\ b \in req[r].blocks
        \/ req[r].pc = "resume" /\ req[r].next = w /\ b \in req[r].nextBlocks}

\* Through failovers, refusals and migrations a worker is charged for each
\* attempt in flight, for the streaming ones a broker error or a cancellation
\* broke off before their first event was read, and for nothing else; one that
\* left and came back may be charged too little, for the requests that started
\* before, never too much.
LoadIsAccounted ==
    \A w \in Workers, b \in Blocks :
        LET charges == Cardinality(Users(w, b)) + leaked[w][b]
        IN  /\ refs[w][b] <= charges
            /\ w \notin departed => refs[w][b] = charges

\* Every request gets its first byte or an error, however workers fail, refuse
\* or come and go, unless an HTTP worker it was sent to never answers: the
\* retry loop is bounded and never waits for a worker to join.
Answered ==
    \A r \in Requests :
        At(r, "choose") ~> (req[r].pc \in {"idle", "stream"} \/ []WaitsOnHttp(r))
=============================================================================
