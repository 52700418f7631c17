----------------------------- MODULE NatsRequest -----------------------------
(***************************************************************************)
(* The NATS request transport (infera/common/nats_request.py): routers     *)
(* send requests to one worker (NatsRequestClient), the worker proxies     *)
(* each to its engine in a task of its own (NatsRequestServer), and is     *)
(* drained when it is stopped.  The broker and the engine are external,    *)
(* modelled from how the two sides use them: messages of one subject keep  *)
(* their order, a signal to a worker may be lost, a reply to nobody is     *)
(* dropped, and a JetStream message stays until it is acknowledged.        *)
(*                                                                         *)
(* A request stands for its reply inbox, which is unique.  An action is    *)
(* what one coroutine does between two suspension points.                  *)
(***************************************************************************)
EXTENDS Naturals, Sequences, FiniteSets

CONSTANTS
    Incoming,       \* the requests
    Migratable,     \* requests whose router can continue them elsewhere
    Limits,         \* the admission limits to consider
    MaxChunks,      \* bound: data frames of one reply
    Void

ASSUME TransportConfig ==
    /\ IsFiniteSet(Incoming)
    /\ Migratable \subseteq Incoming
    /\ Limits \subseteq Nat
    /\ MaxChunks \in Nat
    /\ Void \notin Nat \cup Incoming

VARIABLES
    cache,      \* the router's cached backlog, or Void
    client,     \* per request: the router's side of it
    frames,     \* replies published and not read yet
    message,    \* the request message (see Messages)
    signals,    \* requests with a cancel signal on its way
    task,       \* the worker's proxy task
    chunks,     \* data frames a task has sent
    inflight,   \* _inflight
    migratable, \* _migratable
    handed,     \* _handed_back
    server,     \* how far stop() has come
    toHand,     \* requests _hand_back_migratable has still to tell
    noticed,    \* the one it has told and not yet cancelled, or Void
    maxPending  \* admission limit; 0: off, core NATS instead of JetStream

clientVars == <<cache, client>>
stopVars == <<server, toHand, noticed>>
serverVars == <<inflight, migratable, handed, server, toHand, noticed>>
natsVars == <<cache, client, frames, message, signals, task, chunks,
          inflight, migratable, handed, server, toHand, noticed, maxPending>>

\* over: refused, answered, handed back or abandoned.
ClientStates == {"idle", "admitted", "waiting", "over"}
\* new: not started yet; closing: past its last reply, about to clean up;
\* dead: cancelled before it started, so that no line of it ever ran.
TaskStates == {"none", "new", "run", "cancelled", "closing", "ended", "dead"}
\* queued: _await_queued; closed: the door is about to be; waiting: for what
\* is in flight; handing: the resumable part back; closing: the rest is
\* cancelled; down: disconnected.
ServerStates == {"up", "queued", "closed", "waiting", "handing", "closing", "down"}
\* queued: at the broker; local: in the worker's subscription; delivered: to
\* _on_request; lost: nobody will ever take it.
Messages == {"none", "queued", "local", "delivered", "acked", "lost"}
Frames == {"data", "done", "error", "cancelled", "notice"}

NatsTypeOK ==
    /\ cache \in Nat \cup {Void}
    /\ client \in [Incoming -> ClientStates]
    /\ frames \in [Incoming -> Seq(Frames)]
    /\ message \in [Incoming -> Messages]
    /\ signals \in SUBSET Incoming
    /\ task \in [Incoming -> TaskStates]
    /\ chunks \in [Incoming -> 0..MaxChunks]
    /\ inflight \in SUBSET Incoming
    /\ migratable \in SUBSET Migratable
    /\ handed \in SUBSET Incoming
    /\ server \in ServerStates
    /\ toHand \in SUBSET Incoming
    /\ noticed \in Incoming \cup {Void}
    /\ maxPending \in Limits

NatsInit ==
    /\ cache = Void
    /\ client = [r \in Incoming |-> "idle"]
    /\ frames = [r \in Incoming |-> <<>>]
    /\ message = [r \in Incoming |-> "none"]
    /\ signals = {}
    /\ task = [r \in Incoming |-> "none"]
    /\ chunks = [r \in Incoming |-> 0]
    /\ inflight = {} /\ migratable = {} /\ handed = {}
    /\ server = "up"
    /\ toHand = {} /\ noticed = Void
    /\ maxPending \in Limits

-----------------------------------------------------------------------------
(* The router: NatsRequestClient *)

Becomes(f, r, s) == [f EXCEPT ![r] = s]

\* num_pending + num_ack_pending of the worker's consumer.
backlog == Cardinality({r \in Incoming : message[r] \in {"queued", "local", "delivered"}})

\* admit(), with the limit off or the backlog unreadable, or with a value
\* that is cached or read now.
admit(r) ==
    /\ client[r] = "idle"
    /\ \/ /\ client' = Becomes(client, r, "admitted")
          /\ UNCHANGED cache
       \/ /\ maxPending > 0
          /\ cache' = IF cache = Void THEN backlog ELSE cache
          /\ client' = Becomes(client, r, IF cache' < maxPending THEN "admitted" ELSE "over")
    /\ UNCHANGED <<frames, message, signals, task, chunks, serverVars, maxPending>>

\* The cached backlog is older than _cache_ttl_s.
CacheExpires ==
    /\ cache # Void
    /\ cache' = Void
    /\ UNCHANGED <<client, frames, message, signals, task, chunks, serverVars, maxPending>>

Listening == server \in {"up", "queued", "closed"}

\* stream(): subscribe to the inbox, publish.  On core NATS nobody may be
\* listening any more; a JetStream message stays where it is.
publish(r) ==
    /\ client[r] = "admitted"
    /\ client' = Becomes(client, r, "waiting")
    /\ message' = Becomes(message, r, IF Listening \/ maxPending > 0 THEN "queued" ELSE "lost")
    /\ UNCHANGED <<cache, frames, signals, task, chunks, serverVars, maxPending>>

\* The next frame; a terminal one ends the stream.
read(r) ==
    /\ client[r] = "waiting"
    /\ frames[r] # <<>>
    /\ client' = Becomes(client, r, IF Head(frames[r]) = "data" THEN "waiting" ELSE "over")
    /\ frames' = Becomes(frames, r, Tail(frames[r]))
    /\ UNCHANGED <<cache, message, signals, task, chunks, serverVars, maxPending>>

\* No frame within the idle timeout, none left of the total one, or the
\* client of the router disconnects: the finally clause sends the cancel.
abandon(r) ==
    /\ client[r] = "waiting"
    /\ client' = Becomes(client, r, "over")
    /\ signals' = signals \cup {r}
    /\ UNCHANGED <<cache, frames, message, task, chunks, serverVars, maxPending>>

-----------------------------------------------------------------------------
(* The worker: NatsRequestServer *)

\* Replies of a worker that has disconnected, or to nobody, are lost.
Reply(r, f) ==
    frames' = IF server = "down" \/ client[r] # "waiting" THEN frames
              ELSE Becomes(frames, r, Append(frames[r], f))

\* The broker hands a message to the worker's subscription.
deliver(r) ==
    /\ Listening
    /\ message[r] = "queued"
    /\ message' = Becomes(message, r, "local")
    /\ UNCHANGED <<clientVars, frames, signals, task, chunks, serverVars, maxPending>>

\* _on_request, called with a message of the subscription.
on_request(r) ==
    /\ Listening
    /\ message[r] = "local"
    /\ message' = Becomes(message, r, "delivered")
    /\ task' = Becomes(task, r, "new")
    /\ inflight' = inflight \cup {r}
    /\ migratable' = migratable \cup ({r} \cap Migratable)
    /\ UNCHANGED <<clientVars, frames, signals, chunks, handed, stopVars, maxPending>>

\* task.cancel(): thrown into the task at its next suspension; one that has
\* not started yet is over without running at all.
Cancelled(t) ==
    CASE t = "new" -> "dead"
      [] t \in {"run", "closing"} -> "cancelled"
      [] OTHER -> t

Cancel(rs) == task' = [r \in Incoming |-> IF r \in rs THEN Cancelled(task[r]) ELSE task[r]]

\* _on_cancel, or the signal is lost.
on_cancel(r) ==
    /\ r \in signals
    /\ \/ /\ server # "down"
          /\ Cancel({r} \cap inflight)
       \/ UNCHANGED task
    /\ signals' \in {signals, signals \ {r}}
    /\ UNCHANGED <<clientVars, frames, message, chunks, serverVars, maxPending>>

\* _proxy starts.
proxy(r) ==
    /\ task[r] = "new"
    /\ task' = Becomes(task, r, "run")
    /\ UNCHANGED <<clientVars, frames, message, signals, chunks, serverVars, maxPending>>

\* _do_proxy: a chunk of the engine's answer.
send_data(r) ==
    /\ task[r] = "run"
    /\ chunks[r] < MaxChunks
    /\ Reply(r, "data")
    /\ chunks' = [chunks EXCEPT ![r] = @ + 1]
    /\ UNCHANGED <<clientVars, message, signals, task, serverVars, maxPending>>

\* Mutant: an exception is not reported.
send_lastSilent(r, f) ==
    /\ task[r] = "run"
    /\ IF f = "error" THEN UNCHANGED frames ELSE Reply(r, f)
    /\ task' = Becomes(task, r, "closing")
    /\ UNCHANGED <<clientVars, message, signals, chunks, serverVars, maxPending>>

\* The end of the answer, or an exception: the engine is gone, or the request
\* took longer than the total timeout.
send_last(r, f) ==
    /\ task[r] = "run"
    /\ Reply(r, f)
    /\ task' = Becomes(task, r, "closing")
    /\ UNCHANGED <<clientVars, message, signals, chunks, serverVars, maxPending>>

\* CancelledError: a request that was handed back has been told already.
cancelled(r) ==
    /\ task[r] = "cancelled"
    /\ IF r \in handed THEN UNCHANGED frames ELSE Reply(r, "cancelled")
    /\ task' = Becomes(task, r, "closing")
    /\ UNCHANGED <<clientVars, message, signals, chunks, serverVars, maxPending>>

\* Mutant: the message is not acknowledged.
cleanupNoAck(r) ==
    /\ task[r] = "closing"
    /\ task' = Becomes(task, r, "ended")
    /\ inflight' = inflight \ {r}
    /\ migratable' = migratable \ {r}
    /\ handed' = handed \ {r}
    /\ UNCHANGED <<clientVars, frames, message, signals, chunks, stopVars, maxPending>>

\* The finally clause of _proxy; an ack needs the connection.
cleanup(r) ==
    /\ task[r] = "closing"
    /\ task' = Becomes(task, r, "ended")
    /\ inflight' = inflight \ {r}
    /\ migratable' = migratable \ {r}
    /\ handed' = handed \ {r}
    /\ message' = IF server = "down" THEN message ELSE Becomes(message, r, "acked")
    /\ UNCHANGED <<clientVars, frames, signals, chunks, stopVars, maxPending>>
-----------------------------------------------------------------------------
(* The worker leaves: stop(drain=True) *)

Running(r) == task[r] \in {"new", "run", "cancelled", "closing"}

Stage(from, to) == server = from /\ server' = to

stop ==
    /\ Stage("up", IF maxPending > 0 THEN "queued" ELSE "closed")
    /\ UNCHANGED <<clientVars, frames, message, signals, task, chunks,
                   inflight, migratable, handed, toHand, noticed, maxPending>>

\* _await_queued: nothing is pending any more, or it gives up.
await_queued ==
    /\ Stage("queued", "closed")
    /\ UNCHANGED <<clientVars, frames, message, signals, task, chunks,
                   inflight, migratable, handed, toHand, noticed, maxPending>>

\* The request subject is unsubscribed: what the subscription still holds is
\* discarded, and so is what core NATS has not delivered.
unsubscribe ==
    /\ Stage("closed", "waiting")
    /\ message' = [r \in Incoming |->
                     IF message[r] = "local" \/ (message[r] = "queued" /\ maxPending = 0)
                     THEN "lost" ELSE message[r]]
    /\ UNCHANGED <<clientVars, frames, signals, task, chunks,
                   inflight, migratable, handed, toHand, noticed, maxPending>>

\* What is in flight is done, or has no time left; the list to hand back is drawn up.
drained ==
    /\ Stage("waiting", "handing")
    /\ toHand' = {r \in migratable : r \in inflight /\ Running(r)}
    /\ UNCHANGED <<clientVars, frames, message, signals, task, chunks,
                   inflight, migratable, handed, noticed, maxPending>>

\* Mutant: the task is not marked as told.
hand_backUnmarked(r) ==
    /\ server = "handing"
    /\ noticed = Void
    /\ r \in toHand
    /\ toHand' = toHand \ {r}
    /\ noticed' = r
    /\ Reply(r, "notice")
    /\ UNCHANGED <<clientVars, message, signals, task, chunks,
                   inflight, migratable, handed, server, maxPending>>

\* _hand_back_migratable: first the notice,
hand_back(r) ==
    /\ server = "handing"
    /\ noticed = Void
    /\ r \in toHand
    /\ toHand' = toHand \ {r}
    /\ noticed' = r
    /\ handed' = handed \cup {r}
    /\ Reply(r, "notice")
    /\ UNCHANGED <<clientVars, message, signals, task, chunks,
                   inflight, migratable, server, maxPending>>

\* then the cancellation.
hand_back_cancel ==
    /\ noticed # Void
    /\ Cancel({noticed} \cap inflight)
    /\ noticed' = Void
    /\ migratable' = IF toHand = {} THEN {} ELSE migratable
    /\ UNCHANGED <<clientVars, frames, message, signals, chunks,
                   inflight, handed, server, toHand, maxPending>>

\* Whatever is left is cancelled.
cancel_rest ==
    /\ Stage("handing", "closing")
    /\ toHand = {} /\ noticed = Void
    /\ Cancel(inflight)
    /\ inflight' = {}
    /\ UNCHANGED <<clientVars, frames, message, signals, chunks,
                   migratable, handed, toHand, noticed, maxPending>>

\* The consumer is deleted and the connection closed.
disconnect ==
    /\ Stage("closing", "down")
    /\ UNCHANGED <<clientVars, frames, message, signals, task, chunks,
                   inflight, migratable, handed, toHand, noticed, maxPending>>

RouterStep(r) == admit(r) \/ publish(r) \/ read(r)
WorkerStep(r) ==
    \/ deliver(r) \/ on_request(r) \/ proxy(r) \/ cancelled(r) \/ cleanup(r)
    \/ \E f \in {"done", "error"} : send_last(r, f)

NatsNext ==
    \/ \E r \in Incoming : RouterStep(r)
    \/ \E r \in Incoming : WorkerStep(r)
    \/ \E r \in Incoming : send_data(r)
    \/ \E r \in Incoming : abandon(r)
    \/ \E r \in Incoming : on_cancel(r)
    \/ \E r \in Incoming : hand_back(r)
    \/ CacheExpires
    \/ stop \/ await_queued \/ unsubscribe \/ drained \/ hand_back_cancel
    \/ cancel_rest \/ disconnect

NatsSpec == NatsInit /\ [][NatsNext]_natsVars

\* Both event loops run, and an engine finishes its answer or fails.
NatsFairSpec ==
    /\ NatsSpec
    /\ \A r \in Incoming : WF_natsVars(RouterStep(r)) /\ WF_natsVars(WorkerStep(r))

-----------------------------------------------------------------------------
(* Properties. *)

\* A drain is a planned handover: "it must not get a second, contradictory
\* error frame", and no request whose router can continue it elsewhere is
\* told it was cancelled, whatever it was doing when the worker left; only
\* such a request is handed back.
DrainIsPlanned ==
    \A r \in Incoming : \A i \in 1..Len(frames[r]) :
        frames[r][i] # (IF r \in Migratable THEN "cancelled" ELSE "notice")

\* "the stream's per-worker consumer pending count is a live backlog gauge":
\* as long as the consumer exists, what _on_request took and has not
\* acknowledged is being worked on, and what is worked on is counted; the one
\* exception is a task that was cancelled before it ran a line.
GaugeIsLive ==
    server \notin {"closing", "down"} =>
        \A r \in Incoming : message[r] = "delivered" <=> Running(r) \/ task[r] = "dead"

\* As long as the worker is up a request is answered, without help from the
\* timeouts, whatever happens to the engine and to other requests.
EachAnswered ==
    \A r \in Incoming :
        (client[r] = "waiting" /\ server = "up") ~> (client[r] = "over" \/ server # "up")
=============================================================================
