------------------------------- MODULE KvView -------------------------------
(***************************************************************************)
(* The router's picture of one worker's KV cache, over NATS.  The engine   *)
(* publishes what it caches and evicts; the relay in the worker's process  *)
(* (infera/kv/nats_relay.py) forwards each event to a JetStream stream,    *)
(* keeps a view of its own and copies that view into a JetStream KV        *)
(* bucket; a router (infera/router/kv_event) replays the stream into its   *)
(* view of the worker and seeds an empty view from the bucket.  Before the *)
(* worker registers it flushes its engine until the relay has seen the     *)
(* flush (infera/engine/flush.py).                                         *)
(*                                                                         *)
(* One worker with one rank.  The bucket is shared by every rank of every   *)
(* worker: the others write keys of their own, and one that rebuilds the   *)
(* bucket drops this worker's key with it (AnotherRebuilds).  A block      *)
(* stands for its engine hash and for its router hash, one being computed  *)
(* from the other.  The engine, the ZMQ socket and the broker are external *)
(* and modelled from their use: what is published before the socket is     *)
(* attached is lost, stream and bucket keep the order of the writes, and a *)
(* reader of the one is not ordered with a reader of the other.  An action *)
(* is what one coroutine does between two suspension points.               *)
(***************************************************************************)
EXTENDS Naturals, Sequences

CONSTANTS
    Blocks,
    Root,       \* ROUTER_SEED, the parent of a chain's first block
    Parent,     \* per block: the block before it, or Root
    None,
    Budgets     \* bounds: how often each of Bounded may happen

\* "flushes" are the attempts of anchor_kv_chain; the others are the world's.
Bounded == {"events", "flushes", "restarts", "tracks", "coldStarts",
            "streamFaults", "bucketFaults"}

\* A write of a view into the bucket; again: after a rebuild of the bucket.
Writers == {"loop", "drain"}
Writes == [writer : Writers, view : SUBSET Blocks, again : BOOLEAN]

Caches == [view : SUBSET Blocks, map : SUBSET Blocks]
Subs == [key : Nat, view : SUBSET Blocks, map : SUBSET Blocks]
\* aligned: as many block hashes as the event's tokens make blocks.
Events == [kind : {"stored"}, block : Blocks, aligned : BOOLEAN]
          \cup [kind : {"removed"}, block : Blocks] \cup [kind : {"cleared"}]

ASSUME KvConfig ==
    /\ Root \notin Blocks
    /\ None \notin Writes /\ None \notin Events /\ None \notin Subs
    /\ Parent \in [Blocks -> Blocks \cup {Root}]
    /\ Budgets \subseteq [Bounded -> Nat]

VARIABLES
    engine,     \* blocks the engine has cached
    wire,       \* events on their way from the engine to the relay
    attached,   \* whether the relay's SUB socket has reached the engine
    phase,      \* how far the worker's start-up has come
    blurred,    \* history: a block was announced unaligned since the last clear
    flushed,    \* whether anchor_kv_chain has tried a flush
    observed,   \* cleared_observed
    relay,      \* the relay's view and map
    hand,       \* the event _loop has published and not applied, or None
    looping,    \* whether the task of _loop is alive
    dirty,      \* _dirty
    due,        \* whether _BUCKET_WRITE_INTERVAL_S has passed
    kvHealed,   \* _kv_healed
    puts,       \* bucket writes on their way, in the order they were issued
    rebuilding, \* the write waiting for rebuild_kv_view_store, or None
    healed,     \* _stream_healed
    stream,     \* the event stream
    bucket,     \* the worker's value in the KV bucket
    key,        \* decision_key of the worker's process
    sub,        \* the router's WorkerSubscription, or None
    started,    \* _started
    cursor,     \* next stream message for the router; 0: none will come
    watch,      \* the router's watch of the bucket
    feed,       \* bucket entries on their way to the router
    budget,     \* what is left of a member of Budgets
    lossAt,     \* history: stream length when an event was last lost
    exact,      \* history: sub has had every event since a clear
    stale       \* history: why a clean bucket may differ from the view

engineVars == <<engine, wire, attached, blurred>>
startVars == <<phase, flushed>>
writeVars == <<dirty, due, kvHealed, puts, rebuilding, bucket, feed, stale>>
relayVars == <<observed, relay, hand, looping, healed>>
streamVars == <<stream, lossAt>>
routerVars == <<sub, started, cursor, watch, exact>>
vars == <<engineVars, startVars, writeVars, relayVars, streamVars,
          routerVars, key, budget>>

Empty == [view |-> {}, map |-> {}]
Cleared == [kind |-> "cleared"]

TypeOK ==
    /\ engine \subseteq Blocks /\ bucket \subseteq Blocks
    /\ wire \in Seq(Events) /\ stream \in Seq(Events)
    /\ puts \in Seq(Writes) /\ feed \in Seq(SUBSET Blocks)
    /\ rebuilding \in Writes \cup {None}
    /\ relay \in Caches
    /\ hand \in Events \cup {None}
    /\ sub \in Subs \cup {None}
    /\ phase \in {"launched", "anchoring", "flushing", "registered"}
    /\ {attached, blurred, flushed, observed, looping, dirty, due, kvHealed, healed, started,
        exact} \subseteq BOOLEAN
    /\ watch \in {"no", "live", "dead"}
    /\ budget \in [Bounded -> Nat] /\ key \in Nat
    /\ cursor \in Nat /\ cursor <= Len(stream) + 1
    /\ lossAt \in 0 .. Len(stream)
    /\ stale \in {"no", "restart", "heal", "shared"}

Init ==
    /\ engine = {} /\ wire = <<>> /\ attached = FALSE /\ blurred = FALSE
    /\ phase = "launched" /\ flushed = FALSE
    /\ observed = FALSE /\ relay = Empty /\ hand = None
    /\ looping = FALSE /\ healed = FALSE
    /\ dirty = FALSE /\ due = TRUE /\ kvHealed = FALSE
    /\ puts = <<>> /\ rebuilding = None /\ bucket = {}
    /\ stream = <<>> /\ lossAt = 0
    /\ key = 1
    /\ sub = None /\ started = FALSE /\ cursor = 0 /\ watch = "no" /\ feed = <<>>
    /\ budget \in Budgets
    /\ exact = FALSE /\ stale = "no"

Spend(what) ==
    /\ budget[what] > 0
    /\ budget' = [budget EXCEPT ![what] = @ - 1]
-----------------------------------------------------------------------------
\* Applying an event: shared by the relay and the router.

\* _on_block_stored: a block whose parent is unknown is dropped; one whose
\* lengths do not agree is indexed and its hash is not remembered.
OnBlockStored(c, e) ==
    IF Parent[e.block] \in c.map \cup {Root}
    THEN [c EXCEPT !.view = @ \cup {e.block},
                   !.map = IF e.aligned THEN @ \cup {e.block} ELSE @]
    ELSE c

\* A removal finds its block through the map only.
OnBlockRemoved(c, e) ==
    [c EXCEPT !.view = IF e.block \in c.map THEN @ \ {e.block} ELSE @,
              !.map = @ \ {e.block}]

HandleEvent(c, e) ==
    CASE e.kind = "stored" -> OnBlockStored(c, e)
      [] e.kind = "removed" -> OnBlockRemoved(c, e)
      [] e.kind = "cleared" -> [c EXCEPT !.view = {}, !.map = {}]
-----------------------------------------------------------------------------
\* JetStream's event stream.

\* Mutant: the place in the old stream is kept.
ResumeAtKept == {cursor}
\* Where a router goes on when the stream was created again, if it does.
ResumeAt == {0, IF cursor = 0 THEN 0 ELSE 1}

\* ensure_event_stream and the publish that may follow it: the stream is kept
\* or, its store having failed, dropped and created again in memory; the event
\* is sent or lost.
EnsureEventStream(recreated, sent) ==
    LET kept == IF recreated THEN <<>> ELSE stream
        lost == recreated \/ sent = <<>>
    IN  /\ stream' = kept \o sent
        /\ lossAt' = IF lost THEN Len(kept) ELSE lossAt
        /\ exact' = (exact /\ ~lost)
        /\ IF recreated THEN cursor' \in ResumeAt
                        ELSE UNCHANGED cursor

\* As part of starting up, where a failure of the store may be met.
EnsureAtStart ==
    \/ UNCHANGED <<stream, lossAt, cursor, exact, budget>>
    \/ Spend("streamFaults") /\ EnsureEventStream(TRUE, <<>>)
-----------------------------------------------------------------------------
\* The engine and the worker's start-up.

\* The engine's PUB socket: who is not attached does not hear.
Publish(e) == wire' = IF attached THEN Append(wire, e) ELSE wire

UnchangedByEngine ==
    UNCHANGED <<attached, writeVars, relayVars, streamVars, routerVars, key>>

StoreBlock(b, aligned) ==
    /\ b \notin engine /\ Parent[b] \in engine \cup {Root}
    /\ Spend("events")
    /\ engine' = engine \cup {b}
    /\ Publish([kind |-> "stored", block |-> b, aligned |-> aligned])
    /\ blurred' = (blurred \/ ~aligned)
    /\ UNCHANGED startVars /\ UnchangedByEngine

EvictBlock(b) ==
    /\ b \in engine /\ \A c \in engine : Parent[c] # b
    /\ Spend("events")
    /\ engine' = engine \ {b}
    /\ Publish([kind |-> "removed", block |-> b])
    /\ UNCHANGED <<blurred, startVars>> /\ UnchangedByEngine

Clear == engine' = {} /\ blurred' = FALSE /\ Publish(Cleared)

\* The engine drops its prefix cache of itself.
ClearCache ==
    /\ engine # {}
    /\ Spend("events")
    /\ Clear
    /\ UNCHANGED startVars /\ UnchangedByEngine

\* KvEventNatsRelay.start, which the worker awaits before it anchors.
StartRelay ==
    /\ phase = "launched"
    /\ EnsureAtStart
    /\ phase' = "anchoring" /\ looping' = TRUE
    /\ UNCHANGED <<engineVars, flushed, observed, relay, hand, healed, writeVars,
                   sub, started, watch, key>>

\* The connect of a ZMQ socket completes some time after it was asked for.
Attach ==
    /\ phase # "launched" /\ ~attached
    /\ attached' = TRUE
    /\ UNCHANGED <<engine, wire, blurred, startVars, writeVars, relayVars, streamVars,
                   routerVars, key, budget>>

\* A round of anchor_kv_chain posts a flush ...
PostFlush ==
    /\ phase = "anchoring" /\ ~observed
    /\ Spend("flushes")
    /\ phase' = "flushing" /\ flushed' = TRUE
    /\ UNCHANGED <<engineVars, writeVars, relayVars, streamVars, routerVars, key>>

\* ... which the engine carries out, or refuses while it is busy.
Flush ==
    /\ phase = "flushing"
    /\ phase' = "anchoring"
    /\ Clear \/ UNCHANGED <<engine, blurred, wire>>
    /\ UNCHANGED <<flushed, budget>> /\ UnchangedByEngine

\* The clear was observed, or the attempts or the deadline ran out: either
\* way the worker registers, and says nothing of which it was.
Register ==
    /\ phase = "anchoring" /\ (observed \/ flushed)
    /\ phase' = "registered"
    /\ UNCHANGED <<engineVars, flushed, writeVars, relayVars, streamVars, routerVars,
                   key, budget>>
-----------------------------------------------------------------------------
\* KvEventNatsRelay._loop.

Free(writer) ==
    /\ \A i \in 1 .. Len(puts) : puts[i].writer # writer
    /\ rebuilding # None => rebuilding.writer # writer

\* A batch is received and published; of the two outcomes of a publish that
\* reports a failure, the one where the event was stored is Forward.
Receive ==
    /\ looping /\ hand = None /\ Free("loop") /\ wire # <<>>
    /\ hand' = Head(wire) /\ wire' = Tail(wire)
    /\ UNCHANGED <<engine, attached, blurred, startVars, writeVars, observed, relay,
                   looping, sub, started, watch, key>>

Forward ==
    /\ Receive
    /\ stream' = Append(stream, hand')
    /\ UNCHANGED <<healed, lossAt, cursor, exact, budget>>

DropEvent ==
    /\ Receive
    /\ Spend("streamFaults")
    /\ lossAt' = Len(stream) /\ exact' = FALSE
    /\ UNCHANGED <<stream, healed, cursor>>

\* The first failure of the store heals the stream and publishes again.
HealStream ==
    /\ ~healed /\ healed' = TRUE
    /\ Receive
    /\ Spend("streamFaults")
    /\ \E recreated \in BOOLEAN, sent \in {<<>>, <<hand'>>} :
           EnsureEventStream(recreated, sent)

\* _maybe_write_bucket up to its first await.
BeginWrite(writer, view) ==
    /\ due' = FALSE /\ dirty' = FALSE
    /\ puts' = Append(puts, [writer |-> writer, view |-> view, again |-> FALSE])

\* Mutant: any event counts as the clear.
AnchorsOnAny(e) == TRUE
\* What sets cleared_observed.
Anchors(e) == e.kind = "cleared"

\* The rest of _loop: apply the event to the relay's view, then write the
\* view unless the last write is too recent.
Apply ==
    /\ looping /\ hand # None
    /\ relay' = HandleEvent(relay, hand)
    /\ observed' = (observed \/ Anchors(hand))
    /\ hand' = None
    /\ IF due THEN BeginWrite("loop", relay'.view)
              ELSE dirty' = TRUE /\ UNCHANGED <<due, puts>>
    /\ stale' = "no"
    /\ UNCHANGED <<engineVars, startVars, kvHealed, rebuilding, bucket, feed, looping,
                   healed, streamVars, routerVars, key, budget>>
-----------------------------------------------------------------------------
\* Writing the view into the bucket.

\* Mutant: only an event prompts a write.
DrainsOnEvent == dirty /\ due /\ wire # <<>>
Drains == dirty /\ due

\* One tick of _drain_dirty.
Drain ==
    /\ phase # "launched" /\ Free("drain") /\ Drains
    /\ BeginWrite("drain", relay.view)
    /\ UNCHANGED <<engineVars, startVars, kvHealed, rebuilding, bucket, feed, stale,
                   relayVars, streamVars, routerVars, key, budget>>

IntervalPasses ==
    /\ ~due /\ due' = TRUE
    /\ UNCHANGED <<engineVars, startVars, dirty, kvHealed, puts, rebuilding, bucket, feed,
                   stale, relayVars, streamVars, routerVars, key, budget>>

\* The broker stores a value and pushes it to whoever watches.
Store(views) ==
    /\ bucket' = IF views = <<>> THEN bucket ELSE views[Len(views)]
    /\ feed' = IF watch = "live" THEN feed \o views ELSE feed

UnchangedByWrite ==
    UNCHANGED <<engineVars, startVars, due, relay, hand, observed, healed, streamVars,
                sub, started, cursor, exact, key>>

\* The write after a rebuild declares the view clean, whatever it is by now.
PutDone ==
    /\ puts # <<>>
    /\ puts' = Tail(puts)
    /\ Store(<<Head(puts).view>>)
    /\ dirty' = (dirty /\ ~Head(puts).again)
    /\ stale' = IF Head(puts).view = relay.view THEN "no"
                ELSE IF Head(puts).again THEN "heal" ELSE stale
    /\ UNCHANGED <<kvHealed, rebuilding, looping, watch, budget>> /\ UnchangedByWrite

\* Mutant: a failed put leaves the view clean.
DirtyAfterFailureKept(w) == dirty
\* The retry after a rebuild is the one whose failure marks nothing.
DirtyAfterFailure(w) == dirty \/ ~w.again

\* A put that failed may have been stored.
PutFails ==
    /\ puts # <<>>
    /\ Spend("bucketFaults")
    /\ puts' = Tail(puts)
    /\ \E stored \in BOOLEAN : Store(IF stored THEN <<Head(puts).view>> ELSE <<>>)
    /\ dirty' = DirtyAfterFailure(Head(puts))
    /\ stale' = IF Head(puts).again /\ ~dirty' /\ bucket' # relay.view THEN "heal" ELSE stale
    /\ UNCHANGED <<kvHealed, rebuilding, looping, watch>> /\ UnchangedByWrite

\* The first put to meet a failure of the store asks for a new bucket.
PutMeetsStoreFailure ==
    /\ puts # <<>> /\ ~Head(puts).again /\ ~kvHealed
    /\ Spend("bucketFaults")
    /\ dirty' = TRUE /\ kvHealed' = TRUE
    /\ rebuilding' = Head(puts) /\ puts' = Tail(puts)
    /\ UNCHANGED <<bucket, feed, stale, looping, watch>> /\ UnchangedByWrite

\* delete_key_value, which is allowed to fail.
DeleteBucket ==
    \/ bucket' = {} /\ watch' \in {watch, IF watch = "live" THEN "dead" ELSE watch}
    \/ UNCHANGED <<bucket, watch>>

RebuildBucket ==
    /\ rebuilding # None
    /\ DeleteBucket
    /\ rebuilding' = None
    /\ puts' = Append(puts, [rebuilding EXCEPT !.again = TRUE])
    /\ UNCHANGED <<dirty, kvHealed, feed, stale, looping, budget>> /\ UnchangedByWrite

\* The bucket cannot be created: _drain_dirty logs it, _loop ends with it.
RebuildRaises ==
    /\ rebuilding # None
    /\ Spend("bucketFaults")
    /\ DeleteBucket
    /\ rebuilding' = None
    /\ looping' = (looping /\ rebuilding.writer # "loop")
    /\ stale' = IF dirty \/ bucket' = relay.view THEN stale ELSE "heal"
    /\ UNCHANGED <<dirty, kvHealed, puts, feed>> /\ UnchangedByWrite

\* Another rank or worker rebuilds the bucket they share, and writes its own
\* key only: nothing tells this relay, whose clean view is then nowhere.
AnotherRebuilds ==
    /\ Spend("bucketFaults")
    /\ DeleteBucket
    /\ stale' = IF dirty \/ puts # <<>> \/ rebuilding # None \/ bucket' = relay.view
                THEN stale ELSE "shared"
    /\ UNCHANGED <<dirty, kvHealed, puts, rebuilding, feed, looping>> /\ UnchangedByWrite

\* The worker's process ends, with the last write of stop() or killed, and
\* another starts.  A port that was configured keeps the decision_key.
Restart ==
    /\ phase # "launched"
    /\ Spend("restarts")
    /\ \E n \in 0 .. Len(puts), last \in {<<>>, <<relay.view>>} :
           Store([i \in 1 .. n |-> puts[i].view] \o last)
    /\ key' \in {key, key + 1}
    /\ engine' = {} /\ wire' = <<>> /\ attached' = FALSE /\ blurred' = FALSE
    /\ phase' = "launched" /\ flushed' = FALSE
    /\ observed' = FALSE /\ relay' = Empty /\ hand' = None
    /\ looping' = FALSE /\ healed' = FALSE
    /\ dirty' = FALSE /\ due' = TRUE /\ kvHealed' = FALSE
    /\ puts' = <<>> /\ rebuilding' = None
    /\ stale' = "restart"
    /\ lossAt' = Len(stream) /\ exact' = FALSE
    /\ UNCHANGED <<stream, sub, started, cursor, watch>>
-----------------------------------------------------------------------------
\* The router: NatsKvEventClient.

UnchangedByRouter == UNCHANGED <<engineVars, startVars, relayVars, dirty, due, kvHealed,
                                 puts, rebuilding, bucket, stale, key>>

\* on_worker_added with _claim: a subscription of the same key stays.
Track ==
    /\ phase = "registered"
    /\ sub # None => sub.key # key
    /\ sub' = [key |-> key, view |-> {}, map |-> {}]
    /\ Spend("tracks")
    /\ exact' = FALSE
    /\ UNCHANGED <<started, cursor, watch, feed, streamVars>> /\ UnchangedByRouter

\* on_worker_removed.
Untrack ==
    /\ sub # None
    /\ sub' = None /\ exact' = FALSE
    /\ UNCHANGED <<started, cursor, watch, feed, streamVars, budget>> /\ UnchangedByRouter

\* _ensure_started, which the first tracked worker asks for: it replays the
\* stream from its beginning ...
Subscribe ==
    /\ ~started /\ sub # None
    /\ \/ UNCHANGED <<streamVars, budget>>
       \/ Spend("streamFaults") /\ stream' = <<>> /\ lossAt' = 0
    /\ started' = TRUE /\ cursor' = 1
    /\ UNCHANGED <<sub, watch, exact, feed>> /\ UnchangedByRouter

\* ... and, in a task of its own, watches the bucket from its current value.
WatchBucket ==
    /\ started /\ watch = "no"
    /\ watch' = "live" /\ feed' = <<bucket>>
    /\ UNCHANGED <<sub, started, cursor, exact, streamVars, budget>> /\ UnchangedByRouter

\* _on_message: an event of a worker that is not tracked is dropped.
OnMessage ==
    /\ cursor \in 1 .. Len(stream)
    /\ cursor' = cursor + 1
    /\ IF sub = None THEN UNCHANGED <<sub, exact>>
       ELSE /\ sub' = HandleEvent(sub, stream[cursor])
            /\ exact' = (exact \/ (stream[cursor].kind = "cleared" /\ cursor > lossAt))
    /\ UNCHANGED <<started, watch, feed, streamVars, budget>> /\ UnchangedByRouter

\* Mutant: a seed replaces a view built from events.
SeedsOver(snapshot) == snapshot # {} /\ sub # None
Seeds(snapshot) == snapshot # {} /\ sub # None /\ sub.view = {}

\* _watch_bucket takes an entry: it seeds a view that is empty, and no other.
Seed ==
    /\ feed # <<>>
    /\ feed' = Tail(feed)
    /\ IF Seeds(Head(feed))
       THEN /\ sub' = [sub EXCEPT !.view = Head(feed)]
            /\ exact' = (exact /\ sub.view # {})
       ELSE UNCHANGED <<sub, exact>>
    /\ UNCHANGED <<started, cursor, watch, streamVars, budget>> /\ UnchangedByRouter

\* The router restarts.
ColdStart ==
    /\ Spend("coldStarts")
    /\ sub' = None /\ started' = FALSE /\ cursor' = 0 /\ watch' = "no" /\ feed' = <<>>
    /\ exact' = FALSE
    /\ UNCHANGED streamVars /\ UnchangedByRouter
-----------------------------------------------------------------------------
Engine == \/ \E b \in Blocks, aligned \in BOOLEAN : StoreBlock(b, aligned)
          \/ \E b \in Blocks : EvictBlock(b)
          \/ ClearCache
StartUp == StartRelay \/ Attach \/ PostFlush \/ Flush \/ Register
Loop == Forward \/ DropEvent \/ HealStream \/ Apply
Write == \/ Drain \/ IntervalPasses \/ PutDone \/ PutFails
         \/ PutMeetsStoreFailure \/ RebuildBucket \/ RebuildRaises \/ AnotherRebuilds
Router == \/ Track \/ Untrack \/ Subscribe \/ WatchBucket
          \/ OnMessage \/ Seed \/ ColdStart
Next == Engine \/ StartUp \/ Loop \/ Write \/ Restart \/ Router

Spec == Init /\ [][Next]_vars

\* asyncio runs every task that can run, the broker answers a request or
\* fails it, and the interval passes.
Fairness ==
    /\ WF_vars(Forward \/ DropEvent \/ HealStream)
    /\ WF_vars(Apply)
    /\ WF_vars(Drain)
    /\ WF_vars(IntervalPasses)
    /\ WF_vars(PutDone \/ PutFails \/ PutMeetsStoreFailure)
    /\ WF_vars(RebuildBucket \/ RebuildRaises)
    /\ WF_vars(OnMessage)

FairSpec == Spec /\ Fairness
-----------------------------------------------------------------------------
\* anchor_kv_chain: once the relay has seen a clear and has caught up, it holds
\* what the engine holds.  What was cached before the relay was attached, and
\* the flushes that were lost or refused, are the cases that matter.  After an
\* event whose lengths disagree it no longer does: the block is indexed and a
\* removal does not find it.
RelayTracksEngine ==
    observed /\ wire = <<>> /\ hand = None /\ ~blurred
        => relay.view = engine /\ relay.map = engine

Replay(c, events) ==
    LET after[n \in 0 .. Len(events)] ==
            IF n = 0 THEN c ELSE HandleEvent(after[n - 1], events[n])
    IN  after[Len(events)]

\* _on_message: a router that has applied a clear, and all that followed it,
\* is behind the relay by exactly the messages it has not been delivered: no
\* restart of either side, no loss and no seed from the bucket comes between.
ExactReplay ==
    exact =>
        LET ahead == Replay(sub, SubSeq(stream, cursor, Len(stream)))
            there == IF hand = None THEN relay ELSE HandleEvent(relay, hand)
        IN  ahead.view = there.view /\ ahead.map = there.map

\* _maybe_write_bucket: a view that is not marked dirty, with no write on its
\* way, is in the bucket, however the two writers and their failures interleave;
\* unless no event has come since the worker started ("restart"), the write
\* after a rebuild has cleared the mark of a newer view ("heal"), or another
\* worker's rebuild has dropped the bucket of both ("shared").
CleanIsWritten ==
    ~dirty /\ puts = <<>> /\ rebuilding = None
        => bucket = relay.view \/ stale # "no"

\* _drain_dirty and _on_message: when the engine goes quiet, the relay has
\* taken every event unless its loop has died, the bucket holds its last view
\* without another event to prompt the write (but in the cases of
\* CleanIsWritten, where it may never do so again), and a router that replays
\* exactly holds it too.
Settles ==
    <>[] /\ looping => wire = <<>> /\ hand = None
         /\ stale = "no" => bucket = relay.view
         /\ exact => sub.view = relay.view
=============================================================================
