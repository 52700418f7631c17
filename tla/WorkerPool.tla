----------------------------- MODULE WorkerPool -----------------------------
(***************************************************************************)
(* What the server keeps about its fleet, shared by both discovery         *)
(* backends: the worker pool and the tokenizer canaries                    *)
(* (infera/common/worker_pool.py, discovery.py) and the listeners behind   *)
(* on_worker_added and on_worker_removed (infera/server/__main__.py): the  *)
(* KV event subscriptions and the snapshot reconciler's targets.           *)
(*                                                                         *)
(* A registration record is abstracted to the fields that are told apart:  *)
(*   ok      the payload parses into a WorkerInfo                          *)
(*   model   model_name                                                    *)
(*   canary  the tokenizer canary, None when it carries none               *)
(*   kv      it has a kv block that supports events                        *)
(*   events  the endpoint the worker publishes its KV events at           *)
(*   target  snapshot endpoint, model and compat key together              *)
(* An endpoint is an address of its own, not tied to the worker id: two    *)
(* workers of one host may announce the same one, one after the other.     *)
(***************************************************************************)
CONSTANTS Workers, Records, Models, Canaries, None

ASSUME PoolConfig ==
    /\ None \notin Records
    /\ None \notin Canaries
    /\ \A r \in Records :
        /\ r.ok \in BOOLEAN
        /\ r.kv \in BOOLEAN
        /\ r.model \in Models
        /\ r.canary \in Canaries \cup {None}

VARIABLES
    pool,           \* WorkerPool._workers
    draining,       \* pooled workers whose status is DRAINING
    canary,         \* CanaryVerifier._canary, the reference of each model
    kvSnapshots,    \* the record stashed at on_worker_added
    subs,           \* KvEventSubscriberPool: endpoints with a live subscriber
    targets,        \* <<worker, target>> of the snapshot reconciler
    contested       \* history: endpoints two stashed workers shared, while one is left

listenerVars == <<kvSnapshots, subs, targets, contested>>
fleetVars == <<pool, draining, canary, kvSnapshots, subs, targets, contested>>

Endpoints == {r.events : r \in Records}
Targets == {r.target : r \in Records}

FleetTypeOK ==
    /\ pool \in [Workers -> Records \cup {None}]
    /\ draining \in SUBSET Workers
    /\ canary \in [Models -> Canaries \cup {None}]
    /\ kvSnapshots \in [Workers -> Records \cup {None}]
    /\ subs \subseteq Endpoints
    /\ targets \subseteq Workers \X Targets
    /\ contested \subseteq Endpoints

FleetInit ==
    /\ pool = [w \in Workers |-> None]
    /\ draining = {}
    /\ canary = [m \in Models |-> None]
    /\ kvSnapshots = [w \in Workers |-> None]
    /\ subs = {}
    /\ targets = {}
    /\ contested = {}

\* WorkerPool.list_all, of one model, and list_active: what a router may
\* choose from.
list_all(m) == {w \in Workers : pool[w] # None /\ pool[w].model = m}
list_active(m) == list_all(m) \ draining

-----------------------------------------------------------------------------
(* The listeners. *)

SubsOf(r) == IF r.events = None THEN {} ELSE {r.events}

Users(e) == {w \in Workers : kvSnapshots[w] # None /\ kvSnapshots[w].events = e}

Contest ==
    contested' = {e \in Endpoints :
                    \/ e \in contested /\ Users(e)' # {}
                    \/ \E v, w \in Users(e)' : v # w}

\* A record without a kv block leaves what an earlier one set up.  An endpoint
\* that has a subscriber gets no second one.
on_worker_added(w, r) ==
    IF r.kv
    THEN /\ subs' = subs \cup SubsOf(r)
         /\ targets' = targets \cup {<<w, r.target>>}
         /\ kvSnapshots' = [kvSnapshots EXCEPT ![w] = r]
         /\ Contest
    ELSE UNCHANGED listenerVars

\* The subscriber of the stashed endpoint stops, whoever else publishes there.
on_worker_removed(w) ==
    IF kvSnapshots[w] # None
    THEN /\ subs' = subs \ SubsOf(kvSnapshots[w])
         /\ targets' = targets \ {<<w, kvSnapshots[w].target>>}
         /\ kvSnapshots' = [kvSnapshots EXCEPT ![w] = None]
         /\ Contest
    ELSE UNCHANGED listenerVars

-----------------------------------------------------------------------------
(* Registration records arriving and leaving. *)

\* CanaryVerifier.verify: the first canary of a model is the reference.
verify(r) == r.canary = None \/ canary[r.model] \in {None, r.canary}

Accepts(r) == r.ok /\ verify(r)

Pin(r) == IF r.canary = None THEN canary ELSE [canary EXCEPT ![r.model] = r.canary]

\* Mutant: a worker that is already listed is not replaced.
upsertKeepsOld(w, r) ==
    IF Accepts(r) /\ pool[w] = None
    THEN /\ pool' = [pool EXCEPT ![w] = r]
         /\ draining' = draining \ {w}
         /\ canary' = Pin(r)
         /\ on_worker_added(w, r)
    ELSE UNCHANGED fleetVars

\* _upsert: the record is (again) active; listeners hear of a new worker and
\* of a record that changed in place, its status included.
upsert(w, r) ==
    IF Accepts(r)
    THEN /\ pool' = [pool EXCEPT ![w] = r]
         /\ draining' = draining \ {w}
         /\ canary' = Pin(r)
         /\ IF pool[w] # r \/ w \in draining
            THEN on_worker_added(w, r)
            ELSE UNCHANGED listenerVars
    ELSE UNCHANGED fleetVars

\* Mutant: the reference is dropped while other workers of the model remain.
UnpinAlways(w) == [canary EXCEPT ![pool[w].model] = None]

\* The reference goes with the last worker of its model.
Unpin(w) ==
    IF list_all(pool[w].model) \subseteq {w}
    THEN [canary EXCEPT ![pool[w].model] = None]
    ELSE canary

\* The DELETE branch of _dispatch_watch and KubernetesRegistry._remove: a
\* worker announced when it began to drain is not announced again.
remove(w) ==
    IF pool[w] # None
    THEN /\ canary' = Unpin(w)
         /\ pool' = [pool EXCEPT ![w] = None]
         /\ draining' = draining \ {w}
         /\ IF w \in draining THEN UNCHANGED listenerVars ELSE on_worker_removed(w)
    ELSE UNCHANGED fleetVars

\* Mutant: a draining worker is announced only when it is gone.
mark_drainingSilent(w) ==
    IF pool[w] # None /\ w \notin draining
    THEN draining' = draining \cup {w} /\ UNCHANGED <<pool, canary, listenerVars>>
    ELSE UNCHANGED fleetVars

\* KubernetesRegistry._mark_draining: out of routing, record kept.
mark_draining(w) ==
    IF pool[w] # None /\ w \notin draining
    THEN /\ draining' = draining \cup {w}
         /\ on_worker_removed(w)
         /\ UNCHANGED <<pool, canary>>
    ELSE UNCHANGED fleetVars

-----------------------------------------------------------------------------
(* Properties of the fleet view, whatever the backend. *)

\* "Workers whose canary mismatches the first-registered worker for the same
\* model are rejected": any two routable workers of a model that carry a
\* canary carry the same one, across in-place updates and departures.
TokenizersAgree ==
    \A v, w \in Workers :
        (/\ pool[v] # None /\ pool[w] # None
         /\ pool[v].model = pool[w].model
         /\ pool[v].canary # None /\ pool[w].canary # None)
        => pool[v].canary = pool[w].canary

\* A routable worker with a KV block is a target of the reconciler and is
\* subscribed to at the endpoint of its current record, also after it moved,
\* unless another worker announced the same endpoint at the same time: the
\* subscriber goes with whichever of them leaves first.  A worker that drains
\* is stashed no more.
KvWorkersWatched ==
    \A w \in Workers :
        /\ (pool[w] # None /\ pool[w].kv /\ w \notin draining)
           => /\ SubsOf(pool[w]) \subseteq subs \cup contested
              /\ <<w, pool[w].target>> \in targets
        /\ w \in draining => kvSnapshots[w] = None
=============================================================================
