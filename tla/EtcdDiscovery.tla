---------------------------- MODULE EtcdDiscovery ----------------------------
(***************************************************************************)
(* The etcd discovery backend: workers register under a lease and keep it  *)
(* alive (infera/common/registration.py); a server snapshots the prefix    *)
(* and then mirrors a watch into its pool (infera/common/discovery.py).    *)
(* etcd itself (leases, keys, the watch stream) is external, modelled from *)
(* how the two clients use it.                                             *)
(*                                                                         *)
(* The watch is opened without a start revision, on the first connection   *)
(* and on every reconnection, so what happens to the store while no watch  *)
(* is open is never delivered.                                             *)
(***************************************************************************)
EXTENDS WorkerPool, Naturals, Sequences

CONSTANTS
    Configs,        \* Configs[w]: the records a process of worker w can register
    MaxStream       \* bound: events etcd has sent and nobody has read

ASSUME EtcdConfig ==
    /\ Configs \in [Workers -> SUBSET Records]
    /\ MaxStream \in Nat

VARIABLES
    client,     \* the config a running worker process registers, or None
    holds,      \* workers whose client keeps alive the lease of its own key
    store,      \* etcd: the record under each worker's key, or None
    watch,      \* where the server's registry is
    stream,     \* watch events on their way to the server
    stale       \* history: workers whose last change did not reach the pool

workerVars == <<client, holds>>
etcdVars == <<client, holds, store, watch, stream, stale,
          pool, draining, canary, kvSnapshots, subs, targets, contested>>

WatchPhases == {"down", "gap", "watching"}
Events == [worker : Workers, rec : Records \cup {None}]

EtcdTypeOK ==
    /\ FleetTypeOK
    /\ client \in [Workers -> Records \cup {None}]
    /\ holds \in SUBSET Workers
    /\ store \in [Workers -> Records \cup {None}]
    /\ watch \in WatchPhases
    /\ stream \in Seq(Events)
    /\ stale \in SUBSET Workers

EtcdInit ==
    /\ FleetInit
    /\ client = [w \in Workers |-> None]
    /\ holds = {}
    /\ store = [w \in Workers |-> None]
    /\ watch = "down"
    /\ stream = <<>>
    /\ stale = {}

-----------------------------------------------------------------------------
(* etcd *)

\* A key changes: a PUT (rec) or a DELETE (None) for the open watch, if any.
KeyChange(w, rec) ==
    /\ Len(stream) < MaxStream
    /\ store' = [store EXCEPT ![w] = rec]
    /\ IF watch = "watching"
       THEN /\ stream' = Append(stream, [worker |-> w, rec |-> rec])
            /\ stale' = stale
       ELSE /\ stream' = stream
            /\ stale' = stale \cup {w}

\* The lease of a key runs out: its owner is gone, cut off or too late.
Expire(w) ==
    /\ store[w] # None
    /\ KeyChange(w, None)
    /\ holds' = holds \ {w}
    /\ UNCHANGED <<client, watch, fleetVars>>

-----------------------------------------------------------------------------
(* The worker: RegistrationClient *)

\* register(): grant a lease, then PUT under it.  A PUT on a key that an
\* earlier process left behind moves the key to the new lease.
etcd_register(w, r) ==
    /\ client[w] = None
    /\ client' = [client EXCEPT ![w] = r]
    /\ holds' = holds \cup {w}
    /\ KeyChange(w, r)
    /\ UNCHANGED <<watch, fleetVars>>

\* heartbeat_loop() finds its lease gone and registers again.  When the
\* answer to the PUT is lost the key is there but its lease is not ours.
heartbeat_loop(w) ==
    /\ client[w] # None
    /\ w \notin holds
    /\ KeyChange(w, client[w])
    /\ holds' \in {holds, holds \cup {w}}
    /\ UNCHANGED <<client, watch, fleetVars>>

\* Mutant: the heartbeat outlives a revoke that failed.
deregisterKeepsAlive(w) ==
    /\ client[w] # None
    /\ client' = [client EXCEPT ![w] = None]
    /\ \/ w \in holds /\ KeyChange(w, None) /\ holds' = holds \ {w}
       \/ UNCHANGED <<holds, store, stream, stale>>
    /\ UNCHANGED <<watch, fleetVars>>

\* deregister(): the revoke deletes the key if its lease is the one we hold
\* and etcd can be reached; otherwise the record survives until it expires.
etcd_deregister(w) ==
    /\ client[w] # None
    /\ client' = [client EXCEPT ![w] = None]
    /\ holds' = holds \ {w}
    /\ \/ w \in holds /\ KeyChange(w, None)
       \/ UNCHANGED <<store, stream, stale>>
    /\ UNCHANGED <<watch, fleetVars>>

\* The process is killed: its lease is no longer kept alive.
Die(w) ==
    /\ client[w] # None
    /\ client' = [client EXCEPT ![w] = None]
    /\ holds' = holds \ {w}
    /\ UNCHANGED <<store, watch, stream, stale, fleetVars>>

-----------------------------------------------------------------------------
(* The server: Registry *)

\* The records of the prefix, and the reference canary each model gets from
\* whichever of its workers the range lists first.
Listed(m) == {w \in Workers : store[w] # None /\ store[w].ok /\ store[w].model = m}
References(m) == {store[w].canary : w \in Listed(m)} \ {None}

Admitted(w, ref) ==
    /\ store[w] # None
    /\ store[w].ok
    /\ store[w].canary \in {None, ref[store[w].model]}

\* start(): every record of the snapshot is upserted into an empty pool.
start(ref) ==
    /\ watch = "down"
    /\ watch' = "gap"
    /\ \A m \in Models : IF References(m) = {} THEN ref[m] = None ELSE ref[m] \in References(m)
    /\ canary' = ref
    /\ pool' = [w \in Workers |-> IF Admitted(w, ref) THEN store[w] ELSE None]
    /\ kvSnapshots' = [w \in Workers |->
                         IF Admitted(w, ref) /\ store[w].kv THEN store[w] ELSE None]
    /\ subs' = UNION {SubsOf(store[w]) : w \in {x \in Workers : kvSnapshots'[x] # None}}
    /\ targets' = {<<w, store[w].target>> : w \in {x \in Workers : kvSnapshots'[x] # None}}
    /\ Contest
    /\ stale' = {w \in Workers : pool'[w] # store[w]}
    /\ UNCHANGED <<client, holds, store, stream, draining>>

\* _watch_once(): a stream of what happens from now on.
Connect ==
    /\ watch = "gap"
    /\ watch' = "watching"
    /\ UNCHANGED <<client, holds, store, stream, stale, fleetVars>>

\* The stream breaks; what was on its way is lost.
Disconnect ==
    /\ watch = "watching"
    /\ watch' = "gap"
    /\ stream' = <<>>
    /\ stale' = stale \cup {stream[i].worker : i \in 1..Len(stream)}
    /\ UNCHANGED <<client, holds, store, fleetVars>>

\* _dispatch_watch(), for the next event.
dispatch_watch ==
    /\ stream # <<>>
    /\ LET ev == Head(stream) IN
       IF ev.rec # None
       THEN /\ upsert(ev.worker, ev.rec)
            /\ stale' = IF Accepts(ev.rec) THEN stale \ {ev.worker} ELSE stale \cup {ev.worker}
       ELSE remove(ev.worker) /\ stale' = stale \ {ev.worker}
    /\ stream' = Tail(stream)
    /\ UNCHANGED <<client, holds, store, watch>>

\* stop(), or the death of the server: a replica keeps nothing.
stop ==
    /\ watch # "down"
    /\ watch' = "down"
    /\ stream' = <<>>
    /\ stale' = {}
    /\ pool' = [w \in Workers |-> None]
    /\ draining' = {}
    /\ canary' = [m \in Models |-> None]
    /\ kvSnapshots' = [w \in Workers |-> None]
    /\ subs' = {}
    /\ targets' = {}
    /\ contested' = {}
    /\ UNCHANGED <<client, holds, store>>

EtcdNext ==
    \/ \E w \in Workers : Expire(w)
    \/ \E w \in Workers : \E r \in Configs[w] : etcd_register(w, r)
    \/ \E w \in Workers : heartbeat_loop(w)
    \/ \E w \in Workers : etcd_deregister(w)
    \/ \E w \in Workers : Die(w)
    \/ \E ref \in [Models -> Canaries \cup {None}] : start(ref)
    \/ Connect
    \/ Disconnect
    \/ dispatch_watch
    \/ stop

EtcdSpec == EtcdInit /\ [][EtcdNext]_etcdVars

\* A lease nobody keeps alive runs out, even if MaxStream bars the deletion now
\* and then (hence strong fairness); the watch loop reconnects and reads what it
\* is sent.
EtcdFairSpec ==
    /\ EtcdSpec
    /\ \A w \in Workers : SF_etcdVars(Expire(w) /\ w \notin holds)
    /\ WF_etcdVars(Connect)
    /\ WF_etcdVars(dispatch_watch)

-----------------------------------------------------------------------------
(* Properties. *)

\* Whatever order registrations, expiries and reconnections come in, the only
\* workers the pool is wrong about are those whose last change was not
\* delivered or was refused: for the others the record is the one in etcd, or
\* the change is still in the stream, newest last.
PoolFollowsStore ==
    /\ watch = "watching" =>
        \A i \in 1..Len(stream) :
            (\A j \in 1..Len(stream) : j > i => stream[j].worker # stream[i].worker)
            => stream[i].rec = store[stream[i].worker]
    /\ watch # "down" =>
        \A w \in Workers \ stale :
            (\A i \in 1..Len(stream) : stream[i].worker # w) => pool[w] = store[w]

\* A worker whose process is gone for good leaves the pool for good, as long
\* as the server keeps running and no change of it goes undelivered.
GoneLeavesPool ==
    \A w \in Workers :
        <>[](client[w] = None /\ watch # "down" /\ w \notin stale)
        => <>[](pool[w] = None)
=============================================================================
