--------------------------- MODULE DiscoveryProofs ---------------------------
(***************************************************************************)
(* Both discovery backends keep the invariants of the fleet view they      *)
(* share.  Under etcd the pool follows the store except where a change was *)
(* not delivered; under Kubernetes a registry that has caught up routes to *)
(* exactly the candidate Pods.  All of it for any fleet, Pods, records,    *)
(* addresses and bounds.                                                   *)
(***************************************************************************)
EXTENDS EtcdDiscovery, K8sDiscovery, SequenceTheorems, TLAPS

-----------------------------------------------------------------------------
(* The fleet view: what upsert, remove and mark_draining preserve. *)

\* The reference canary of a model is the canary of each of its workers.
Pinned ==
    \A w \in Workers :
        (pool[w] # None /\ pool[w].canary # None) => canary[pool[w].model] = pool[w].canary

\* The stash holds the current record of a routable worker with a kv block,
\* and nothing for a draining one.
Stashed ==
    \A w \in Workers :
        /\ (pool[w] # None /\ pool[w].kv /\ w \notin draining) => kvSnapshots[w] = pool[w]
        /\ w \in draining => kvSnapshots[w] = None

\* What is stashed is reconciled, and subscribed to or contested.
Backed ==
    \A w \in Workers :
        kvSnapshots[w] # None =>
            /\ SubsOf(kvSnapshots[w]) \subseteq subs \cup contested
            /\ <<w, kvSnapshots[w].target>> \in targets

\* An endpoint that is not contested has one user at most.
Apart == \A e \in Endpoints \ contested : \A v, w \in Users(e) : v = w

FleetInv == FleetTypeOK /\ Pinned /\ Stashed /\ Backed /\ Apart

\* An empty view satisfies the invariant (start of a server).
LEMMA FleetInitInv == FleetInit => FleetInv
  BY Zenon DEF FleetInit, FleetInv, FleetTypeOK, Pinned, Stashed, Backed, Apart, Users

\* Whatever becomes of the stash, Contest keeps the users of an endpoint apart.
LEMMA ContestApart ==
  ASSUME Contest
  PROVE  Apart' /\ contested' \subseteq Endpoints
<1>1. contested' = {e \in Endpoints :
                      \/ e \in contested /\ Users(e)' # {}
                      \/ \E v, w \in Users(e)' : v # w}
  BY Zenon DEF Contest
<1> QED BY Zenon, <1>1 DEF Apart

\* on_worker_added stashes the record and sets up what it needs; what is set
\* up for other workers stays.
LEMMA AddedBacks ==
  ASSUME FleetTypeOK, Backed, Apart, NEW w \in Workers, NEW r \in Records, on_worker_added(w, r)
  PROVE  /\ Backed' /\ Apart'
         /\ kvSnapshots' \in [Workers -> Records \cup {None}]
         /\ subs' \subseteq Endpoints
         /\ targets' \subseteq Workers \X Targets
         /\ contested' \subseteq Endpoints
         /\ \A v \in Workers : kvSnapshots'[v] = IF v = w /\ r.kv THEN r ELSE kvSnapshots[v]
<1>1. CASE r.kv
  <2>1. /\ subs' = subs \cup SubsOf(r)
        /\ targets' = targets \cup {<<w, r.target>>}
        /\ kvSnapshots' = [kvSnapshots EXCEPT ![w] = r]
        /\ Contest
    BY Zenon, <1>1 DEF on_worker_added
  <2>2. \A v \in Workers : kvSnapshots'[v] = IF v = w THEN r ELSE kvSnapshots[v]
    BY Zenon, <2>1 DEF FleetTypeOK
  <2>3. SubsOf(r) \subseteq Endpoints /\ <<w, r.target>> \in Workers \X Targets
    BY DEF SubsOf, Endpoints, Targets
  <2>4. ASSUME NEW v \in Workers, kvSnapshots'[v] # None
        PROVE  /\ SubsOf(kvSnapshots'[v]) \subseteq subs' \cup contested'
               /\ <<v, kvSnapshots'[v].target>> \in targets'
    <3>1. CASE v = w
      <4>1. kvSnapshots'[v] = r
        BY Zenon, <2>2, <3>1
      <4> QED BY <2>1, <3>1, <4>1
    <3>2. CASE v # w
      <4>1. kvSnapshots'[v] = kvSnapshots[v] /\ kvSnapshots[v] # None
        BY Zenon, <2>2, <2>4, <3>2
      <4>2. /\ SubsOf(kvSnapshots[v]) \subseteq subs \cup contested
            /\ <<v, kvSnapshots[v].target>> \in targets
        BY Zenon, <4>1 DEF Backed
      <4>3. ASSUME NEW e \in SubsOf(kvSnapshots[v]), e \in contested PROVE e \in contested'
        <5>1. e = kvSnapshots[v].events /\ e \in Endpoints
          BY Zenon, <4>3 DEF SubsOf, FleetTypeOK
        <5>2. v \in Users(e)'
          BY Zenon, <4>1, <5>1 DEF Users
        <5> QED BY Zenon, <2>1, <4>3, <5>1, <5>2 DEF Contest
      <4>4. SubsOf(kvSnapshots[v]) \subseteq subs' \cup contested'
        BY Zenon, <2>1, <4>2, <4>3
      <4>5. <<v, kvSnapshots[v].target>> \in targets'
        BY Zenon, <2>1, <4>2
      <4> QED BY <4>1, <4>4, <4>5
    <3> QED BY Zenon, <3>1, <3>2
  <2>5. Backed'
    BY Zenon, <2>4 DEF Backed
  <2> QED BY Zenon, <1>1, <2>1, <2>2, <2>3, <2>5, ContestApart DEF FleetTypeOK
<1>2. CASE ~r.kv
  BY Zenon, <1>2 DEF on_worker_added, listenerVars, Backed, Apart, Users, FleetTypeOK
<1> QED BY Zenon, <1>1, <1>2

\* on_worker_removed takes down what was set up for the worker only, unless its
\* endpoint is contested.
LEMMA RemovedBacks ==
  ASSUME FleetTypeOK, Backed, Apart, NEW w \in Workers, on_worker_removed(w)
  PROVE  /\ Backed' /\ Apart'
         /\ kvSnapshots' \in [Workers -> Records \cup {None}]
         /\ subs' \subseteq Endpoints
         /\ targets' \subseteq Workers \X Targets
         /\ contested' \subseteq Endpoints
         /\ \A v \in Workers : kvSnapshots'[v] = IF v = w THEN None ELSE kvSnapshots[v]
<1>1. CASE kvSnapshots[w] # None
  <2>1. /\ subs' = subs \ SubsOf(kvSnapshots[w])
        /\ targets' = targets \ {<<w, kvSnapshots[w].target>>}
        /\ kvSnapshots' = [kvSnapshots EXCEPT ![w] = None]
        /\ Contest
    BY Zenon, <1>1 DEF on_worker_removed
  <2>2. \A v \in Workers : kvSnapshots'[v] = IF v = w THEN None ELSE kvSnapshots[v]
    BY Zenon, <2>1 DEF FleetTypeOK
  <2>3. ASSUME NEW v \in Workers, kvSnapshots'[v] # None
        PROVE  /\ SubsOf(kvSnapshots'[v]) \subseteq subs' \cup contested'
               /\ <<v, kvSnapshots'[v].target>> \in targets'
    <3>1. v # w /\ kvSnapshots'[v] = kvSnapshots[v] /\ kvSnapshots[v] # None
      BY Zenon, <2>2, <2>3
    <3>2. /\ SubsOf(kvSnapshots[v]) \subseteq subs \cup contested
          /\ <<v, kvSnapshots[v].target>> \in targets
      BY Zenon, <3>1 DEF Backed
    <3>3. <<v, kvSnapshots[v].target>> \in targets'
      BY <2>1, <3>1, <3>2
    <3>4. ASSUME NEW e \in SubsOf(kvSnapshots[v]), e \notin contested' PROVE e \in subs'
      <4>1. e = kvSnapshots[v].events /\ e \in Endpoints
        BY Zenon, <3>1, <3>4 DEF SubsOf, Endpoints, FleetTypeOK
      <4>2. v \in Users(e)' /\ v \in Users(e)
        BY Zenon, <3>1, <4>1 DEF Users
      <4>3. e \notin contested
        BY Zenon, <2>1, <3>4, <4>1, <4>2 DEF Contest
      <4>4. w \notin Users(e)
        BY Zenon, <3>1, <4>1, <4>2, <4>3 DEF Apart
      <4>5. e \notin SubsOf(kvSnapshots[w])
        BY Zenon, <1>1, <4>4 DEF Users, SubsOf
      <4> QED BY Zenon, <2>1, <3>2, <3>4, <4>3, <4>5
    <3> QED BY Zenon, <3>1, <3>3, <3>4
  <2>4. Backed'
    BY Zenon, <2>3 DEF Backed
  <2> QED BY Zenon, <2>1, <2>2, <2>4, ContestApart DEF FleetTypeOK
<1>2. CASE kvSnapshots[w] = None
  BY <1>2 DEF on_worker_removed, listenerVars, Backed, Apart, Users, FleetTypeOK
<1> QED BY Zenon, <1>1, <1>2

\* A record that arrives preserves the invariant, accepted or refused.
LEMMA UpsertInv ==
  ASSUME FleetInv, NEW w \in Workers, NEW r \in Records, upsert(w, r)
  PROVE  FleetInv'
<1> USE DEF FleetInv
<1>1. CASE Accepts(r)
  <2>1. /\ pool' = [pool EXCEPT ![w] = r]
        /\ draining' = draining \ {w}
        /\ canary' = Pin(r)
    BY Zenon, <1>1 DEF upsert
  <2>2. \A v \in Workers : pool'[v] = IF v = w THEN r ELSE pool[v]
    BY Zenon, <2>1 DEF FleetTypeOK
  <2>3. \A m \in Models : canary'[m] = IF m = r.model /\ r.canary # None THEN r.canary ELSE canary[m]
    BY Zenon, <2>1, PoolConfig DEF Pin, FleetTypeOK
  <2>4. pool' \in [Workers -> Records \cup {None}] /\ draining' \in SUBSET Workers
        /\ canary' \in [Models -> Canaries \cup {None}]
    BY Zenon, <2>1, PoolConfig DEF FleetTypeOK, Pin
  <2>5. Pinned'
    BY <1>1, <2>2, <2>3, PoolConfig DEF Pinned, Accepts, verify, FleetTypeOK
  <2>6. CASE pool[w] # r \/ w \in draining
    <3>1. on_worker_added(w, r)
      BY Zenon, <1>1, <2>6 DEF upsert
    <3>2. Stashed'
      BY <2>1, <2>2, <3>1, AddedBacks DEF Stashed
    <3> QED BY Zenon, <2>4, <2>5, <3>1, <3>2, AddedBacks DEF FleetTypeOK
  <2>7. CASE pool[w] = r /\ w \notin draining
    <3>1. UNCHANGED <<kvSnapshots, subs, targets, contested>>
      BY Zenon, <1>1, <2>7 DEF upsert, listenerVars
    <3>2. Stashed'
      BY Zenon, <2>1, <2>2, <2>7, <3>1 DEF Stashed
    <3> QED BY Zenon, <2>4, <2>5, <3>1, <3>2 DEF FleetTypeOK, Backed, Apart, Users
  <2> QED BY Zenon, <2>6, <2>7
<1>2. CASE ~Accepts(r)
  BY Zenon, <1>2 DEF upsert, fleetVars, FleetTypeOK, Pinned, Stashed, Backed, Apart, Users
<1> QED BY Zenon, <1>1, <1>2

\* A worker that is removed preserves the invariant: the reference goes only
\* with the last worker of its model.
LEMMA RemoveInv ==
  ASSUME FleetInv, NEW w \in Workers, remove(w)
  PROVE  FleetInv'
<1> USE DEF FleetInv
<1>1. CASE pool[w] # None
  <2>1. /\ pool' = [pool EXCEPT ![w] = None]
        /\ draining' = draining \ {w}
        /\ canary' = Unpin(w)
    BY Zenon, <1>1 DEF remove
  <2>2. \A v \in Workers : pool'[v] = IF v = w THEN None ELSE pool[v]
    BY Zenon, <2>1 DEF FleetTypeOK
  <2>3. pool[w].model \in Models
    BY Zenon, <1>1, PoolConfig DEF FleetTypeOK
  <2>4. \A v \in Workers \ {w} :
           pool[v] # None => canary'[pool[v].model] = canary[pool[v].model]
    BY Zenon, <2>1, <2>3, PoolConfig DEF Unpin, list_all, FleetTypeOK
  <2>5. pool' \in [Workers -> Records \cup {None}] /\ draining' \in SUBSET Workers
        /\ canary' \in [Models -> Canaries \cup {None}]
    BY Zenon, <2>1, <2>3 DEF FleetTypeOK, Unpin
  <2>6. Pinned'
    BY Zenon, <2>2, <2>4 DEF Pinned
  <2>7. CASE w \in draining
    <3>1. UNCHANGED <<kvSnapshots, subs, targets, contested>>
      BY Zenon, <1>1, <2>7 DEF remove, listenerVars
    <3>2. Stashed'
      BY Zenon, <2>1, <2>2, <3>1 DEF Stashed
    <3> QED BY Zenon, <2>5, <2>6, <3>1, <3>2 DEF FleetTypeOK, Backed, Apart, Users
  <2>8. CASE w \notin draining
    <3>1. on_worker_removed(w)
      BY Zenon, <1>1, <2>8 DEF remove
    <3>2. Stashed'
      BY <2>1, <2>2, <3>1, RemovedBacks DEF Stashed
    <3> QED BY Zenon, <2>5, <2>6, <3>1, <3>2, RemovedBacks DEF FleetTypeOK
  <2> QED BY Zenon, <2>7, <2>8
<1>2. CASE pool[w] = None
  BY <1>2 DEF remove, fleetVars, FleetTypeOK, Pinned, Stashed, Backed, Apart, Users
<1> QED BY Zenon, <1>1, <1>2

\* A worker that begins to drain keeps its record and loses its listeners.
LEMMA DrainInv ==
  ASSUME FleetInv, NEW w \in Workers, mark_draining(w)
  PROVE  FleetInv'
<1> USE DEF FleetInv
<1>1. CASE pool[w] # None /\ w \notin draining
  <2>1. /\ draining' = draining \cup {w}
        /\ pool' = pool
        /\ canary' = canary
        /\ on_worker_removed(w)
    BY Zenon, <1>1 DEF mark_draining
  <2>2. Stashed'
    BY Zenon, <2>1, RemovedBacks DEF Stashed
  <2>3. Pinned'
    BY Zenon, <2>1 DEF Pinned
  <2> QED BY Zenon, <2>1, <2>2, <2>3, RemovedBacks DEF FleetTypeOK
<1>2. CASE ~(pool[w] # None /\ w \notin draining)
  BY Zenon, <1>2 DEF mark_draining, fleetVars, FleetTypeOK, Pinned, Stashed, Backed, Apart, Users
<1> QED BY Zenon, <1>1, <1>2

\* The properties the runs check follow from the invariant.
LEMMA FleetInvImplies == FleetInv => TokenizersAgree /\ KvWorkersWatched
  BY Zenon DEF FleetInv, Pinned, Stashed, Backed, TokenizersAgree, KvWorkersWatched

\* What does not touch the fleet view keeps it.
LEMMA FleetFrame == FleetInv /\ UNCHANGED fleetVars => FleetInv'
  BY Zenon DEF FleetInv, FleetTypeOK, Pinned, Stashed, Backed, Apart, Users, fleetVars

-----------------------------------------------------------------------------
(* The etcd backend. *)

\* Nothing is on its way while no watch is open; nobody drains under etcd.
Quiet == (watch # "watching" => stream = <<>>) /\ draining = {}

EtcdInv == EtcdTypeOK /\ FleetInv /\ PoolFollowsStore /\ Quiet

\* The two halves of PoolFollowsStore: the newest event of a worker is what
\* the store holds, and a worker without events is as in the store.
NewestIsStored ==
    watch = "watching" =>
        \A i \in 1..Len(stream) :
            (\A j \in 1..Len(stream) : j > i => stream[j].worker # stream[i].worker)
            => stream[i].rec = store[stream[i].worker]

SettledMatches ==
    watch # "down" =>
        \A w \in Workers \ stale :
            (\A i \in 1..Len(stream) : stream[i].worker # w) => pool[w] = store[w]

\* Before the server starts, with an empty etcd, the invariant holds.
LEMMA InitEtcdInv == EtcdInit => EtcdInv
<1> SUFFICES ASSUME EtcdInit PROVE EtcdInv
  BY Zenon
<1>1. FleetInv
  BY Zenon, FleetInitInv DEF EtcdInit
<1>2. EtcdTypeOK
  BY <1>1 DEF EtcdInit, EtcdTypeOK, FleetInv, WatchPhases
<1>3. Quiet
  BY Zenon DEF EtcdInit, FleetInit, Quiet
<1>4. PoolFollowsStore
  BY Zenon DEF EtcdInit, PoolFollowsStore
<1> QED BY Zenon, <1>1, <1>2, <1>3, <1>4 DEF EtcdInv

\* A change of the store, delivered or not, keeps the two halves.
LEMMA ChangeFollows ==
  ASSUME EtcdInv, NEW w \in Workers, NEW rec \in Records \cup {None}, KeyChange(w, rec),
         watch' = watch, pool' = pool, draining' = draining
  PROVE  /\ PoolFollowsStore' /\ Quiet'
         /\ store' \in [Workers -> Records \cup {None}]
         /\ stream' \in Seq(Events)
         /\ stale' \in SUBSET Workers
<1>0. EtcdTypeOK
  BY Zenon DEF EtcdInv
<1>1. store' = [store EXCEPT ![w] = rec] /\ store' \in [Workers -> Records \cup {None}]
  BY Zenon, <1>0 DEF KeyChange, EtcdTypeOK
<1>2. CASE watch = "watching"
  <2> DEFINE ev == [worker |-> w, rec |-> rec]
  <2>1. stream' = Append(stream, ev) /\ stale' = stale
    BY Zenon, <1>2 DEF KeyChange
  <2>2. ev \in Events /\ stream \in Seq(Events)
    BY Zenon, <1>0 DEF EtcdTypeOK, Events
  <2> HIDE DEF ev
  <2>3. /\ stream' \in Seq(Events)
        /\ Len(stream') = Len(stream) + 1
        /\ \A i \in 1..Len(stream) : stream'[i] = stream[i]
        /\ stream'[Len(stream) + 1] = ev
    BY <2>1, <2>2
  <2>4. ev.worker = w /\ ev.rec = rec
    BY Zenon DEF ev
  <2>5. Len(stream) \in Nat /\ \A i \in 1..Len(stream) : stream[i].worker \in Workers
    <3>1. Len(stream) \in Nat
      BY <2>2
    <3>2. \A i \in 1..Len(stream) : stream[i] \in Events
      BY <2>2
    <3> QED BY Zenon, <3>1, <3>2 DEF Events
  <2>6. NewestIsStored'
    <3> SUFFICES ASSUME NEW i \in 1..(Len(stream) + 1),
                        \A j \in 1..(Len(stream) + 1) : j > i => stream'[j].worker # stream'[i].worker
                 PROVE  stream'[i].rec = store'[stream'[i].worker]
      BY Zenon, <2>3 DEF NewestIsStored
    <3>1. CASE i = Len(stream) + 1
      BY Zenon, <1>0, <1>1, <2>3, <2>4, <3>1 DEF EtcdTypeOK
    <3>2. CASE i \in 1..Len(stream)
      <4>1. stream[i].worker # w
        BY <2>3, <2>4, <2>5, <3>2
      <4>2. \A j \in 1..Len(stream) : j > i => stream[j].worker # stream[i].worker
        BY <2>3, <2>5, <3>2
      <4>3. stream[i].rec = store[stream[i].worker]
        BY Zenon, <1>2, <3>2, <4>2 DEF EtcdInv, PoolFollowsStore
      <4> QED BY Zenon, <1>0, <1>1, <2>3, <2>5, <3>2, <4>1, <4>3 DEF EtcdTypeOK
    <3> QED BY <2>5, <3>1, <3>2
  <2>7. SettledMatches'
    <3> SUFFICES ASSUME NEW v \in Workers \ stale,
                        \A i \in 1..(Len(stream) + 1) : stream'[i].worker # v
                 PROVE  pool[v] = store'[v]
      BY Zenon, <2>1, <2>3 DEF SettledMatches
    <3>1. v # w
      BY <2>3, <2>4, <2>5
    <3>2. \A i \in 1..Len(stream) : stream[i].worker # v
      BY <2>3, <2>5
    <3>3. pool[v] = store[v]
      BY Zenon, <1>2, <3>2 DEF EtcdInv, PoolFollowsStore
    <3> QED BY Zenon, <1>0, <1>1, <3>1, <3>3 DEF EtcdTypeOK
  <2> QED
    BY Zenon, <1>0, <1>1, <1>2, <2>1, <2>3, <2>6, <2>7
       DEF EtcdInv, PoolFollowsStore, NewestIsStored, SettledMatches, Quiet, EtcdTypeOK
<1>3. CASE watch # "watching"
  <2>1. stream' = stream /\ stale' = stale \cup {w}
    BY Zenon, <1>3 DEF KeyChange
  <2>2. \A v \in Workers \ stale' : store'[v] = store[v]
    BY Zenon, <1>0, <1>1, <2>1 DEF EtcdTypeOK
  <2>3. stream = <<>>
    BY Zenon, <1>3 DEF EtcdInv, Quiet
  <2>4. SettledMatches'
    BY Zenon, <1>3, <2>1, <2>2 DEF SettledMatches, EtcdInv, PoolFollowsStore
  <2> QED BY Zenon, <1>0, <1>1, <1>3, <2>1, <2>3, <2>4
             DEF EtcdInv, PoolFollowsStore, SettledMatches, Quiet, EtcdTypeOK
<1> QED BY Zenon, <1>2, <1>3

\* The fleet view a fresh snapshot builds.
LEMMA StartFleet ==
  ASSUME EtcdInv, NEW ref \in [Models -> Canaries \cup {None}], start(ref)
  PROVE  FleetInv'
<1>0. EtcdTypeOK /\ FleetInv
  BY Zenon DEF EtcdInv
<1>1. /\ canary' = ref
      /\ pool' = [w \in Workers |-> IF Admitted(w, ref) THEN store[w] ELSE None]
      /\ kvSnapshots' = [w \in Workers |->
                           IF Admitted(w, ref) /\ store[w].kv THEN store[w] ELSE None]
      /\ subs' = UNION {SubsOf(store[w]) : w \in {x \in Workers : kvSnapshots'[x] # None}}
      /\ targets' = {<<w, store[w].target>> : w \in {x \in Workers : kvSnapshots'[x] # None}}
      /\ draining' = draining
      /\ Contest
  BY Zenon DEF start
<1>2. \A w \in Workers : Admitted(w, ref) => store[w] \in Records
  BY Zenon, <1>0 DEF Admitted, EtcdTypeOK
<1>3. \A w \in Workers : kvSnapshots'[w] # None => kvSnapshots'[w] = store[w] /\ store[w] \in Records
  BY Zenon, <1>1, <1>2
<1>4. \A w \in Workers : kvSnapshots'[w] # None => SubsOf(store[w]) \subseteq Endpoints
                                                   /\ <<w, store[w].target>> \in Workers \X Targets
  BY <1>3 DEF SubsOf, Endpoints, Targets
<1>5. FleetTypeOK'
  <2>1. subs' \subseteq Endpoints
    BY Zenon, <1>1, <1>4
  <2>2. targets' \subseteq Workers \X Targets
    BY Zenon, <1>1, <1>4
  <2>3. pool' \in [Workers -> Records \cup {None}] /\ kvSnapshots' \in [Workers -> Records \cup {None}]
    BY Zenon, <1>1, <1>2
  <2> QED BY Zenon, <1>0, <1>1, <2>1, <2>2, <2>3, ContestApart DEF FleetInv, FleetTypeOK
<1>6. Pinned'
  BY Zenon, <1>1, <1>2 DEF Pinned, Admitted
<1>7. Backed'
  BY Zenon, <1>1, <1>3 DEF Backed
<1>8. Stashed'
  BY Zenon, <1>1, <1>2 DEF Stashed, EtcdInv, Quiet
<1> QED BY Zenon, <1>1, <1>5, <1>6, <1>7, <1>8, ContestApart DEF FleetInv

\* Reading the next event settles its worker, or marks it stale when the
\* record is refused, and leaves the others as they were.
LEMMA DispatchFollows ==
  ASSUME EtcdInv, dispatch_watch
  PROVE  EtcdInv'
<1> DEFINE ev == Head(stream)
<1>0. EtcdTypeOK /\ FleetInv /\ NewestIsStored /\ SettledMatches /\ watch = "watching" /\ draining = {}
  BY Zenon DEF EtcdInv, PoolFollowsStore, NewestIsStored, SettledMatches, Quiet, dispatch_watch
<1>1. /\ stream \in Seq(Events) /\ stream # <<>> /\ stream' = Tail(stream)
      /\ UNCHANGED <<client, holds, store, watch>>
  BY Zenon, <1>0 DEF dispatch_watch, EtcdTypeOK
<1>2. /\ ev = stream[1] /\ ev \in Events
      /\ Len(stream) \in Nat \ {0}
      /\ stream' \in Seq(Events) /\ Len(stream') = Len(stream) - 1
      /\ \A i \in 1..(Len(stream) - 1) : stream'[i] = stream[i + 1]
  BY <1>1
<1>3. ev.worker \in Workers /\ ev.rec \in Records \cup {None}
  BY Zenon, <1>2 DEF Events
<1>4. /\ IF ev.rec # None THEN upsert(ev.worker, ev.rec) ELSE remove(ev.worker)
      /\ stale' = IF ev.rec # None /\ ~Accepts(ev.rec)
                  THEN stale \cup {ev.worker} ELSE stale \ {ev.worker}
  BY Zenon DEF dispatch_watch
<1> HIDE DEF ev
<1>5. FleetInv'
  BY Zenon, <1>0, <1>3, <1>4, UpsertInv, RemoveInv
<1>6. /\ \A v \in Workers \ {ev.worker} : pool'[v] = pool[v]
      /\ ev.worker \notin stale' => pool'[ev.worker] = ev.rec
      /\ draining' = {}
  <2>1. pool \in [Workers -> Records \cup {None}]
    BY Zenon, <1>0 DEF EtcdTypeOK, FleetTypeOK
  <2>2. CASE ev.rec # None
    BY Zenon, <1>0, <1>3, <1>4, <2>1, <2>2 DEF upsert, fleetVars
  <2>3. CASE ev.rec = None
    BY Zenon, <1>0, <1>3, <1>4, <2>1, <2>3 DEF remove, fleetVars
  <2> QED BY Zenon, <2>2, <2>3
<1>7. NewestIsStored'
  <2> SUFFICES ASSUME NEW i \in 1..(Len(stream) - 1),
                      \A j \in 1..(Len(stream) - 1) : j > i => stream'[j].worker # stream'[i].worker
               PROVE  stream'[i].rec = store[stream'[i].worker]
    BY Zenon, <1>1, <1>2 DEF NewestIsStored
  <2>1. i + 1 \in 1..Len(stream) /\ stream'[i] = stream[i + 1]
    BY <1>2
  <2>2. ASSUME NEW j \in 1..Len(stream), j > i + 1
        PROVE  stream[j].worker # stream[i + 1].worker
    <3>1. j - 1 \in 1..(Len(stream) - 1) /\ j - 1 > i /\ (j - 1) + 1 = j
      BY <1>2, <2>2
    <3> QED BY Zenon, <1>2, <2>1, <3>1
  <2> QED BY Zenon, <1>0, <2>1, <2>2 DEF NewestIsStored
<1>8. SettledMatches'
  <2> SUFFICES ASSUME NEW v \in Workers \ stale',
                      \A i \in 1..(Len(stream) - 1) : stream'[i].worker # v
               PROVE  pool'[v] = store[v]
    BY Zenon, <1>1, <1>2 DEF SettledMatches
  <2>1. \A i \in 2..Len(stream) : stream[i].worker # v
    <3> SUFFICES ASSUME NEW i \in 2..Len(stream) PROVE stream[i].worker # v
      BY Zenon
    <3>1. i - 1 \in 1..(Len(stream) - 1) /\ (i - 1) + 1 = i
      BY <1>2
    <3> QED BY Zenon, <1>2, <3>1
  <2>2. CASE v = ev.worker
    <3>1. \A j \in 1..Len(stream) : j > 1 => stream[j].worker # stream[1].worker
      BY <1>2, <2>1, <2>2
    <3>2. ev.rec = store[ev.worker]
      BY <1>0, <1>2, <3>1 DEF NewestIsStored
    <3> QED BY Zenon, <1>6, <2>2, <3>2
  <2>3. CASE v # ev.worker
    <3>1. v \notin stale
      BY Zenon, <1>4, <2>3
    <3>2. \A i \in 1..Len(stream) : stream[i].worker # v
      BY <1>2, <2>1, <2>3
    <3> QED BY Zenon, <1>0, <1>6, <2>3, <3>1, <3>2 DEF SettledMatches
  <2> QED BY Zenon, <2>2, <2>3
<1>9. EtcdTypeOK'
  BY Zenon, <1>0, <1>1, <1>2, <1>3, <1>4, <1>5 DEF EtcdTypeOK, FleetInv
<1> QED
  BY Zenon, <1>0, <1>1, <1>5, <1>6, <1>7, <1>8, <1>9
     DEF EtcdInv, PoolFollowsStore, NewestIsStored, SettledMatches, Quiet

\* Every step keeps the invariant.
LEMMA NextEtcdInv == EtcdInv /\ [EtcdNext]_etcdVars => EtcdInv'
<1> SUFFICES ASSUME EtcdInv, [EtcdNext]_etcdVars PROVE EtcdInv'
  BY Zenon
<1>0. EtcdTypeOK /\ FleetInv /\ PoolFollowsStore /\ Quiet
  BY Zenon DEF EtcdInv
<1>f. UNCHANGED fleetVars => FleetInv' /\ pool' = pool /\ draining' = draining
  BY Zenon, <1>0, FleetFrame DEF fleetVars
<1>1. ASSUME NEW w \in Workers, Expire(w) PROVE EtcdInv'
  <2>1. KeyChange(w, None) /\ watch' = watch /\ UNCHANGED fleetVars /\ holds' = holds \ {w} /\ client' = client
    BY Zenon, <1>1 DEF Expire
  <2> QED BY Zenon, <1>0, <1>f, <2>1, ChangeFollows DEF EtcdInv, EtcdTypeOK, FleetInv
<1>2. ASSUME NEW w \in Workers, NEW r \in Configs[w], etcd_register(w, r) PROVE EtcdInv'
  <2>0. r \in Records
    BY Zenon, EtcdConfig
  <2>1. /\ KeyChange(w, r) /\ watch' = watch /\ UNCHANGED fleetVars
        /\ holds' = holds \cup {w} /\ client' = [client EXCEPT ![w] = r]
    BY Zenon, <1>2 DEF etcd_register
  <2> QED BY Zenon, <1>0, <1>f, <2>0, <2>1, ChangeFollows DEF EtcdInv, EtcdTypeOK, FleetInv
<1>3. ASSUME NEW w \in Workers, heartbeat_loop(w) PROVE EtcdInv'
  <2>1. /\ KeyChange(w, client[w]) /\ watch' = watch /\ UNCHANGED fleetVars
        /\ holds' \in {holds, holds \cup {w}} /\ client' = client
    BY Zenon, <1>3 DEF heartbeat_loop
  <2>2. client[w] \in Records \cup {None}
    BY Zenon, <1>0 DEF EtcdTypeOK
  <2> QED BY Zenon, <1>0, <1>f, <2>1, <2>2, ChangeFollows DEF EtcdInv, EtcdTypeOK, FleetInv
<1>4. ASSUME NEW w \in Workers, etcd_deregister(w) PROVE EtcdInv'
  <2>1. /\ watch' = watch /\ UNCHANGED fleetVars
        /\ holds' = holds \ {w} /\ client' = [client EXCEPT ![w] = None]
        /\ KeyChange(w, None) \/ UNCHANGED <<store, stream, stale>>
    BY Zenon, <1>4 DEF etcd_deregister
  <2>2. CASE KeyChange(w, None)
    BY Zenon, <1>0, <1>f, <2>1, <2>2, ChangeFollows DEF EtcdInv, EtcdTypeOK, FleetInv
  <2>3. CASE UNCHANGED <<store, stream, stale>>
    BY Zenon, <1>0, <1>f, <2>1, <2>3 DEF EtcdInv, EtcdTypeOK, FleetInv, PoolFollowsStore, Quiet
  <2> QED BY Zenon, <2>1, <2>2, <2>3
<1>5. ASSUME NEW w \in Workers, Die(w) PROVE EtcdInv'
  BY Zenon, <1>0, <1>f, <1>5 DEF Die, EtcdInv, EtcdTypeOK, FleetInv, PoolFollowsStore, Quiet
<1>6. ASSUME NEW ref \in [Models -> Canaries \cup {None}], start(ref) PROVE EtcdInv'
  <2>1. FleetInv'
    BY Zenon, <1>6, StartFleet
  <2>2. /\ watch = "down" /\ watch' = "gap" /\ draining' = draining
        /\ stale' = {w \in Workers : pool'[w] # store[w]}
        /\ UNCHANGED <<client, holds, store, stream>>
    BY Zenon, <1>6 DEF start
  <2> QED BY Zenon, <1>0, <2>1, <2>2 DEF EtcdInv, EtcdTypeOK, FleetInv, PoolFollowsStore, Quiet, WatchPhases
<1>7. CASE Connect
  BY <1>0, <1>f, <1>7 DEF Connect, EtcdInv, EtcdTypeOK, FleetInv, PoolFollowsStore, Quiet, WatchPhases
<1>8. CASE Disconnect
  <2>1. /\ watch = "watching" /\ watch' = "gap" /\ stream' = <<>>
        /\ stale' = stale \cup {stream[i].worker : i \in 1..Len(stream)}
        /\ UNCHANGED <<client, holds, store, fleetVars>>
    BY Zenon, <1>8 DEF Disconnect
  <2>2. \A i \in 1..Len(stream) : stream[i].worker \in Workers
    <3>1. \A i \in 1..Len(stream) : stream[i] \in Events
      BY <1>0 DEF EtcdTypeOK
    <3> QED BY Zenon, <3>1 DEF Events
  <2>3. SettledMatches'
    BY Zenon, <1>0, <1>f, <2>1 DEF SettledMatches, PoolFollowsStore
  <2>4. EtcdTypeOK'
    BY <1>0, <1>f, <2>1, <2>2 DEF EtcdTypeOK, FleetInv, WatchPhases
  <2> QED BY Zenon, <1>0, <1>f, <2>1, <2>3, <2>4 DEF EtcdInv, SettledMatches, PoolFollowsStore, Quiet
<1>9. CASE dispatch_watch
  BY Zenon, <1>9, DispatchFollows
<1>10. CASE stop
  <2>1. FleetInit'
    BY Zenon, <1>10 DEF stop, FleetInit
  <2>2. FleetInv'
    BY Zenon, <2>1, PoolConfig DEF FleetInit, FleetInv, FleetTypeOK, Pinned, Stashed, Backed, Apart, Users
  <2> QED BY <1>0, <1>10, <2>2 DEF stop, EtcdInv, EtcdTypeOK, FleetInv, PoolFollowsStore, Quiet, WatchPhases
<1>11. CASE UNCHANGED etcdVars
  BY Zenon, <1>0, <1>f, <1>11 DEF etcdVars, fleetVars, EtcdInv, EtcdTypeOK, FleetInv, PoolFollowsStore, Quiet
<1> QED BY Zenon, <1>1, <1>2, <1>3, <1>4, <1>5, <1>6, <1>7, <1>8, <1>9, <1>10, <1>11 DEF EtcdNext

\* The inductive invariant holds in every behaviour of the etcd backend.
LEMMA SpecIInv == EtcdSpec => []EtcdInv
  BY InitEtcdInv, NextEtcdInv, PTL DEF EtcdSpec

\* The state of the etcd backend is always well typed.
THEOREM EtcdTypeCorrect == EtcdSpec => []EtcdTypeOK
<1>1. EtcdInv => EtcdTypeOK
  BY Zenon DEF EtcdInv
<1> QED BY <1>1, SpecIInv, PTL

\* The pool differs from etcd only where a change was lost or refused.
THEOREM PoolIsFaithful == EtcdSpec => []PoolFollowsStore
<1>1. EtcdInv => PoolFollowsStore
  BY Zenon DEF EtcdInv
<1> QED BY <1>1, SpecIInv, PTL

\* No two routable workers of a model have different tokenizer canaries.
THEOREM EtcdCanariesAgree == EtcdSpec => []TokenizersAgree
<1>1. EtcdInv => TokenizersAgree
  BY Zenon, FleetInvImplies DEF EtcdInv
<1> QED BY <1>1, SpecIInv, PTL

\* Every routable worker with a kv block is a reconciler target, and is subscribed
\* to at the endpoint of its record unless another worker announced the same one
\* at the same time (__main__.on_worker_added and on_worker_removed).
THEOREM EtcdKvWorkersWatched == EtcdSpec => []KvWorkersWatched
<1>1. EtcdInv => KvWorkersWatched
  BY Zenon, FleetInvImplies DEF EtcdInv
<1> QED BY <1>1, SpecIInv, PTL

-----------------------------------------------------------------------------
(* The Kubernetes backend. *)

PodEvents == [pod : Pods, state : PodStates \cup {Gone}]

TInv == TypeOK /\ FleetInv

\* Before the first list, without Pods, the view is empty.
LEMMA InitTInv == Init => TInv
<1> SUFFICES ASSUME Init PROVE TInv
  BY Zenon
<1>1. FleetInv
  BY Zenon, FleetInitInv DEF Init
<1>2. TypeOK
  BY <1>1 DEF Init, TypeOK, FleetInv, Phases
<1> QED BY Zenon, <1>1, <1>2 DEF TInv

\* A change of a Pod touches the Pods and the log only.
LEMMA ChangeTInv ==
  ASSUME TInv, NEW p \in Pods, NEW s \in PodStates \cup {Gone}, Change(p, s)
  PROVE  TInv'
<1>1. FleetInv'
  BY Zenon, FleetFrame DEF TInv, Change
<1>2. pods' \in [Pods -> PodStates \cup {Gone}]
  BY Zenon DEF TInv, TypeOK, Change
<1>3. log' \in Seq(PodEvents)
  <2>1. log \in Seq(PodEvents) /\ [pod |-> p, state |-> s] \in PodEvents
    BY Zenon DEF TInv, TypeOK, PodEvents
  <2> QED BY <2>1 DEF Change
<1> QED BY Zenon, <1>1, <1>2, <1>3 DEF TInv, TypeOK, Change, FleetInv, PodEvents

\* Forget drops the worker of a Pod from the view and the table.
LEMMA ForgetTInv ==
  ASSUME TInv, NEW p \in Pods, Forget(p)
  PROVE  /\ FleetInv'
         /\ pod_to_worker' \in [Pods -> Workers \cup {None}]
         /\ refused' \in SUBSET Pods
<1>1. FleetInv'
  <2>1. CASE pod_to_worker[p] # None
    <3>1. remove(pod_to_worker[p]) /\ pod_to_worker[p] \in Workers
      BY Zenon, <2>1 DEF Forget, TInv, TypeOK
    <3> QED BY Zenon, <3>1, RemoveInv DEF TInv
  <2>2. CASE pod_to_worker[p] = None
    BY Zenon, <2>2, FleetFrame DEF Forget, TInv
  <2> QED BY Zenon, <2>1, <2>2
<1> QED BY Zenon, <1>1 DEF Forget, TInv, TypeOK

\* Whatever is seen of a Pod, handling it keeps the view and the table good.
LEMMA HandleTInv ==
  ASSUME TInv, NEW p \in Pods, NEW s \in PodStates \cup {Gone}, handle_pod(p, s)
  PROVE  /\ FleetInv'
         /\ pod_to_worker' \in [Pods -> Workers \cup {None}]
         /\ refused' \in SUBSET Pods
<1>0. FleetInv /\ TypeOK
  BY Zenon DEF TInv
<1>1. CASE s = Gone \/ s.rec = None \/ ~s.running
  BY Zenon, <1>1, ForgetTInv DEF handle_pod
<1>2. CASE ~(s = Gone \/ s.rec = None \/ ~s.running) /\ s.terminating
  <2>1. CASE pod_to_worker[p] # None
    <3>1. mark_draining(pod_to_worker[p]) /\ pod_to_worker[p] \in Workers
      BY Zenon, <1>0, <1>2, <2>1 DEF handle_pod, TypeOK
    <3>2. FleetInv'
      BY Zenon, <1>0, <3>1, DrainInv
    <3> QED BY Zenon, <1>0, <1>2, <3>2 DEF handle_pod, TypeOK
  <2>2. CASE pod_to_worker[p] = None
    BY Zenon, <1>0, <1>2, <2>2, FleetFrame DEF handle_pod, TypeOK
  <2> QED BY Zenon, <2>1, <2>2
<1>3. CASE ~(s = Gone \/ s.rec = None \/ ~s.running) /\ ~s.terminating
  <2>1. s.id \in Workers /\ s.rec \in Records
    BY Zenon, <1>3 DEF PodStates
  <2>2. /\ upsert(s.id, s.rec)
        /\ pod_to_worker' = IF Accepts(s.rec) THEN [pod_to_worker EXCEPT ![p] = s.id]
                            ELSE pod_to_worker
        /\ refused' = IF Accepts(s.rec) THEN refused \ {p} ELSE refused \cup {p}
    BY Zenon, <1>3 DEF handle_pod
  <2>3. FleetInv'
    BY Zenon, <1>0, <2>1, <2>2, UpsertInv
  <2> QED BY Zenon, <1>0, <2>1, <2>2, <2>3 DEF TypeOK
<1> QED BY Zenon, <1>1, <1>2, <1>3

\* An event is read off the log.
LEMMA LogTail ==
  ASSUME TypeOK, log # <<>>
  PROVE  /\ log \in Seq(PodEvents)
         /\ Head(log) \in PodEvents /\ Head(log) = log[1]
         /\ Tail(log) \in Seq(PodEvents)
         /\ Len(Tail(log)) = Len(log) - 1
         /\ \A i \in 1..Len(Tail(log)) : Tail(log)[i] = log[i + 1]
         /\ Len(log) \in Nat \ {0}
<1>1. log \in Seq(PodEvents)
  BY Zenon DEF TypeOK, PodEvents
<1> QED BY <1>1

\* Every action keeps the types and the fleet view.
LEMMA StepTInv == TInv /\ [Next]_vars => TInv'
<1> SUFFICES ASSUME TInv, [Next]_vars PROVE TInv'
  BY Zenon
<1>0. FleetInv /\ TypeOK
  BY Zenon DEF TInv
<1>1. ASSUME NEW p \in Pods, NEW i \in Ids[p], Create(p, i) PROVE TInv'
  <2>1. [id |-> i, rec |-> None, running |-> TRUE, terminating |-> FALSE] \in PodStates
    BY Zenon, PodConfig DEF PodStates
  <2> QED BY Zenon, <1>1, <2>1, ChangeTInv DEF Create
<1>2. ASSUME NEW p \in Pods, NEW r \in Template[p], register(p, r) PROVE TInv'
  <2>1. pods[p] \in PodStates /\ r \in Records
    BY Zenon, <1>0, <1>2, PodConfig DEF register, Exists, TypeOK
  <2>2. [id |-> pods[p].id, rec |-> r, running |-> TRUE, terminating |-> pods[p].terminating]
           \in PodStates
    BY Zenon, <2>1 DEF PodStates
  <2> QED BY Zenon, <1>2, <2>2, ChangeTInv DEF register
<1>3. ASSUME NEW p \in Pods, deregister(p) PROVE TInv'
  <2>1. pods[p] \in PodStates
    BY Zenon, <1>0, <1>3 DEF deregister, Exists, TypeOK
  <2>2. [id |-> pods[p].id, rec |-> None, running |-> pods[p].running,
         terminating |-> pods[p].terminating] \in PodStates
    BY Zenon, <2>1 DEF PodStates
  <2> QED BY Zenon, <1>3, <2>2, ChangeTInv DEF deregister
<1>4. ASSUME NEW p \in Pods, Condemn(p) PROVE TInv'
  <2>1. pods[p] \in PodStates
    BY Zenon, <1>0, <1>4 DEF Condemn, Exists, TypeOK
  <2>2. [id |-> pods[p].id, rec |-> pods[p].rec, running |-> pods[p].running,
         terminating |-> TRUE] \in PodStates
    BY Zenon, <2>1 DEF PodStates
  <2> QED BY Zenon, <1>4, <2>2, ChangeTInv DEF Condemn
<1>5. ASSUME NEW p \in Pods, Exit(p) PROVE TInv'
  <2>1. pods[p] \in PodStates
    BY Zenon, <1>0, <1>5 DEF Exit, Exists, TypeOK
  <2>2. [id |-> pods[p].id, rec |-> pods[p].rec, running |-> FALSE,
         terminating |-> pods[p].terminating] \in PodStates
    BY Zenon, <2>1 DEF PodStates
  <2> QED BY Zenon, <1>5, <2>2, ChangeTInv DEF Exit
<1>6. ASSUME NEW p \in Pods, Delete(p) PROVE TInv'
  BY Zenon, <1>6, ChangeTInv DEF Delete
<1>7. CASE List
  <2>1. FleetInv'
    BY Zenon, <1>0, <1>7, FleetFrame DEF List
  <2>2. crossed' \in SUBSET Workers
    BY Zenon, <1>0, <1>7 DEF List, TypeOK, Crosses
  <2> QED BY Zenon, <1>0, <1>7, <2>1, <2>2 DEF List, TInv, TypeOK, Phases, FleetInv
<1>8. ASSUME NEW p \in Pods, HandleListed(p) PROVE TInv'
  <2>1. list[p] \in PodStates \cup {Gone} /\ handle_pod(p, list[p])
    BY Zenon, <1>0, <1>8 DEF HandleListed, TypeOK
  <2>2. /\ FleetInv'
        /\ pod_to_worker' \in [Pods -> Workers \cup {None}]
        /\ refused' \in SUBSET Pods
    BY Zenon, <2>1, HandleTInv
  <2> QED BY Zenon, <1>0, <1>8, <2>2 DEF HandleListed, TInv, TypeOK, FleetInv
<1>9. ASSUME NEW p \in Pods, reconcile_absent(p) PROVE TInv'
  <2>1. /\ FleetInv'
        /\ pod_to_worker' \in [Pods -> Workers \cup {None}]
        /\ refused' \in SUBSET Pods
    BY Zenon, <1>9, ForgetTInv DEF reconcile_absent
  <2> QED BY Zenon, <1>0, <1>9, <2>1 DEF reconcile_absent, TInv, TypeOK, FleetInv
<1>10. CASE Watch
  <2>1. FleetInv'
    BY Zenon, <1>0, <1>10, FleetFrame DEF Watch
  <2> QED BY Zenon, <1>0, <1>10, <2>1 DEF Watch, TInv, TypeOK, Phases, FleetInv
<1>11. CASE dispatch_event
  <2>1. Head(log) \in PodEvents /\ Tail(log) \in Seq(PodEvents)
    BY Zenon, <1>0, <1>11, LogTail DEF dispatch_event
  <2>2. Head(log).pod \in Pods /\ Head(log).state \in PodStates \cup {Gone}
    BY Zenon, <2>1 DEF PodEvents
  <2>3. /\ FleetInv'
        /\ pod_to_worker' \in [Pods -> Workers \cup {None}]
        /\ refused' \in SUBSET Pods
    BY Zenon, <1>11, <2>2, HandleTInv DEF dispatch_event
  <2> QED BY Zenon, <1>0, <1>11, <2>1, <2>3 DEF dispatch_event, TInv, TypeOK, FleetInv, PodEvents
<1>12. CASE Expired
  <2>1. FleetInv'
    BY Zenon, <1>0, <1>12, FleetFrame DEF Expired
  <2> QED BY <1>0, <1>12, <2>1 DEF Expired, TInv, TypeOK, Phases, FleetInv
<1>13. CASE UNCHANGED vars
  <2>1. FleetInv'
    BY Zenon, <1>0, <1>13, FleetFrame DEF vars, fleetVars
  <2> QED BY Zenon, <1>0, <1>13, <2>1 DEF vars, TInv, TypeOK, FleetInv
<1> QED BY Zenon, <1>1, <1>2, <1>3, <1>4, <1>5, <1>6, <1>7, <1>8, <1>9, <1>10, <1>11, <1>12, <1>13 DEF Next

\* For any Pods and records the state of the Kubernetes backend is well typed.
THEOREM K8sTypeCorrect == Spec => []TypeOK
<1>1. Init => TInv
  BY Zenon, InitTInv
<1>2. TInv /\ [Next]_vars => TInv'
  BY Zenon, StepTInv
<1>3. TInv => TypeOK
  BY Zenon DEF TInv
<1> QED BY <1>1, <1>2, <1>3, PTL DEF Spec

\* No two workers the registry keeps for a model have different canaries,
\* through drains, removals, reconciliations and records that are refused.
THEOREM K8sCanariesAgree == Spec => []TokenizersAgree
<1>1. Init => TInv
  BY Zenon, InitTInv
<1>2. TInv /\ [Next]_vars => TInv'
  BY Zenon, StepTInv
<1>3. TInv => TokenizersAgree
  BY Zenon, FleetInvImplies DEF TInv
<1> QED BY <1>1, <1>2, <1>3, PTL DEF Spec

\* Every routable worker with a kv block is a reconciler target and is subscribed
\* to at its current endpoint, unless another worker announced the same one at the
\* same time; a draining one is stashed no more, so that its removal does not
\* announce it again.
THEOREM K8sKvWorkersWatched == Spec => []KvWorkersWatched
<1>1. Init => TInv
  BY Zenon, InitTInv
<1>2. TInv /\ [Next]_vars => TInv'
  BY Zenon, StepTInv
<1>3. TInv => KvWorkersWatched
  BY Zenon, FleetInvImplies DEF TInv
<1> QED BY <1>1, <1>2, <1>3, PTL DEF Spec

-----------------------------------------------------------------------------
(* What the registry routes to, when every Pod name has one address of its *)
(* own.  (A name that is given another address while the registry does not *)
(* look hides the old worker from it.)                                     *)

OneAddressEach ==
    /\ \A p \in Pods : \E i \in Workers : Ids[p] = {i}
    /\ \A p, q \in Pods : p # q => Ids[p] \cap Ids[q] = {}

At(p, s) == s # Gone => s.id \in Ids[p]

\* Pods, list, events and table give a Pod no address but its own.
Addressed ==
    /\ \A p \in Pods : At(p, pods[p]) /\ At(p, list[p])
    /\ \A k \in 1..Len(log) : At(log[k].pod, log[k].state)
    /\ \A p \in Pods : pod_to_worker[p] \in Ids[p] \cup {None}

\* The table has an entry for every worker in the pool, a Pod's address.
Tracked ==
    /\ \A p \in Pods : \A i \in Ids[p] : pool[i] # None <=> pod_to_worker[p] = i
    /\ \A i \in Workers : pool[i] # None => \E p \in Pods : i \in Ids[p]

Routable(s) == s # Gone /\ s.rec # None /\ s.running /\ ~s.terminating

\* A view (refused Pods, pool, draining) agrees with state s of Pod p, or p is
\* there and its record was refused.
Agrees(p, s, rf, po, dr) ==
    (p \in rf /\ s # Gone) \/
    \A i \in Ids[p] : /\ (po[i] # None /\ i \notin dr) <=> Routable(s)
                      /\ Routable(s) => po[i] = s.rec

Matches(p, s) == Agrees(p, s, refused, pool, draining)

NoNews(p) == \A k \in 1..Len(log) : log[k].pod # p

\* The newest event of a Pod is its state; without a list there is no event.
Newest ==
    /\ phase = "stale" => log = <<>>
    /\ \A k \in 1..Len(log) :
          (\A j \in 1..Len(log) : j > k => log[j].pod # log[k].pod)
          => log[k].state = pods[log[k].pod]

\* While a list is worked through, what was handled of it is in the view.
Listing ==
    phase = "listing" =>
        /\ \A p \in Pods : NoNews(p) => list[p] = pods[p]
        /\ \A p \in Pods \ todo : list[p] # Gone => Matches(p, list[p])

\* While watching, a Pod without news is in the view as it is.
Watching == phase = "watching" => \A p \in Pods : NoNews(p) => Matches(p, pods[p])

RInv == TInv /\ Addressed /\ Tracked /\ Newest /\ Listing /\ Watching

\* remove takes one worker out of the pool and leaves the others as they are.
LEMMA RemoveEffect ==
  ASSUME FleetTypeOK, NEW w \in Workers, remove(w)
  PROVE  \A v \in Workers : /\ pool'[v] = IF v = w THEN None ELSE pool[v]
                            /\ v # w => (v \in draining' <=> v \in draining)
  BY Zenon DEF remove, FleetTypeOK, fleetVars

\* mark_draining takes nobody out of the pool, and drains one worker.
LEMMA DrainEffect ==
  ASSUME NEW w \in Workers, mark_draining(w)
  PROVE  /\ pool' = pool
         /\ pool[w] # None => w \in draining'
         /\ \A v \in Workers : v # w => (v \in draining' <=> v \in draining)
  BY Zenon DEF mark_draining, fleetVars

\* upsert replaces the record of one worker, if its canary is accepted.
LEMMA UpsertEffect ==
  ASSUME FleetTypeOK, NEW w \in Workers, NEW r \in Records, upsert(w, r)
  PROVE  /\ \A v \in Workers : pool'[v] = IF v = w /\ Accepts(r) THEN r ELSE pool[v]
         /\ Accepts(r) => w \notin draining'
         /\ \A v \in Workers : v # w => (v \in draining' <=> v \in draining)
  BY Zenon DEF upsert, FleetTypeOK, fleetVars

\* A view in which the Pod's address is out of rotation agrees with any state
\* that is not routable.
LEMMA OutAgrees ==
  ASSUME NEW p, NEW s, NEW rf, NEW po, NEW dr, ~Routable(s),
         \A i \in Ids[p] : po[i] = None \/ i \in dr
  PROVE  Agrees(p, s, rf, po, dr)
  BY Zenon DEF Agrees

\* Handling a state of p concerns p's own address only.
Local(p) ==
    /\ \A i \in Workers \ Ids[p] : /\ pool'[i] = pool[i]
                                   /\ i \in draining' <=> i \in draining
    /\ \A q \in Pods \ {p} : /\ q \in refused' <=> q \in refused
                             /\ pod_to_worker'[q] = pod_to_worker[q]

\* Where the address of p may only be forgotten.
LEMMA ForgetRoutes ==
  ASSUME OneAddressEach, TInv, Addressed, Tracked, NEW p \in Pods, Forget(p)
  PROVE  /\ Local(p)
         /\ pod_to_worker'[p] = None
         /\ \A i \in Ids[p] : pool'[i] = None
<1>0. TypeOK /\ FleetTypeOK /\ None \notin Workers
  BY Zenon, PodConfig DEF TInv, TypeOK
<1>1. PICK a \in Workers : Ids[p] = {a}
  BY Zenon DEF OneAddressEach
<1>2. \A q \in Pods \ {p} : \A i \in Ids[q] : i # a /\ i \in Workers
  BY Zenon, <1>1, PodConfig DEF OneAddressEach
<1>3. \A q \in Pods : pod_to_worker'[q] = IF q = p THEN None ELSE pod_to_worker[q]
  BY Zenon, <1>0 DEF Forget, TypeOK
<1>4. refused' = refused \ {p}
  BY Zenon DEF Forget
<1>5. CASE pod_to_worker[p] # None
  <2>1. pod_to_worker[p] = a /\ remove(a)
    BY Zenon, <1>1, <1>5 DEF Addressed, Forget
  <2>2. \A v \in Workers : /\ pool'[v] = IF v = a THEN None ELSE pool[v]
                           /\ v # a => (v \in draining' <=> v \in draining)
    BY Zenon, <1>0, <2>1, RemoveEffect
  <2> QED BY Zenon, <1>1, <1>2, <1>3, <1>4, <2>2 DEF Local
<1>6. CASE pod_to_worker[p] = None
  <2>1. pool' = pool /\ draining' = draining
    BY Zenon, <1>6 DEF Forget, fleetVars
  <2>2. pool[a] = None
    BY Zenon, <1>0, <1>1, <1>6 DEF Tracked
  <2> QED BY Zenon, <1>1, <1>2, <1>3, <1>4, <2>1, <2>2 DEF Local
<1> QED BY Zenon, <1>5, <1>6

\* After a state of p is handled the view agrees with it, and only p's address
\* was touched.
LEMMA HandleRoutes ==
  ASSUME OneAddressEach, TInv, Addressed, Tracked,
         NEW p \in Pods, NEW s \in PodStates \cup {Gone}, At(p, s), handle_pod(p, s)
  PROVE  /\ Local(p)
         /\ pod_to_worker'[p] \in Ids[p] \cup {None}
         /\ \A i \in Ids[p] : pool'[i] # None <=> pod_to_worker'[p] = i
         /\ Agrees(p, s, refused', pool', draining')
<1>0. TypeOK /\ FleetTypeOK /\ None \notin Workers /\ None \notin Records
  BY Zenon, PodConfig, PoolConfig DEF TInv, TypeOK
<1>1. PICK a \in Workers : Ids[p] = {a}
  BY Zenon DEF OneAddressEach
<1>2. \A q \in Pods \ {p} : \A i \in Ids[q] : i # a /\ i \in Workers
  BY Zenon, <1>1, PodConfig DEF OneAddressEach
<1>3. CASE s = Gone \/ s.rec = None \/ ~s.running
  <2>1. Forget(p) /\ ~Routable(s)
    BY Zenon, <1>3 DEF handle_pod, Routable
  <2>2. /\ Local(p) /\ pod_to_worker'[p] = None
        /\ \A i \in Ids[p] : pool'[i] = None
    BY Zenon, <2>1, ForgetRoutes
  <2>3. Agrees(p, s, refused', pool', draining')
    BY Zenon, <2>1, <2>2, OutAgrees
  <2> QED BY Zenon, <1>0, <1>1, <2>2, <2>3
<1>4. CASE ~(s = Gone \/ s.rec = None \/ ~s.running) /\ s.terminating
  <2>1. /\ pod_to_worker' = pod_to_worker /\ refused' = refused
        /\ IF pod_to_worker[p] # None THEN mark_draining(pod_to_worker[p]) ELSE UNCHANGED fleetVars
        /\ ~Routable(s)
    BY Zenon, <1>4 DEF handle_pod, Routable
  <2>2. CASE pod_to_worker[p] # None
    <3>1. pod_to_worker[p] = a /\ mark_draining(a) /\ pool[a] # None
      BY Zenon, <1>1, <2>1, <2>2 DEF Addressed, Tracked
    <3>2. /\ pool' = pool /\ a \in draining'
          /\ \A v \in Workers : v # a => (v \in draining' <=> v \in draining)
      BY Zenon, <3>1, DrainEffect
    <3>3. Agrees(p, s, refused', pool', draining')
      BY Zenon, <1>1, <2>1, <3>2, OutAgrees
    <3>4. Local(p)
      BY Zenon, <1>1, <2>1, <3>2 DEF Local
    <3> QED BY Zenon, <1>1, <2>1, <3>1, <3>2, <3>3, <3>4
  <2>3. CASE pod_to_worker[p] = None
    <3>1. pool' = pool /\ draining' = draining
      BY Zenon, <2>1, <2>3 DEF fleetVars
    <3>2. pool[a] = None
      BY Zenon, <1>0, <1>1, <2>3 DEF Tracked
    <3>3. Agrees(p, s, refused', pool', draining')
      BY Zenon, <1>1, <2>1, <3>1, <3>2, OutAgrees
    <3>4. Local(p)
      BY Zenon, <2>1, <3>1 DEF Local
    <3> QED BY Zenon, <1>0, <1>1, <2>1, <2>3, <3>1, <3>2, <3>3, <3>4
  <2> QED BY Zenon, <2>2, <2>3
<1>5. CASE ~(s = Gone \/ s.rec = None \/ ~s.running) /\ ~s.terminating
  <2>1. s.id = a /\ s.rec \in Records /\ s.rec # None /\ Routable(s)
    BY Zenon, <1>0, <1>1, <1>5 DEF At, PodStates, Routable
  <2>2. /\ upsert(a, s.rec)
        /\ pod_to_worker' = IF Accepts(s.rec) THEN [pod_to_worker EXCEPT ![p] = a]
                            ELSE pod_to_worker
        /\ refused' = IF Accepts(s.rec) THEN refused \ {p} ELSE refused \cup {p}
    BY Zenon, <1>5, <2>1 DEF handle_pod
  <2>3. /\ \A v \in Workers : pool'[v] = IF v = a /\ Accepts(s.rec) THEN s.rec ELSE pool[v]
        /\ Accepts(s.rec) => a \notin draining'
        /\ \A v \in Workers : v # a => (v \in draining' <=> v \in draining)
    BY Zenon, <1>0, <2>1, <2>2, UpsertEffect
  <2>4. Local(p)
    <3>1. \A v \in Workers \ Ids[p] : /\ pool'[v] = pool[v]
                                      /\ v \in draining' <=> v \in draining
      BY Zenon, <1>1, <2>3
    <3>2. \A q \in Pods \ {p} : /\ q \in refused' <=> q \in refused
                                /\ pod_to_worker'[q] = pod_to_worker[q]
      BY Zenon, <1>0, <2>2 DEF TypeOK
    <3> QED BY Zenon, <3>1, <3>2 DEF Local
  <2>5. CASE Accepts(s.rec)
    <3>1. pod_to_worker'[p] = a /\ pool'[a] = s.rec /\ a \notin draining'
      BY Zenon, <1>0, <2>2, <2>3, <2>5 DEF TypeOK
    <3>2. Agrees(p, s, refused', pool', draining')
      BY Zenon, <1>1, <2>1, <3>1 DEF Agrees
    <3> QED BY Zenon, <1>1, <2>1, <2>4, <3>1, <3>2
  <2>6. CASE ~Accepts(s.rec)
    <3>1. p \in refused' /\ pod_to_worker' = pod_to_worker /\ pool'[a] = pool[a]
      BY Zenon, <2>2, <2>3, <2>6
    <3>2. Agrees(p, s, refused', pool', draining')
      BY Zenon, <1>5, <3>1 DEF Agrees
    <3> QED BY <1>1, <2>4, <3>1, <3>2 DEF Addressed, Tracked
  <2> QED BY Zenon, <2>5, <2>6
<1> QED BY Zenon, <1>3, <1>4, <1>5

\* What is local to p leaves what the view says of the others.
LEMMA LocalKeeps ==
  ASSUME OneAddressEach, NEW p \in Pods, Local(p), NEW q \in Pods, q # p, NEW s,
         Agrees(q, s, refused, pool, draining)
  PROVE  Agrees(q, s, refused', pool', draining')
<1>1. \A i \in Ids[q] : i \in Workers \ Ids[p]
  BY Zenon, PodConfig DEF OneAddressEach
<1> QED BY <1>1 DEF Local, Agrees

\* So the table stays complete, and gives no Pod an address but its own.
LEMMA TableKeeps ==
  ASSUME OneAddressEach, Addressed, Tracked, NEW p \in Pods, Local(p),
         pod_to_worker'[p] \in Ids[p] \cup {None},
         \A i \in Ids[p] : pool'[i] # None <=> pod_to_worker'[p] = i
  PROVE  /\ Tracked'
         /\ \A q \in Pods : pod_to_worker'[q] \in Ids[q] \cup {None}
<1>1. \A q \in Pods \ {p} : pod_to_worker'[q] = pod_to_worker[q]
  BY Zenon DEF Local
<1>2. \A q \in Pods \ {p} : \A i \in Ids[q] : pool'[i] = pool[i]
  BY Zenon, PodConfig DEF Local, OneAddressEach
<1>3. ASSUME NEW q \in Pods, NEW i \in Ids[q] PROVE pool'[i] # None <=> pod_to_worker'[q] = i
  BY <1>1, <1>2 DEF Tracked
<1>4. ASSUME NEW i \in Workers, pool'[i] # None PROVE \E q \in Pods : i \in Ids[q]
  BY Zenon, <1>4 DEF Local, Tracked
<1> QED BY Zenon, <1>1, <1>3, <1>4 DEF Tracked, Addressed

\* Before the first list nothing is claimed but that nothing is there.
LEMMA InitRInv == OneAddressEach /\ Init => RInv
<1> SUFFICES ASSUME OneAddressEach, Init PROVE RInv
  BY Zenon
<1>1. TInv
  BY Zenon, InitTInv
<1>2. Addressed
  BY DEF Addressed, At, Init
<1>3. Tracked
  BY Zenon, PodConfig DEF Tracked, Init, FleetInit
<1>4. Newest /\ Listing /\ Watching
  BY DEF Newest, Listing, Watching, Init
<1> QED BY Zenon, <1>1, <1>2, <1>3, <1>4 DEF RInv

\* A change of a Pod is the newest event about it, if a list is held.
LEMMA ChangeRInv ==
  ASSUME RInv, NEW p \in Pods, NEW s \in PodStates \cup {Gone}, At(p, s), Change(p, s)
  PROVE  RInv'
<1>0. TypeOK
  BY Zenon DEF RInv, TInv
<1>1. TInv'
  BY Zenon, ChangeTInv DEF RInv
<1>2. /\ pool' = pool /\ draining' = draining /\ refused' = refused
      /\ pod_to_worker' = pod_to_worker /\ list' = list /\ todo' = todo /\ phase' = phase
  BY Zenon DEF Change, fleetVars
<1>3. \A q \in Pods : pods'[q] = IF q = p THEN s ELSE pods[q]
  BY Zenon, <1>0 DEF Change, TypeOK
<1>4. Tracked'
  BY Zenon, <1>2 DEF RInv, Tracked
<1>5. CASE phase = "stale"
  <2>1. log' = log /\ log = <<>>
    BY Zenon, <1>5 DEF Change, RInv, Newest
  <2>2. Addressed'
    BY Zenon, <1>2, <1>3, <2>1 DEF RInv, Addressed
  <2> QED BY <1>1, <1>2, <1>4, <1>5, <2>1, <2>2 DEF RInv, Newest, Listing, Watching
<1>6. CASE phase # "stale"
  <2> DEFINE e == [pod |-> p, state |-> s]
  <2>1. log' = Append(log, e) /\ log \in Seq(PodEvents) /\ e \in PodEvents
    BY Zenon, <1>0, <1>6 DEF Change, TypeOK, PodEvents
  <2>2. e.pod = p /\ e.state = s
    BY Zenon
  <2> HIDE DEF e
  <2>3. /\ Len(log') = Len(log) + 1 /\ Len(log) \in Nat
        /\ log'[Len(log) + 1] = e
        /\ \A k \in 1..Len(log) : log'[k] = log[k]
    BY <2>1
  <2>4. \A k \in 1..Len(log) : log[k].pod \in Pods
    <3>1. \A k \in 1..Len(log) : log[k] \in PodEvents
      BY <2>1
    <3> QED BY Zenon, <3>1 DEF PodEvents
  <2>5. Addressed'
    <3>1. ASSUME NEW k \in 1..(Len(log) + 1) PROVE At(log'[k].pod, log'[k].state)
      <4>1. CASE k = Len(log) + 1
        BY Zenon, <2>2, <2>3, <4>1
      <4>2. CASE k \in 1..Len(log)
        BY Zenon, <2>3, <4>2 DEF RInv, Addressed
      <4> QED BY <2>3, <4>1, <4>2
    <3>2. \A q \in Pods : At(q, pods'[q]) /\ At(q, list'[q])
      BY Zenon, <1>2, <1>3 DEF RInv, Addressed
    <3> QED BY Zenon, <1>2, <2>3, <3>1, <3>2 DEF RInv, Addressed, At
  <2>6. Newest'
    <3>1. ASSUME NEW k \in 1..(Len(log) + 1),
                 \A j \in 1..(Len(log) + 1) : j > k => log'[j].pod # log'[k].pod
          PROVE  log'[k].state = pods'[log'[k].pod]
      <4>1. CASE k = Len(log) + 1
        BY Zenon, <1>3, <2>2, <2>3, <4>1
      <4>2. CASE k \in 1..Len(log)
        <5>1. log[k].pod # p
          BY <2>2, <2>3, <3>1, <4>2
        <5>2. \A j \in 1..Len(log) : j > k => log[j].pod # log[k].pod
          BY <2>3, <3>1, <4>2
        <5>3. log[k].state = pods[log[k].pod]
          BY Zenon, <4>2, <5>2 DEF RInv, Newest
        <5> QED BY Zenon, <1>3, <2>3, <2>4, <4>2, <5>1, <5>3
      <4> QED BY <2>3, <4>1, <4>2
    <3> QED BY Zenon, <1>2, <1>6, <2>3, <3>1 DEF Newest
  <2>7. \A q \in Pods : NoNews(q)' => q # p /\ NoNews(q)
    BY <2>2, <2>3 DEF NoNews
  <2>8. Listing'
    BY Zenon, <1>2, <1>3, <2>7 DEF RInv, Listing, Matches
  <2>9. Watching'
    BY Zenon, <1>2, <1>3, <2>7 DEF RInv, Watching, Matches
  <2> QED BY Zenon, <1>1, <1>4, <2>5, <2>6, <2>8, <2>9 DEF RInv
<1> QED BY Zenon, <1>5, <1>6

\* An item of the list is handled.
LEMMA ListedRInv ==
  ASSUME OneAddressEach, RInv, NEW p \in Pods, HandleListed(p)
  PROVE  RInv'
<1>0. TypeOK /\ TInv /\ Addressed /\ Tracked
  BY Zenon DEF RInv, TInv
<1>1. TInv'
  BY Zenon, <1>0, StepTInv DEF Next
<1>2. /\ list[p] \in PodStates \cup {Gone} /\ At(p, list[p]) /\ handle_pod(p, list[p])
      /\ phase = "listing" /\ todo' = todo \ {p}
      /\ pods' = pods /\ phase' = phase /\ log' = log /\ list' = list
  BY Zenon, <1>0 DEF HandleListed, TypeOK, Addressed
<1>3. /\ Local(p)
      /\ pod_to_worker'[p] \in Ids[p] \cup {None}
      /\ \A i \in Ids[p] : pool'[i] # None <=> pod_to_worker'[p] = i
      /\ Agrees(p, list[p], refused', pool', draining')
  BY Zenon, <1>0, <1>2, HandleRoutes
<1>4. Tracked' /\ \A q \in Pods : pod_to_worker'[q] \in Ids[q] \cup {None}
  BY Zenon, <1>0, <1>3, TableKeeps
<1>5. Addressed'
  BY Zenon, <1>0, <1>2, <1>4 DEF Addressed
<1>6. Newest'
  BY Zenon, <1>2 DEF RInv, Newest
<1>7. ASSUME NEW q \in Pods \ todo', list[q] # Gone
      PROVE  Agrees(q, list[q], refused', pool', draining')
  <2>1. CASE q = p
    BY Zenon, <1>3, <2>1
  <2>2. CASE q # p
    <3>1. Agrees(q, list[q], refused, pool, draining)
      BY Zenon, <1>2, <1>7, <2>2 DEF RInv, Listing, Matches
    <3> QED BY Zenon, <1>3, <2>2, <3>1, LocalKeeps
  <2> QED BY Zenon, <2>1, <2>2
<1>8. Listing'
  BY Zenon, <1>2, <1>7 DEF RInv, Listing, Matches, NoNews
<1>9. Watching'
  BY Zenon, <1>2 DEF Watching
<1> QED BY Zenon, <1>1, <1>4, <1>5, <1>6, <1>8, <1>9 DEF RInv

\* A Pod that is tracked and absent from the list is forgotten.
LEMMA AbsentRInv ==
  ASSUME OneAddressEach, RInv, NEW p \in Pods, reconcile_absent(p)
  PROVE  RInv'
<1>0. TypeOK /\ TInv /\ Addressed /\ Tracked /\ None \notin Workers
  BY Zenon, PodConfig DEF RInv, TInv
<1>1. TInv'
  BY Zenon, <1>0, StepTInv DEF Next
<1>2. /\ Forget(p) /\ list[p] = Gone
      /\ phase = "listing" /\ todo' = todo
      /\ pods' = pods /\ phase' = phase /\ log' = log /\ list' = list
  BY Zenon DEF reconcile_absent, Absent
<1>3. /\ Local(p) /\ pod_to_worker'[p] = None
      /\ \A i \in Ids[p] : pool'[i] = None /\ i # None
  BY Zenon, <1>0, <1>2, ForgetRoutes, PodConfig
<1>4. Tracked' /\ \A q \in Pods : pod_to_worker'[q] \in Ids[q] \cup {None}
  BY Zenon, <1>0, <1>3, TableKeeps
<1>5. Addressed'
  BY Zenon, <1>0, <1>2, <1>4 DEF Addressed
<1>6. Newest'
  BY Zenon, <1>2 DEF RInv, Newest
<1>7. ASSUME NEW q \in Pods \ todo', list[q] # Gone
      PROVE  Agrees(q, list[q], refused', pool', draining')
  <2>1. q # p
    BY Zenon, <1>2, <1>7
  <2>2. Agrees(q, list[q], refused, pool, draining)
    BY Zenon, <1>2, <1>7 DEF RInv, Listing, Matches
  <2> QED BY Zenon, <1>3, <2>1, <2>2, LocalKeeps
<1>8. Listing'
  BY Zenon, <1>2, <1>7 DEF RInv, Listing, Matches, NoNews
<1>9. Watching'
  BY Zenon, <1>2 DEF Watching
<1> QED BY Zenon, <1>1, <1>4, <1>5, <1>6, <1>8, <1>9 DEF RInv

\* An event is handled: the view agrees with it, and when it was the last one
\* about its Pod, with the Pod.
LEMMA EventRInv ==
  ASSUME OneAddressEach, RInv, dispatch_event
  PROVE  RInv'
<1> DEFINE p == log[1].pod
           s == log[1].state
<1>0. TypeOK /\ TInv /\ Addressed /\ Tracked
  BY Zenon DEF RInv, TInv
<1>1. TInv'
  BY Zenon, <1>0, StepTInv DEF Next
<1>2. /\ log[1] \in PodEvents
      /\ log' = Tail(log)
      /\ Len(log') = Len(log) - 1
      /\ \A k \in 1..Len(log') : log'[k] = log[k + 1]
      /\ Len(log) \in Nat \ {0}
      /\ handle_pod(p, s)
  BY Zenon, <1>0, LogTail DEF dispatch_event
<1>3. /\ phase = "watching" /\ phase' = phase
      /\ pods' = pods /\ list' = list /\ todo' = todo
  BY Zenon DEF dispatch_event
<1>4. p \in Pods /\ s \in PodStates \cup {Gone} /\ At(p, s)
  BY <1>0, <1>2 DEF PodEvents, Addressed
<1>5. /\ Local(p)
      /\ pod_to_worker'[p] \in Ids[p] \cup {None}
      /\ \A i \in Ids[p] : pool'[i] # None <=> pod_to_worker'[p] = i
      /\ Agrees(p, s, refused', pool', draining')
  BY Zenon, <1>0, <1>2, <1>4, HandleRoutes
<1>6. Tracked' /\ \A q \in Pods : pod_to_worker'[q] \in Ids[q] \cup {None}
  BY Zenon, <1>0, <1>4, <1>5, TableKeeps
<1>7. \A k \in 1..Len(log') : k + 1 \in 1..Len(log)
  BY <1>2
<1>8. Addressed'
  BY Zenon, <1>0, <1>2, <1>3, <1>6, <1>7 DEF Addressed
<1>9. Newest'
  <2>1. ASSUME NEW k \in 1..Len(log'), \A j \in 1..Len(log') : j > k => log'[j].pod # log'[k].pod
        PROVE  log'[k].state = pods[log'[k].pod]
    <3>1. ASSUME NEW j \in 1..Len(log), j > k + 1 PROVE log[j].pod # log[k + 1].pod
      <4>1. j - 1 \in 1..Len(log') /\ j - 1 > k /\ (j - 1) + 1 = j
        BY <1>2, <3>1
      <4> QED BY Zenon, <1>2, <2>1, <4>1
    <3>2. log[k + 1].state = pods[log[k + 1].pod]
      BY Zenon, <1>7, <3>1 DEF RInv, Newest
    <3> QED BY Zenon, <1>2, <3>2
  <2> QED BY Zenon, <1>3, <2>1 DEF Newest
<1>10. ASSUME NEW q \in Pods, \A k \in 1..Len(log') : log'[k].pod # q
       PROVE  Agrees(q, pods[q], refused', pool', draining')
  <2>1. ASSUME NEW j \in 1..Len(log), j > 1 PROVE log[j].pod # q
    <3>1. j - 1 \in 1..Len(log') /\ (j - 1) + 1 = j
      BY <1>2, <2>1
    <3> QED BY Zenon, <1>2, <1>10, <3>1
  <2>2. CASE q = p
    <3>1. 1 \in 1..Len(log) /\ \A j \in 1..Len(log) : j > 1 => log[j].pod # log[1].pod
      BY <1>2, <2>1, <2>2
    <3>2. s = pods[p]
      BY Zenon, <3>1 DEF RInv, Newest
    <3> QED BY Zenon, <1>5, <2>2, <3>2
  <2>3. CASE q # p
    <3>1. NoNews(q)
      BY <1>2, <2>1, <2>3 DEF NoNews
    <3>2. Agrees(q, pods[q], refused, pool, draining)
      BY Zenon, <1>3, <3>1 DEF RInv, Watching, Matches
    <3> QED BY Zenon, <1>4, <1>5, <2>3, <3>2, LocalKeeps
  <2> QED BY Zenon, <2>2, <2>3
<1>11. Watching'
  BY Zenon, <1>3, <1>10 DEF Watching, Matches, NoNews
<1>12. Listing'
  BY Zenon, <1>3 DEF Listing
<1> QED BY Zenon, <1>1, <1>6, <1>8, <1>9, <1>11, <1>12 DEF RInv

\* The list, the start of the watch and its expiry leave the view alone.
LEMMA PhaseRInv ==
  ASSUME OneAddressEach, RInv, List \/ Watch \/ Expired
  PROVE  RInv'
<1>0. TypeOK /\ TInv /\ Addressed /\ Tracked /\ None \notin Workers
  BY Zenon, PodConfig DEF RInv, TInv
<1>1. TInv'
  BY Zenon, <1>0, StepTInv DEF Next
<1>2. /\ pool' = pool /\ draining' = draining /\ refused' = refused
      /\ pod_to_worker' = pod_to_worker /\ pods' = pods
  BY Zenon DEF List, Watch, Expired, fleetVars
<1>3. Tracked'
  BY Zenon, <1>0, <1>2 DEF Tracked
<1>4. CASE List
  <2>1. phase = "stale" /\ phase' = "listing" /\ list' = pods /\ todo' = {q \in Pods : Exists(q)} /\ log' = log
    BY Zenon, <1>4 DEF List
  <2>2. Addressed'
    BY Zenon, <1>0, <1>2, <2>1 DEF Addressed
  <2>3. Newest' /\ Watching'
    BY Zenon, <1>2, <2>1 DEF RInv, Newest, Watching
  <2>4. Listing'
    BY Zenon, <1>2, <2>1 DEF Listing, Exists
  <2> QED BY Zenon, <1>1, <1>3, <2>2, <2>3, <2>4 DEF RInv
<1>5. CASE Watch
  <2>1. /\ phase = "listing" /\ phase' = "watching" /\ todo = {} /\ Absent = {} /\ log' = log
        /\ list' = [q \in Pods |-> Gone]
    BY Zenon, <1>5 DEF Watch
  <2>2. Addressed'
    BY Zenon, <1>0, <1>2, <2>1 DEF Addressed, At
  <2>3. Newest' /\ Listing'
    BY Zenon, <1>2, <2>1 DEF RInv, Newest, Listing
  <2>4. ASSUME NEW q \in Pods, NoNews(q) PROVE Agrees(q, pods[q], refused, pool, draining)
    <3>1. list[q] = pods[q]
      BY Zenon, <2>1, <2>4 DEF RInv, Listing
    <3>2. CASE list[q] # Gone
      BY Zenon, <2>1, <3>1, <3>2 DEF RInv, Listing, Matches
    <3>3. CASE list[q] = Gone
      <4>1. pod_to_worker[q] = None
        BY Zenon, <2>1, <3>3 DEF Absent
      <4>2. \A i \in Ids[q] : i # None
        BY Zenon, <1>0, PodConfig
      <4>3. \A i \in Ids[q] : pool[i] = None
        BY Zenon, <1>0, <4>1, <4>2 DEF Tracked
      <4>4. ~Routable(pods[q])
        BY Zenon, <3>1, <3>3 DEF Routable
      <4> QED BY Zenon, <4>3, <4>4, OutAgrees
    <3> QED BY Zenon, <3>2, <3>3
  <2>5. Watching'
    BY Zenon, <1>2, <2>1, <2>4 DEF Watching, Matches, NoNews
  <2> QED BY Zenon, <1>1, <1>3, <2>2, <2>3, <2>5 DEF RInv
<1>6. CASE Expired
  <2>1. phase' = "stale" /\ log' = <<>> /\ list' = list /\ todo' = todo
    BY Zenon, <1>6 DEF Expired
  <2>2. Addressed'
    BY <1>0, <1>2, <2>1 DEF Addressed
  <2>3. Newest' /\ Listing' /\ Watching'
    BY <2>1 DEF Newest, Listing, Watching
  <2> QED BY Zenon, <1>1, <1>3, <2>2, <2>3 DEF RInv
<1> QED BY Zenon, <1>4, <1>5, <1>6

\* Every action keeps the registry's bookkeeping true.
LEMMA StepRInv == OneAddressEach /\ RInv /\ [Next]_vars => RInv'
<1> SUFFICES ASSUME OneAddressEach, RInv, [Next]_vars PROVE RInv'
  BY Zenon
<1>0. TypeOK /\ Addressed
  BY Zenon DEF RInv, TInv
<1>1. ASSUME NEW p \in Pods, Exists(p)
      PROVE  pods[p] \in PodStates /\ pods[p].id \in Ids[p]
  BY Zenon, <1>0, <1>1 DEF Exists, TypeOK, Addressed, At
<1>2. ASSUME NEW p \in Pods, NEW i \in Ids[p], Create(p, i) PROVE RInv'
  <2> DEFINE s == [id |-> i, rec |-> None, running |-> TRUE, terminating |-> FALSE]
  <2>1. s \in PodStates /\ At(p, s)
    BY Zenon, PodConfig DEF PodStates, At
  <2>2. Change(p, s)
    BY Zenon, <1>2 DEF Create
  <2> HIDE DEF s
  <2> QED BY Zenon, <2>1, <2>2, ChangeRInv
<1>3. ASSUME NEW p \in Pods, NEW r \in Template[p], register(p, r) PROVE RInv'
  <2> DEFINE s == [id |-> pods[p].id, rec |-> r, running |-> TRUE, terminating |-> pods[p].terminating]
  <2>1. s \in PodStates /\ At(p, s)
    BY Zenon, <1>1, <1>3, PodConfig DEF PodStates, At, register
  <2>2. Change(p, s)
    BY Zenon, <1>3 DEF register
  <2> HIDE DEF s
  <2> QED BY Zenon, <2>1, <2>2, ChangeRInv
<1>4. ASSUME NEW p \in Pods, deregister(p) PROVE RInv'
  <2> DEFINE s == [id |-> pods[p].id, rec |-> None, running |-> pods[p].running,
                   terminating |-> pods[p].terminating]
  <2>1. s \in PodStates /\ At(p, s)
    BY Zenon, <1>1, <1>4 DEF PodStates, At, deregister
  <2>2. Change(p, s)
    BY Zenon, <1>4 DEF deregister
  <2> HIDE DEF s
  <2> QED BY Zenon, <2>1, <2>2, ChangeRInv
<1>5. ASSUME NEW p \in Pods, Condemn(p) PROVE RInv'
  <2> DEFINE s == [id |-> pods[p].id, rec |-> pods[p].rec, running |-> pods[p].running,
                   terminating |-> TRUE]
  <2>1. s \in PodStates /\ At(p, s)
    BY Zenon, <1>1, <1>5 DEF PodStates, At, Condemn
  <2>2. Change(p, s)
    BY Zenon, <1>5 DEF Condemn
  <2> HIDE DEF s
  <2> QED BY Zenon, <2>1, <2>2, ChangeRInv
<1>6. ASSUME NEW p \in Pods, Exit(p) PROVE RInv'
  <2> DEFINE s == [id |-> pods[p].id, rec |-> pods[p].rec, running |-> FALSE,
                   terminating |-> pods[p].terminating]
  <2>1. s \in PodStates /\ At(p, s)
    BY Zenon, <1>1, <1>6 DEF PodStates, At, Exit
  <2>2. Change(p, s)
    BY Zenon, <1>6 DEF Exit
  <2> HIDE DEF s
  <2> QED BY Zenon, <2>1, <2>2, ChangeRInv
<1>7. ASSUME NEW p \in Pods, Delete(p) PROVE RInv'
  BY Zenon, <1>7, ChangeRInv DEF Delete, At
<1>8. ASSUME NEW p \in Pods, HandleListed(p) PROVE RInv'
  BY Zenon, <1>8, ListedRInv
<1>9. ASSUME NEW p \in Pods, reconcile_absent(p) PROVE RInv'
  BY Zenon, <1>9, AbsentRInv
<1>10. CASE dispatch_event
  BY Zenon, <1>10, EventRInv
<1>11. CASE List \/ Watch \/ Expired
  BY Zenon, <1>11, PhaseRInv
<1>12. CASE UNCHANGED vars
  <2>1. TInv'
    BY Zenon, StepTInv DEF RInv
  <2>2. UNCHANGED <<pods, phase, log, list, todo, pod_to_worker, refused, pool, draining>>
    BY Zenon, <1>12 DEF vars
  <2>3. Addressed' /\ Tracked'
    BY Zenon, <2>2 DEF RInv, Addressed, Tracked
  <2>4. Newest'
    BY Zenon, <2>2 DEF RInv, Newest
  <2>5. /\ \A p \in Pods : NoNews(p)' <=> NoNews(p)
        /\ \A p \in Pods : Matches(p, list[p])' <=> Matches(p, list[p])
        /\ \A p \in Pods : Matches(p, pods[p])' <=> Matches(p, pods[p])
    BY Zenon, <2>2 DEF NoNews, Matches
  <2>6. Listing'
    BY Zenon, <2>2, <2>5 DEF RInv, Listing
  <2>7. Watching'
    BY Zenon, <2>2, <2>5 DEF RInv, Watching
  <2> QED BY Zenon, <2>1, <2>3, <2>4, <2>6, <2>7 DEF RInv
<1> QED BY Zenon, <1>2, <1>3, <1>4, <1>5, <1>6, <1>7, <1>8, <1>9, <1>10, <1>11, <1>12 DEF Next

\* When every Pod name has one address of its own, then after any history of
\* lists, events and lost watches a registry that has caught up routes to
\* exactly the candidate Pods by their current records, but for refused ones.
THEOREM RoutesAreCandidates ==
  ASSUME OneAddressEach
  PROVE  Spec => []RoutesToCandidates
<1>1. Init => RInv
  BY Zenon, InitRInv
<1>2. RInv /\ [Next]_vars => RInv'
  BY Zenon, StepRInv
<1>3. RInv => RoutesToCandidates
  <2> DEFINE routed(i) == pool[i] # None /\ i \notin draining
             here(i) == {p \in Pods : pods[p].id = i}
  <2> SUFFICES ASSUME RInv, CaughtUp, NEW i \in Workers \ crossed, here(i) \cap refused = {}
               PROVE  /\ routed(i) <=> \E p \in here(i) : Candidate(p)
                      /\ \A p \in here(i) : routed(i) => pool[i] = pods[p].rec
    BY Zenon DEF RoutesToCandidates
  <2>0. TypeOK /\ None \notin Workers
    BY Zenon, PodConfig DEF RInv, TInv
  <2>1. \A p \in Pods : Agrees(p, pods[p], refused, pool, draining)
    BY DEF RInv, Watching, Matches, CaughtUp, NoNews
  <2>2. \A p \in Pods : Candidate(p) <=> Routable(pods[p])
    BY Zenon DEF Candidate, Exists, Routable
  <2>3. \A p \in here(i) : p \in Pods \ refused /\ i \in Ids[p]
    <3> SUFFICES ASSUME NEW p \in here(i) PROVE p \in Pods \ refused /\ i \in Ids[p]
      BY Zenon
    <3>1. p \in Pods /\ pods[p].id = i /\ p \notin refused
      BY Zenon
    <3>2. pods[p] # Gone
      BY <2>0, <3>1 DEF Gone
    <3> QED BY Zenon, <3>1, <3>2 DEF RInv, Addressed, At
  <2>4. \A p \in here(i) : (routed(i) <=> Candidate(p)) /\ (routed(i) => pool[i] = pods[p].rec)
    BY Zenon, <2>1, <2>2, <2>3 DEF Agrees
  <2>5. ASSUME routed(i) PROVE \E p \in here(i) : Candidate(p)
    <3>1. PICK p \in Pods : i \in Ids[p]
      BY Zenon, <2>5 DEF RInv, Tracked
    <3>2. pods[p] # Gone
      BY Zenon, <2>1, <2>5, <3>1 DEF Agrees, Routable
    <3>3. pods[p].id = i
      <4>1. pods[p].id \in Ids[p]
        BY Zenon, <3>2 DEF RInv, Addressed, At
      <4>2. PICK a \in Workers : Ids[p] = {a}
        BY Zenon DEF OneAddressEach
      <4> QED BY Zenon, <3>1, <4>1, <4>2
    <3> QED BY Zenon, <2>4, <2>5, <3>3
  <2> QED BY Zenon, <2>4, <2>5
<1> QED BY <1>1, <1>2, <1>3, PTL DEF Spec
=============================================================================
