---------------------------- MODULE K8sDiscovery ----------------------------
(***************************************************************************)
(* The Kubernetes discovery backend: a worker publishes its record in an   *)
(* annotation of its own Pod (infera/common/registration_k8s.py); a server *)
(* lists the Pods, watches them from the list's resourceVersion, and lists *)
(* again when that version is stale (infera/common/discovery_k8s.py).  The *)
(* API server is external, modelled from how the two clients use it.       *)
(*                                                                         *)
(* A worker id is the address of its Pod: it is fixed for the life of the  *)
(* Pod, and Ids says which addresses a Pod of each name may be given.  A   *)
(* name given to a new Pod (LeaderWorkerSet) may get another address, and  *)
(* an address may come back under another name (hostNetwork).              *)
(***************************************************************************)
EXTENDS WorkerPool, Naturals, Sequences

CONSTANTS
    Pods,       \* Pod names
    Ids,        \* Ids[p]: the worker ids a Pod of name p can have
    Template,   \* Template[p]: the records its containers can publish
    MaxLog      \* bound: watch events the server has not read

ASSUME PodConfig ==
    /\ None \notin Workers
    /\ Ids \in [Pods -> SUBSET Workers]
    /\ Template \in [Pods -> SUBSET Records]
    /\ MaxLog \in Nat

VARIABLES
    pods,           \* the Pod objects of the API server
    phase,          \* of the registry's watch loop
    log,            \* changes since the list the server works from
    list,           \* the list being worked through, and the names left in it
    todo,
    pod_to_worker,
    refused,        \* history: Pods whose record was last refused
    crossed         \* history: addresses that changed Pods behind the table's back

vars == <<pods, phase, log, list, todo, pod_to_worker, refused, crossed,
          pool, draining, canary, kvSnapshots, subs, targets, contested>>

\* "stale": about to list; "listing"; "watching".
Phases == {"stale", "listing", "watching"}
PodStates == [id : Workers, rec : Records \cup {None}, running : BOOLEAN, terminating : BOOLEAN]
Gone == [id |-> None]

TypeOK ==
    /\ FleetTypeOK
    /\ pods \in [Pods -> PodStates \cup {Gone}]
    /\ phase \in Phases
    /\ log \in Seq([pod : Pods, state : PodStates \cup {Gone}])
    /\ list \in [Pods -> PodStates \cup {Gone}]
    /\ todo \in SUBSET Pods
    /\ pod_to_worker \in [Pods -> Workers \cup {None}]
    /\ refused \in SUBSET Pods
    /\ crossed \in SUBSET Workers

Init ==
    /\ FleetInit
    /\ pods = [p \in Pods |-> Gone]
    /\ phase = "stale"
    /\ log = <<>>
    /\ list = [p \in Pods |-> Gone]
    /\ todo = {}
    /\ pod_to_worker = [p \in Pods |-> None]
    /\ refused = {}
    /\ crossed = {}

-----------------------------------------------------------------------------
(* The Pods and the API server *)

Exists(p) == pods[p] # Gone

\* A Pod object changes; the change follows the list the server holds, if any.
Change(p, s) ==
    /\ Len(log) < MaxLog
    /\ pods' = [pods EXCEPT ![p] = s]
    /\ log' = IF phase = "stale" THEN log ELSE Append(log, [pod |-> p, state |-> s])
    /\ UNCHANGED <<phase, list, todo, pod_to_worker, refused, crossed, fleetVars>>

\* A Pod starts under an address no other Pod has.
Create(p, i) ==
    /\ ~Exists(p)
    /\ \A q \in Pods : pods[q].id # i
    /\ Change(p, [id |-> i, rec |-> None, running |-> TRUE, terminating |-> FALSE])

\* register(), and the refresh of heartbeat_loop(): a patch that changes
\* nothing is no event.  After a restart of the container the record differs.
register(p, r) ==
    /\ Exists(p)
    /\ pods[p].running
    /\ pods[p].rec # r
    /\ Change(p, [id |-> pods[p].id, rec |-> r,
                  running |-> TRUE, terminating |-> pods[p].terminating])

\* deregister() and clear_stale_registration(), when the patch succeeds.
deregister(p) ==
    /\ Exists(p)
    /\ pods[p].rec # None
    /\ Change(p, [id |-> pods[p].id, rec |-> None,
                  running |-> pods[p].running, terminating |-> pods[p].terminating])

\* deletionTimestamp is set; the containers run on until they have stopped.
Condemn(p) ==
    /\ Exists(p)
    /\ ~pods[p].terminating
    /\ Change(p, [id |-> pods[p].id, rec |-> pods[p].rec,
                  running |-> pods[p].running, terminating |-> TRUE])

\* The phase leaves Running.
Exit(p) ==
    /\ Exists(p)
    /\ pods[p].running
    /\ Change(p, [id |-> pods[p].id, rec |-> pods[p].rec,
                  running |-> FALSE, terminating |-> pods[p].terminating])

Delete(p) ==
    /\ Exists(p)
    /\ Change(p, Gone)

-----------------------------------------------------------------------------
(* The server: KubernetesRegistry *)

\* Drop the worker a Pod stands for.
Forget(p) ==
    /\ IF pod_to_worker[p] # None THEN remove(pod_to_worker[p]) ELSE UNCHANGED fleetVars
    /\ pod_to_worker' = [pod_to_worker EXCEPT ![p] = None]
    /\ refused' = refused \ {p}

\* _handle_pod: gone, deregistered or stopped; condemned; or a candidate.
handle_pod(p, s) ==
    IF s = Gone \/ s.rec = None \/ ~s.running
    THEN Forget(p)
    ELSE IF s.terminating
    THEN /\ IF pod_to_worker[p] # None
            THEN mark_draining(pod_to_worker[p])
            ELSE UNCHANGED fleetVars
         /\ UNCHANGED <<pod_to_worker, refused>>
    ELSE /\ upsert(s.id, s.rec)
         /\ pod_to_worker' = IF Accepts(s.rec) THEN [pod_to_worker EXCEPT ![p] = s.id]
                             ELSE pod_to_worker
         /\ refused' = IF Accepts(s.rec) THEN refused \ {p} ELSE refused \cup {p}

\* The table says p is at an address; the Pods say that p is at another one now,
\* or that the address is another Pod's.
Crosses(p) ==
    /\ pod_to_worker[p] # None
    /\ \/ Exists(p) /\ pods[p].id # pod_to_worker[p]
       \/ \E q \in Pods \ {p} : pods[q].id = pod_to_worker[p]

\* Mutant: only live Pods are worth a look.
ListLive ==
    /\ phase = "stale"
    /\ phase' = "listing"
    /\ list' = pods
    /\ todo' = {p \in Pods : Exists(p) /\ ~pods[p].terminating}
    /\ crossed' = crossed \cup {pod_to_worker[p] : p \in {q \in Pods : Crosses(q)}}
    /\ UNCHANGED <<pods, log, pod_to_worker, refused, fleetVars>>

\* _relist(): the answer to the list, with the version to watch from.
List ==
    /\ phase = "stale"
    /\ phase' = "listing"
    /\ list' = pods
    /\ todo' = {p \in Pods : Exists(p)}
    /\ crossed' = crossed \cup {pod_to_worker[p] : p \in {q \in Pods : Crosses(q)}}
    /\ UNCHANGED <<pods, log, pod_to_worker, refused, fleetVars>>

\* The loop over its items, in the API server's order.  _relist works through
\* it and through _reconcile_absent without suspending: no other step of the
\* server comes in between.
HandleListed(p) ==
    /\ phase = "listing"
    /\ p \in todo
    /\ todo' = todo \ {p}
    /\ handle_pod(p, list[p])
    /\ UNCHANGED <<pods, phase, log, list, crossed>>

\* Mutant: a list only ever adds.
AbsentNone == {}

Absent == {p \in Pods : list[p] = Gone /\ pod_to_worker[p] # None}

\* _reconcile_absent(): Pods that are tracked and not in the list.
reconcile_absent(p) ==
    /\ phase = "listing"
    /\ todo = {}
    /\ p \in Absent
    /\ Forget(p)
    /\ UNCHANGED <<pods, phase, log, list, todo, crossed>>

\* The watch starts where the list ended.
Watch ==
    /\ phase = "listing"
    /\ todo = {}
    /\ Absent = {}
    /\ phase' = "watching"
    /\ list' = [p \in Pods |-> Gone]
    /\ UNCHANGED <<pods, log, todo, pod_to_worker, refused, crossed, fleetVars>>

\* _dispatch_event(); a stream that ends is resumed from the last event.
dispatch_event ==
    /\ phase = "watching"
    /\ log # <<>>
    /\ handle_pod(Head(log).pod, Head(log).state)
    /\ log' = Tail(log)
    /\ UNCHANGED <<pods, phase, list, todo, crossed>>

\* An ERROR event, or the connection fails: the next iteration lists again.
Expired ==
    /\ phase = "watching"
    /\ phase' = "stale"
    /\ log' = <<>>
    /\ UNCHANGED <<pods, list, todo, pod_to_worker, refused, crossed, fleetVars>>

Next ==
    \/ \E p \in Pods : \E i \in Ids[p] : Create(p, i)
    \/ \E p \in Pods : \E r \in Template[p] : register(p, r)
    \/ \E p \in Pods : deregister(p)
    \/ \E p \in Pods : Condemn(p)
    \/ \E p \in Pods : Exit(p)
    \/ \E p \in Pods : Delete(p)
    \/ List
    \/ \E p \in Pods : HandleListed(p)
    \/ \E p \in Pods : reconcile_absent(p)
    \/ Watch
    \/ dispatch_event
    \/ Expired

Spec == Init /\ [][Next]_vars

\* The registry's loop keeps running; nothing is promised about the Pods.
FairSpec ==
    /\ Spec
    /\ WF_vars(List)
    /\ WF_vars(\E p \in Pods : HandleListed(p))
    /\ WF_vars(\E p \in Pods : reconcile_absent(p))
    /\ WF_vars(Watch)
    /\ WF_vars(dispatch_event)

-----------------------------------------------------------------------------
(* Properties. *)

Candidate(p) == Exists(p) /\ pods[p].rec # None /\ pods[p].running /\ ~pods[p].terminating

\* A watch that has caught up.
CaughtUp == phase = "watching" /\ log = <<>>

\* After any history of lists, events and lost watches, a registry that has
\* caught up routes to exactly the addresses of candidate Pods, by their
\* current record.  Two exceptions: a record it refused, and an address that
\* changed Pods (its Pod's name came back elsewhere, or it came back under
\* another name) without the registry seeing the first Pod go.
RoutesToCandidates ==
    CaughtUp =>
        \A i \in Workers \ crossed :
            LET routed == pool[i] # None /\ i \notin draining
                here == {p \in Pods : pods[p].id = i}
            IN  here \cap refused = {} =>
                    /\ routed <=> \E p \in here : Candidate(p)
                    /\ \A p \in here : routed => pool[i] = pods[p].rec

\* An address whose Pods are condemned or gone for good is no candidate for
\* good, although deletion events may be lost: the registry lists again.  An
\* address that changed Pods while it did not look may be left behind.
CondemnedLeaves ==
    \A i \in Workers :
        [](i \notin crossed) /\ <>[](\A p \in Pods : pods[p].id = i => pods[p].terminating)
        => <>[](i \in draining \/ pool[i] = None)
=============================================================================
