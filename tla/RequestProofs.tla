---------------------------- MODULE RequestProofs ----------------------------
(***************************************************************************)
(* Proofs about a request on its way from the router to a worker and back. *)
(* Migration, for every budget, every migration limit and every length of  *)
(* the generation: the client's stream goes on where it stopped.           *)
(* NatsRequest, for any number of requests: the drain of a worker is a     *)
(* planned handover and the backlog gauge counts what is worked on.        *)
(* MixedRouter: the load that the policy sees is the load there is, for    *)
(* any number of requests, workers, blocks, retries and migrations.  Users *)
(* of a block are counted by a cardinality, so most of the work is to show *)
(* how a step of one request moves it, by at most one.                     *)
(***************************************************************************)
EXTENDS Migration, NatsRequest, MixedRouter, FiniteSetTheorems, TLAPS

-----------------------------------------------------------------------------
(* MixedRouter. *)

\* What a request in state q is charged for, and how much.
Uses(q, w, b) ==
    \/ q.pc \in Live /\ q.worker = w /\ b \in q.blocks
    \/ q.pc = "resume" /\ q.next = w /\ b \in q.nextBlocks
Charge(q, w, b) == IF Uses(q, w, b) THEN 1 ELSE 0

\* A request that is charged names its workers, and a continuation has two.
Sound(q) ==
    /\ q \in RequestStates
    /\ q.pc \in Live => q.worker \in Workers
    /\ q.pc = "resume" => q.next \in Workers /\ q.next # q.worker

\* The accounting is inductive once what is charged is known to have a name.
IInv ==
    /\ TypeOK
    /\ \A r \in Requests : Sound(req[r])
    /\ LoadIsAccounted

-----------------------------------------------------------------------------
(* The policy's counters. *)

Tally(f) == f \in [Workers -> [Blocks -> Nat]]

\* on_request_started adds one to each block of its worker.
LEMMA StartedAdds ==
  ASSUME NEW f, Tally(f), NEW w \in Workers, NEW bs \in SUBSET Blocks
  PROVE  /\ Tally(on_request_started(f, w, bs))
         /\ \A v \in Workers, b \in Blocks :
               on_request_started(f, w, bs)[v][b] =
                 IF v = w /\ b \in bs THEN f[v][b] + 1 ELSE f[v][b]
  BY DEF Tally, on_request_started, Count

\* on_request_finished takes one away, and stops at zero.
LEMMA FinishedTakes ==
  ASSUME NEW f, Tally(f), NEW w \in Workers, NEW bs \in SUBSET Blocks
  PROVE  /\ Tally(on_request_finished(f, w, bs))
         /\ \A v \in Workers, b \in Blocks :
               on_request_finished(f, w, bs)[v][b] =
                 IF v = w /\ b \in bs /\ f[v][b] > 0 THEN f[v][b] - 1 ELSE f[v][b]
  BY DEF Tally, on_request_finished, Count

\* on_worker_removed clears a worker and no other.
LEMMA RemovedClears ==
  ASSUME NEW f, Tally(f), NEW w \in Workers
  PROVE  /\ Tally(on_worker_removed(f, w))
         /\ \A v \in Workers, b \in Blocks :
               on_worker_removed(f, w)[v][b] = IF v = w THEN 0 ELSE f[v][b]
  BY DEF Tally, on_worker_removed, NoRefs

-----------------------------------------------------------------------------
(* The requests. *)

\* A request that leaves is charged for nothing.
LEMMA IdleSound ==
  Sound(Idle) /\ \A w, b : ~Uses(Idle, w, b) /\ Charge(Idle, w, b) = 0
<1>1. Idle \in RequestStates /\ Idle.pc = "idle"
  BY RouterConfig DEF Idle, RequestStates, Live
<1> QED BY <1>1 DEF Sound, Uses, Charge, Live

\* What Goto makes of a request.
Moved(q, p) == [q EXCEPT !.pc = p]

\* A request that moves on keeps what it is charged for.
LEMMA GotoSound ==
  ASSUME NEW q, Sound(q), q.pc \in Live, NEW p \in {"choose", "peek", "unary", "stream"}
  PROVE  LET n == Moved(q, p)
         IN  Sound(n) /\ n.pc = p /\ n.worker = q.worker /\ n.blocks = q.blocks
<1> DEFINE n == Moved(q, p)
<1>1. p \in Live \cup {"idle", "choose"} /\ p # "resume"
  BY DEF Live
<1>2. n \in RequestStates
  BY Zenon, <1>1 DEF Sound, RequestStates, Moved
<1>3. n.pc = p /\ n.worker = q.worker /\ n.blocks = q.blocks
  BY Zenon DEF Sound, RequestStates, Moved
<1> QED BY Zenon, <1>1, <1>2, <1>3 DEF Sound

\* What attempt, resume_elsewhere and resumed make of a request.
Attempted(q, w, bs, p) ==
    [q EXCEPT !.tried = @ \cup {w}, !.worker = w, !.blocks = bs, !.pc = p]
Carried(q, w, bs) ==
    [q EXCEPT !.pc = "resume", !.left = @ - 1, !.next = w, !.nextBlocks = bs]
Resumed(q) ==
    [q EXCEPT !.pc = "stream", !.worker = q.next, !.blocks = q.nextBlocks,
              !.next = None, !.nextBlocks = {}]

\* _attempt charges one worker.
LEMMA AttemptSound ==
  ASSUME NEW q, Sound(q), NEW w \in Workers, NEW bs \in SUBSET Blocks,
         NEW p \in {"admit", "peek", "unary"}
  PROVE  LET n == Attempted(q, w, bs, p)
         IN  Sound(n) /\ n.pc = p /\ n.worker = w /\ n.blocks = bs
<1> DEFINE n == Attempted(q, w, bs, p)
<1>1. p \in Live \cup {"idle", "choose"} /\ p # "resume"
  BY DEF Live
<1>2. n \in RequestStates
  BY Zenon, <1>1 DEF Sound, RequestStates, Attempted
<1>3. n.pc = p /\ n.worker = w /\ n.blocks = bs
  BY Zenon DEF Sound, RequestStates, Attempted
<1> QED BY Zenon, <1>1, <1>2, <1>3 DEF Sound

\* _resume_elsewhere charges a second one.
LEMMA CarriedSound ==
  ASSUME NEW q, Sound(q), q.pc \in Live, q.left > 0,
         NEW w \in Workers, w # q.worker, NEW bs \in SUBSET Blocks
  PROVE  LET n == Carried(q, w, bs)
         IN  /\ Sound(n)
             /\ n.pc = "resume" /\ n.worker = q.worker /\ n.blocks = q.blocks
             /\ n.next = w /\ n.nextBlocks = bs
<1> DEFINE n == Carried(q, w, bs)
<1>1. q.left - 1 \in 0 .. MigrationLimit
  BY RouterConfig DEF Sound, RequestStates, Carried
<1>2. "resume" \in Live
  BY DEF Live
<1>3. n \in RequestStates
  BY Zenon, <1>1, <1>2 DEF Sound, RequestStates, Carried
<1>4. n.pc = "resume" /\ n.worker = q.worker /\ n.blocks = q.blocks
      /\ n.next = w /\ n.nextBlocks = bs
  BY Zenon DEF Sound, RequestStates, Carried
<1> QED BY Zenon, <1>3, <1>4 DEF Sound

\* The first frame of a continuation leaves it as the only one.
LEMMA ResumedSound ==
  ASSUME NEW q, Sound(q), q.pc = "resume"
  PROVE  LET n == Resumed(q)
         IN  Sound(n) /\ n.pc = "stream" /\ n.worker = q.next /\ n.blocks = q.nextBlocks
<1> DEFINE n == Resumed(q)
<1>1. "stream" \in Live /\ "stream" # "resume"
  BY DEF Live
<1>2. {} \in SUBSET Blocks /\ None \in Workers \cup {None} /\ q.next \in Workers
      /\ q.nextBlocks \in SUBSET Blocks
  BY DEF Sound, RequestStates, Resumed
<1>3. n \in RequestStates
  BY Zenon, <1>1, <1>2 DEF Sound, RequestStates, Resumed
<1>4. n.pc = "stream" /\ n.worker = q.next /\ n.blocks = q.nextBlocks
  BY Zenon DEF Sound, RequestStates, Resumed
<1> QED BY Zenon, <1>1, <1>2, <1>3, <1>4 DEF Sound

-----------------------------------------------------------------------------
(* The requests a worker is charged with. *)

\* A finite set but for one element is finite.
LEMMA RestIsFinite ==
  ASSUME NEW S, IsFiniteSet(S), NEW x
  PROVE  IsFiniteSet(S \ {x}) /\ Cardinality(S \ {x}) \in Nat
BY FS_RemoveElement, FS_CardinalityType

\* Whatever one request becomes, the others stay charged as they were.
LEMMA UsersBut ==
  ASSUME req \in [Requests -> RequestStates], NEW r \in Requests, NEW new, Become(r, new),
         NEW w \in Workers, NEW b \in Blocks
  PROVE  \E n \in Nat :
            /\ Cardinality(Users(w, b)) = n + Charge(req[r], w, b)
            /\ Cardinality(Users(w, b)') = n + Charge(new, w, b)
<1> DEFINE Others == Users(w, b) \ {r}
<1>1. \A x \in Requests : req'[x] = IF x = r THEN new ELSE req[x]
  BY DEF Become
<1>2. Users(w, b) = {x \in Requests : Uses(req[x], w, b)}
  BY Zenon DEF Users, Uses
<1>3. Users(w, b)' = {x \in Requests : Uses(req'[x], w, b)}
  BY Zenon DEF Users, Uses
<1>4. Others = Users(w, b)' \ {r}
  BY <1>1, <1>2, <1>3
<1>5. IsFiniteSet(Users(w, b)) /\ IsFiniteSet(Users(w, b)')
  BY <1>2, <1>3, FS_Subset, RouterConfig
<1>6. IsFiniteSet(Others) /\ Cardinality(Others) \in Nat
  BY Zenon, <1>5, RestIsFinite
<1>7. ASSUME NEW S, IsFiniteSet(S), S \ {r} = Others
      PROVE  Cardinality(S) = Cardinality(Others) + (IF r \in S THEN 1 ELSE 0)
  <2>1. CASE r \in S
    <3>1. S = Others \cup {r} /\ r \notin Others
      BY <1>7, <2>1
    <3> QED BY <2>1, <3>1, <1>6, FS_AddElement
  <2>2. CASE r \notin S
    <3>1. S = Others
      BY <1>7, <2>2
    <3> QED BY <2>2, <3>1, <1>6
  <2> QED BY <2>1, <2>2
<1>8. /\ r \in Users(w, b) <=> Uses(req[r], w, b)
      /\ r \in Users(w, b)' <=> Uses(new, w, b)
  BY <1>1, <1>2, <1>3
<1>9. /\ Cardinality(Users(w, b)) = Cardinality(Others) + Charge(req[r], w, b)
      /\ Cardinality(Users(w, b)') = Cardinality(Others) + Charge(new, w, b)
  BY Zenon, <1>4, <1>5, <1>7, <1>8 DEF Charge
<1> QED BY Zenon, <1>6, <1>9

\* What a step may do to one counter: nothing; a charge is taken; a charge is
\* released, if it was not cleared before; a charge is lost track of.
Shift(was, is, load, load2, lost, lost2) ==
    \/ is = was /\ load2 = load /\ lost2 = lost
    \/ was = 0 /\ is = 1 /\ load2 = load + 1 /\ lost2 = lost
    \/ was = 1 /\ is = 0 /\ load2 = (IF load > 0 THEN load - 1 ELSE load) /\ lost2 = lost
    \/ was = 1 /\ is = 0 /\ load2 = load /\ lost2 = lost + 1

Shifts(r, new) ==
    \A w \in Workers, b \in Blocks :
        Shift(Charge(req[r], w, b), Charge(new, w, b),
              refs[w][b], refs'[w][b], leaked[w][b], leaked'[w][b])

\* The shifts there are.
LEMMA ShiftKeeps == \A c, load, lost : Shift(c, c, load, load, lost, lost)
BY Zenon DEF Shift

LEMMA ShiftReleases ==
  \A load, lost : Shift(1, 0, load, IF load > 0 THEN load - 1 ELSE load, lost, lost)
BY Zenon DEF Shift

LEMMA ShiftLoses == \A load, lost : Shift(1, 0, load, load, lost, lost + 1)
BY Zenon DEF Shift

\* A step of one request that shifts each counter so keeps the account.
LEMMA ShiftBalances ==
  ASSUME IInv, NEW r \in Requests, NEW new, Sound(new), Become(r, new), UNCHANGED fleetVars,
         refs' \in [Workers -> [Blocks -> Nat]],
         leaked' \in [Workers -> [Blocks -> 0 .. MaxLeaks]],
         Shifts(r, new)
  PROVE  IInv'
<1>1. req' \in [Requests -> RequestStates] /\ \A x \in Requests : Sound(req'[x])
  BY Zenon DEF IInv, TypeOK, Become, Sound
<1>2. TypeOK'
  BY <1>1 DEF IInv, TypeOK, RefsTypeOK, fleetVars
<1>3. ASSUME NEW w \in Workers, NEW b \in Blocks
      PROVE  /\ refs'[w][b] <= Cardinality(Users(w, b)') + leaked'[w][b]
             /\ w \notin departed => refs'[w][b] = Cardinality(Users(w, b)') + leaked'[w][b]
  <2>1. PICK n \in Nat :
           /\ Cardinality(Users(w, b)) = n + Charge(req[r], w, b)
           /\ Cardinality(Users(w, b)') = n + Charge(new, w, b)
    BY Zenon, UsersBut DEF IInv, TypeOK
  <2>2. /\ refs[w][b] <= n + Charge(req[r], w, b) + leaked[w][b]
        /\ w \notin departed => refs[w][b] = n + Charge(req[r], w, b) + leaked[w][b]
    BY Zenon, <2>1 DEF IInv, LoadIsAccounted
  <2>3. /\ refs[w][b] \in Nat /\ leaked[w][b] \in Nat
        /\ refs'[w][b] \in Nat /\ leaked'[w][b] \in Nat
    BY RouterConfig DEF IInv, TypeOK, RefsTypeOK
  <2>4. Charge(req[r], w, b) \in {0, 1} /\ Charge(new, w, b) \in {0, 1}
    BY Zenon DEF Charge
  <2>5. Shift(Charge(req[r], w, b), Charge(new, w, b),
              refs[w][b], refs'[w][b], leaked[w][b], leaked'[w][b])
    BY Zenon DEF Shifts
  <2>6. /\ refs'[w][b] <= n + Charge(new, w, b) + leaked'[w][b]
        /\ w \notin departed => refs'[w][b] = n + Charge(new, w, b) + leaked'[w][b]
    <3> DEFINE u == Charge(req[r], w, b)
               v == Charge(new, w, b)
               f == refs[w][b]
               g == refs'[w][b]
               x == leaked[w][b]
               y == leaked'[w][b]
    <3>1. /\ u \in {0, 1} /\ v \in {0, 1} /\ f \in Nat /\ g \in Nat /\ x \in Nat /\ y \in Nat
          /\ f <= n + u + x /\ Shift(u, v, f, g, x, y)
      BY Zenon, <2>2, <2>3, <2>4, <2>5
    <3>2. w \notin departed => f = n + u + x
      BY Zenon, <2>2
    <3> HIDE DEF u, v, f, g, x, y
    <3>3. g <= n + v + y /\ (f = n + u + x => g = n + v + y)
      BY <3>1 DEF Shift
    <3> QED BY Zenon, <3>2, <3>3 DEF u, v, f, g, x, y
  <2> QED BY Zenon, <2>1, <2>6
<1>4. LoadIsAccounted'
  BY <1>3 DEF LoadIsAccounted, fleetVars
<1> QED BY <1>1, <1>2, <1>4 DEF IInv

-----------------------------------------------------------------------------

\* Nobody is charged before the first request.
LEMMA InitIInv == Init => IInv
<1> SUFFICES ASSUME Init PROVE IInv
  OBVIOUS
<1>1. \A r \in Requests : req[r] = Idle
  BY DEF Init
<1>2. Idle \in RequestStates
  BY IdleSound DEF Sound
<1>3. refs \in [Workers -> [Blocks -> Nat]] /\ leaked \in [Workers -> [Blocks -> 0 .. MaxLeaks]]
      /\ \A w \in Workers, b \in Blocks : refs[w][b] = 0 /\ leaked[w][b] = 0
  BY RouterConfig DEF Init, RefsInit, NoRefs
<1>4. TypeOK
  BY <1>2, <1>3, RouterConfig DEF Init, TypeOK, RefsTypeOK
<1>5. ASSUME NEW w \in Workers, NEW b \in Blocks
      PROVE  Users(w, b) = {}
  <2>1. Users(w, b) = {r \in Requests : Uses(req[r], w, b)}
    BY Zenon DEF Users, Uses
  <2> QED BY <1>1, <2>1, IdleSound
<1>6. \A w \in Workers, b \in Blocks : Cardinality(Users(w, b)) = 0
  BY Zenon, <1>5, FS_EmptySet
<1>7. LoadIsAccounted
  BY <1>3, <1>6 DEF LoadIsAccounted
<1> QED BY <1>1, <1>4, <1>7, IdleSound DEF IInv

\* A request between two workers is charged for nothing.
LEMMA NotLive ==
  ASSUME NEW q, q.pc \in {"idle", "choose"}
  PROVE  \A w, b : Charge(q, w, b) = 0
  BY DEF Charge, Uses, Live

\* A request at one worker is charged there only.
LEMMA AtOne ==
  ASSUME NEW q, q.pc \in Live, q.pc # "resume"
  PROVE  \A w, b : Charge(q, w, b) = IF q.worker = w /\ b \in q.blocks THEN 1 ELSE 0
  BY DEF Charge, Uses

\* A step that leaves the load alone moves no charge.
LEMMA QuietStep ==
  ASSUME IInv, NEW r \in Requests, NEW new, Sound(new), Become(r, new),
         UNCHANGED <<refs, fleetVars, leaked>>,
         \A w \in Workers, b \in Blocks : Charge(req[r], w, b) = Charge(new, w, b)
  PROVE  IInv'
  BY ShiftBalances DEF Shifts, Shift, IInv, TypeOK, RefsTypeOK

\* A step that releases the worker a request is at.
LEMMA FinishStep ==
  ASSUME IInv, NEW r \in Requests, NEW new, Sound(new), Become(r, new),
         req[r].pc \in Live, req[r].pc # "resume", Finish(r), UNCHANGED <<fleetVars, leaked>>,
         \A w \in Workers, b \in Blocks : Charge(new, w, b) = 0
  PROVE  IInv'
<1> DEFINE q == req[r]
<1>1. Sound(q) /\ Tally(refs) /\ leaked' \in [Workers -> [Blocks -> 0 .. MaxLeaks]]
  BY DEF IInv, TypeOK, RefsTypeOK, Tally
<1>2. q.worker \in Workers /\ q.blocks \in SUBSET Blocks
  BY <1>1 DEF Sound, RequestStates
<1>3. /\ Tally(refs')
      /\ \A w \in Workers, b \in Blocks :
            refs'[w][b] = IF w = q.worker /\ b \in q.blocks /\ refs[w][b] > 0
                          THEN refs[w][b] - 1 ELSE refs[w][b]
  BY <1>1, <1>2, FinishedTakes DEF Finish
<1>4. ASSUME NEW w \in Workers, NEW b \in Blocks
      PROVE  Shift(Charge(q, w, b), Charge(new, w, b),
                   refs[w][b], refs'[w][b], leaked[w][b], leaked'[w][b])
  <2>1. Charge(q, w, b) = IF q.worker = w /\ b \in q.blocks THEN 1 ELSE 0
    BY Zenon, AtOne
  <2>2. Charge(new, w, b) = 0 /\ leaked'[w][b] = leaked[w][b]
    OBVIOUS
  <2> HIDE DEF q
  <2> QED BY <2>1, <2>2, <1>3 DEF Shift
<1> QED BY Zenon, <1>1, <1>3, <1>4, ShiftBalances DEF Tally, Shifts

\* The policy's load and the lost charges are tallies.
LEMMA Tallied ==
  ASSUME IInv
  PROVE  /\ Tally(refs)
         /\ leaked \in [Workers -> [Blocks -> 0 .. MaxLeaks]] /\ Tally(leaked)
  BY RouterConfig DEF IInv, TypeOK, RefsTypeOK, Tally

\* Leak adds one, within the bound.
LEMMA LeakAdds ==
  ASSUME IInv, NEW w \in Workers, NEW bs \in SUBSET Blocks, Leak(w, bs)
  PROVE  /\ leaked' \in [Workers -> [Blocks -> 0 .. MaxLeaks]]
         /\ \A v \in Workers, b \in Blocks :
               leaked'[v][b] = IF v = w /\ b \in bs THEN leaked[v][b] + 1 ELSE leaked[v][b]
<1>1. Tally(leaked) /\ leaked \in [Workers -> [Blocks -> 0 .. MaxLeaks]]
  BY Tallied
<1>2. leaked' = on_request_started(leaked, w, bs) /\ \A b \in bs : leaked[w][b] < MaxLeaks
  BY DEF Leak
<1>3. /\ Tally(leaked')
      /\ \A v \in Workers, b \in Blocks :
            leaked'[v][b] = IF v = w /\ b \in bs THEN leaked[v][b] + 1 ELSE leaked[v][b]
  BY <1>1, <1>2, StartedAdds
<1>4. \A v \in Workers, b \in Blocks : leaked'[v][b] \in 0 .. MaxLeaks
  BY <1>1, <1>2, <1>3, RouterConfig
<1>5. leaked' \in [Workers -> [Blocks -> 0 .. MaxLeaks]]
  BY <1>3, <1>4 DEF Tally
<1> QED BY <1>3, <1>5

-----------------------------------------------------------------------------
(* One lemma per step. *)

\* _attempt charges the worker that was picked.
LEMMA AttemptInv ==
  ASSUME IInv, NEW r \in Requests, NEW w \in Workers, NEW bs \in SUBSET Blocks,
         attempt(r, w, bs)
  PROVE  IInv'
<1> DEFINE p == IF w \in nats THEN "admit" ELSE IF req[r].streaming THEN "peek" ELSE "unary"
           n == Attempted(req[r], w, bs, p)
<1>1. p \in {"admit", "peek", "unary"} /\ Sound(req[r])
  BY Zenon DEF IInv
<1>2. Become(r, n) /\ refs' = on_request_started(refs, w, bs) /\ UNCHANGED <<fleetVars, leaked>>
      /\ req[r].pc = "choose"
  BY Zenon DEF attempt, At, Attempted
<1> HIDE DEF p
<1>3. Sound(n) /\ n.pc = p /\ n.worker = w /\ n.blocks = bs
  BY <1>1, AttemptSound
<1>4. p \in Live /\ p # "resume"
  BY <1>1 DEF Live
<1> HIDE DEF n
<1>5. \A v, b : Charge(req[r], v, b) = 0
  BY <1>2, NotLive
<1>6. \A v, b : Charge(n, v, b) = IF w = v /\ b \in bs THEN 1 ELSE 0
  BY Zenon, <1>3, <1>4, AtOne
<1>7. /\ Tally(refs')
      /\ \A v \in Workers, b \in Blocks :
            refs'[v][b] = IF v = w /\ b \in bs THEN refs[v][b] + 1 ELSE refs[v][b]
  BY <1>2, Tallied, StartedAdds
<1>8. Shifts(r, n)
  <2>1. ASSUME NEW v \in Workers, NEW b \in Blocks
        PROVE  Shift(Charge(req[r], v, b), Charge(n, v, b),
                     refs[v][b], refs'[v][b], leaked[v][b], leaked'[v][b])
    <3>1. leaked'[v][b] = leaked[v][b]
      BY Zenon, <1>2
    <3> QED BY Zenon, <1>5, <1>6, <1>7, <3>1 DEF Shift
  <2> QED BY Zenon, <2>1 DEF Shifts
<1> QED BY Zenon, <1>2, <1>3, <1>7, <1>8, Tallied, ShiftBalances DEF Tally

\* _resume_elsewhere charges a second worker.
LEMMA CarryInv ==
  ASSUME IInv, NEW r \in Requests, NEW w \in Workers, NEW bs \in SUBSET Blocks,
         resume_elsewhere(r, w, bs)
  PROVE  IInv'
<1> DEFINE q == req[r]
           n == Carried(q, w, bs)
<1>1. /\ Become(r, n) /\ refs' = on_request_started(refs, w, bs)
      /\ UNCHANGED <<fleetVars, leaked>>
      /\ q.pc = "stream" /\ q.left > 0 /\ w # q.worker /\ Sound(q)
  BY Zenon DEF resume_elsewhere, At, IInv, Carried
<1>2. q.pc \in Live /\ q.pc # "resume" /\ "resume" \in Live
  BY <1>1 DEF Live
<1> HIDE DEF q
<1>3. /\ Sound(n)
      /\ n.pc = "resume" /\ n.worker = q.worker /\ n.blocks = q.blocks
      /\ n.next = w /\ n.nextBlocks = bs
  BY Zenon, <1>1, <1>2, CarriedSound
<1> HIDE DEF n
<1>4. \A v, b : Charge(q, v, b) = IF q.worker = v /\ b \in q.blocks THEN 1 ELSE 0
  BY Zenon, <1>2, AtOne
<1>5. \A v, b : Charge(n, v, b) = IF (q.worker = v /\ b \in q.blocks) \/ (w = v /\ b \in bs)
                                  THEN 1 ELSE 0
  BY Zenon, <1>2, <1>3 DEF Charge, Uses
<1>6. /\ Tally(refs')
      /\ \A v \in Workers, b \in Blocks :
            refs'[v][b] = IF v = w /\ b \in bs THEN refs[v][b] + 1 ELSE refs[v][b]
  BY <1>1, Tallied, StartedAdds
<1>7. Shifts(r, n)
  <2>1. ASSUME NEW v \in Workers, NEW b \in Blocks
        PROVE  Shift(Charge(q, v, b), Charge(n, v, b),
                     refs[v][b], refs'[v][b], leaked[v][b], leaked'[v][b])
    <3>1. leaked'[v][b] = leaked[v][b] /\ w # q.worker
      BY Zenon, <1>1
    <3> QED BY Zenon, <1>4, <1>5, <1>6, <3>1 DEF Shift
  <2> QED BY Zenon, <2>1 DEF Shifts, q
<1> QED BY Zenon, <1>1, <1>3, <1>6, <1>7, Tallied, ShiftBalances DEF Tally

\* dispatch, admission, first_data and GiveUp move no charge.
LEMMA QuietInv ==
  ASSUME IInv, NEW r \in Requests,
         \/ \E s \in BOOLEAN : dispatch(r, s)
         \/ GiveUp(r) \/ admission(r)
         \/ \E a \in Answers : first_data(r, a)
  PROVE  IInv'
<1> DEFINE q == req[r]
<1>1. Sound(q)
  BY Zenon DEF IInv
<1>2. ASSUME NEW s \in BOOLEAN, dispatch(r, s)
      PROVE  IInv'
  <2> DEFINE n == [Idle EXCEPT !.pc = "choose", !.streaming = s, !.left = MigrationLimit]
  <2>1. Become(r, n) /\ UNCHANGED <<refs, fleetVars, leaked>> /\ q.pc = "idle"
    BY Zenon, <1>2 DEF dispatch, At
  <2>2. /\ Idle \in RequestStates /\ MigrationLimit \in 0 .. MigrationLimit
        /\ "choose" \in Live \cup {"idle", "choose"}
    BY IdleSound, RouterConfig DEF Sound
  <2>3. n \in RequestStates
    BY Zenon, <2>2 DEF RequestStates
  <2>4. n.pc = "choose"
    BY Zenon, <2>2 DEF RequestStates
  <2>5. Sound(n)
    BY <2>3, <2>4 DEF Sound, Live
  <2> HIDE DEF n
  <2>6. \A w \in Workers, b \in Blocks : Charge(q, w, b) = Charge(n, w, b)
    BY <2>1, <2>4, NotLive
  <2> QED BY Zenon, <2>1, <2>5, <2>6, QuietStep
<1>3. CASE GiveUp(r)
  <2>1. Become(r, Idle) /\ UNCHANGED <<refs, fleetVars, leaked>> /\ q.pc = "choose"
    BY Zenon, <1>3 DEF GiveUp, Leave, At
  <2>2. \A w \in Workers, b \in Blocks : Charge(q, w, b) = Charge(Idle, w, b)
    BY <2>1, NotLive, IdleSound
  <2> QED BY Zenon, <2>1, <2>2, IdleSound, QuietStep
<1>4. ASSUME NEW p \in {"peek", "unary", "stream"}, q.pc \in {"admit", "peek"}, Goto(r, p),
             UNCHANGED <<refs, fleetVars, leaked>>
      PROVE  IInv'
  <2> DEFINE n == Moved(q, p)
  <2>1. q.pc \in Live /\ q.pc # "resume" /\ p \in Live /\ p # "resume"
    BY <1>4 DEF Live
  <2>2. p \in {"choose", "peek", "unary", "stream"}
    OBVIOUS
  <2>3. Sound(n) /\ n.pc = p /\ n.worker = q.worker /\ n.blocks = q.blocks
    BY <1>1, <2>1, <2>2, GotoSound
  <2>4. Become(r, n)
    BY Zenon, <1>4 DEF Goto, Moved
  <2> HIDE DEF n
  <2>5. \A w \in Workers, b \in Blocks : Charge(q, w, b) = Charge(n, w, b)
    <3>1. n.pc \in Live /\ n.pc # "resume"
      BY Zenon, <2>1, <2>3
    <3>2. \A w, b : Charge(q, w, b) = IF q.worker = w /\ b \in q.blocks THEN 1 ELSE 0
      BY Zenon, <2>1, AtOne
    <3>3. \A w, b : Charge(n, w, b) = IF n.worker = w /\ b \in n.blocks THEN 1 ELSE 0
      BY Zenon, <3>1, AtOne
    <3> QED BY Zenon, <2>3, <3>2, <3>3
  <2> QED BY Zenon, <1>4, <2>3, <2>4, <2>5, QuietStep
<1>5. CASE admission(r)
  BY <1>4, <1>5 DEF admission, At
<1>6. ASSUME NEW a \in Answers, first_data(r, a)
      PROVE  IInv'
  BY <1>4, <1>6 DEF first_data, At
<1> QED BY Zenon, <1>2, <1>3, <1>5, <1>6

\* A worker that refuses, answers or fails is released.
LEMMA FinishInv ==
  ASSUME IInv, NEW r \in Requests, UNCHANGED <<fleetVars, leaked>>,
         req[r].pc \in {"admit", "unary", "peek", "stream"}, Finish(r),
         Goto(r, "choose") \/ Leave(r)
  PROVE  IInv'
<1> DEFINE q == req[r]
           n == Moved(q, "choose")
<1>1. Sound(q)
  BY Zenon DEF IInv
<1>2. q.pc \in Live /\ q.pc # "resume"
  BY DEF Live
<1>3. CASE Goto(r, "choose")
  <2>1. Become(r, n)
    BY Zenon, <1>3 DEF Goto, Moved
  <2>2. Sound(n) /\ n.pc = "choose"
    BY Zenon, <1>1, <1>2, GotoSound
  <2> HIDE DEF n
  <2>3. \A w \in Workers, b \in Blocks : Charge(n, w, b) = 0
    BY <2>2, NotLive
  <2> QED BY Zenon, <1>2, <2>1, <2>2, <2>3, FinishStep
<1>4. CASE Leave(r)
  BY Zenon, <1>2, <1>4, IdleSound, FinishStep DEF Leave
<1> QED BY Zenon, <1>3, <1>4

\* A broker that refuses the publication of a stream: the charge is lost.
LEMMA LeakInv ==
  ASSUME IInv, NEW r \in Requests, req[r].pc \in {"admit", "peek"},
         Leak(req[r].worker, req[r].blocks), Leave(r), UNCHANGED <<refs, fleetVars>>
  PROVE  IInv'
<1> DEFINE q == req[r]
<1>1. Sound(q) /\ q.pc \in Live /\ q.pc # "resume"
  BY DEF IInv, Live
<1>2. q.worker \in Workers /\ q.blocks \in SUBSET Blocks
  BY <1>1 DEF Sound, RequestStates
<1>3. /\ leaked' \in [Workers -> [Blocks -> 0 .. MaxLeaks]]
      /\ \A v \in Workers, b \in Blocks :
            leaked'[v][b] = IF v = q.worker /\ b \in q.blocks THEN leaked[v][b] + 1
                            ELSE leaked[v][b]
  BY <1>2, LeakAdds
<1>4. \A v, b : Charge(q, v, b) = IF q.worker = v /\ b \in q.blocks THEN 1 ELSE 0
  BY Zenon, <1>1, AtOne
<1> HIDE DEF q
<1>5. Shifts(r, Idle)
  <2>1. ASSUME NEW v \in Workers, NEW b \in Blocks
        PROVE  Shift(Charge(q, v, b), Charge(Idle, v, b),
                     refs[v][b], refs'[v][b], leaked[v][b], leaked'[v][b])
    BY Zenon, <1>3, <1>4, IdleSound DEF Shift
  <2> QED BY Zenon, <2>1 DEF Shifts, q
<1> QED BY Zenon, <1>3, <1>5, Tallied, IdleSound, ShiftBalances DEF Tally, Leave

\* The first frame of a continuation: the worker that broke is released.
LEMMA ResumedInv ==
  ASSUME IInv, NEW r \in Requests, resumed(r)
  PROVE  IInv'
<1> DEFINE q == req[r]
           n == Resumed(q)
<1>1. /\ Sound(q) /\ q.pc = "resume" /\ Become(r, n) /\ Finish(r)
      /\ UNCHANGED <<fleetVars, leaked>>
  BY Zenon DEF IInv, resumed, At, Resumed
<1>2. Sound(n) /\ n.pc = "stream" /\ n.worker = q.next /\ n.blocks = q.nextBlocks
  BY <1>1, ResumedSound
<1>3. q.worker \in Workers /\ q.blocks \in SUBSET Blocks /\ q.next # q.worker
  BY <1>1 DEF Sound, RequestStates, Live
<1>4. /\ Tally(refs')
      /\ \A w \in Workers, b \in Blocks :
            refs'[w][b] = IF w = q.worker /\ b \in q.blocks /\ refs[w][b] > 0
                          THEN refs[w][b] - 1 ELSE refs[w][b]
  BY <1>1, <1>3, Tallied, FinishedTakes DEF Finish
<1>5. \A v, b : Charge(q, v, b) = IF (q.worker = v /\ b \in q.blocks)
                                     \/ (q.next = v /\ b \in q.nextBlocks)
                                  THEN 1 ELSE 0
  BY <1>1 DEF Charge, Uses, Live
<1>6. \A v, b : Charge(n, v, b) = IF q.next = v /\ b \in q.nextBlocks THEN 1 ELSE 0
  BY <1>2, AtOne DEF Live
<1> HIDE DEF q, n
<1>7. Shifts(r, n)
  <2>1. ASSUME NEW v \in Workers, NEW b \in Blocks
        PROVE  Shift(Charge(q, v, b), Charge(n, v, b),
                     refs[v][b], refs'[v][b], leaked[v][b], leaked'[v][b])
    <3>1. leaked'[v][b] = leaked[v][b]
      BY Zenon, <1>1
    <3>2. CASE v = q.worker /\ b \in q.blocks
      <4>1. Charge(q, v, b) = 1 /\ Charge(n, v, b) = 0
        BY Zenon, <1>3, <1>5, <1>6, <3>2
      <4>2. refs'[v][b] = IF refs[v][b] > 0 THEN refs[v][b] - 1 ELSE refs[v][b]
        BY Zenon, <1>4, <3>2
      <4> QED BY Zenon, <3>1, <4>1, <4>2, ShiftReleases
    <3>3. CASE ~(v = q.worker /\ b \in q.blocks)
      <4>1. Charge(q, v, b) = Charge(n, v, b)
        BY Zenon, <1>5, <1>6, <3>3
      <4>2. refs'[v][b] = refs[v][b]
        BY Zenon, <1>4, <3>3
      <4> QED BY Zenon, <3>1, <4>1, <4>2, ShiftKeeps
    <3> QED BY Zenon, <3>2, <3>3
  <2> QED BY Zenon, <2>1 DEF Shifts, q
<1> QED BY Zenon, <1>1, <1>2, <1>4, <1>7, Tallied, ShiftBalances DEF Tally

\* It does not come: both workers are released.
LEMMA FailedInv ==
  ASSUME IInv, NEW r \in Requests, resume_failed(r)
  PROVE  IInv'
<1> DEFINE q == req[r]
           f == on_request_finished(refs, q.next, q.nextBlocks)
<1>1. /\ Sound(q) /\ q.pc = "resume" /\ Become(r, Idle) /\ UNCHANGED <<fleetVars, leaked>>
      /\ refs' = on_request_finished(f, q.worker, q.blocks)
  BY Zenon DEF IInv, resume_failed, At, FinishBoth, Leave
<1>2. /\ q.worker \in Workers /\ q.blocks \in SUBSET Blocks
      /\ q.next \in Workers /\ q.nextBlocks \in SUBSET Blocks /\ q.next # q.worker
  BY <1>1 DEF Sound, RequestStates, Live
<1>3. /\ Tally(f)
      /\ \A w \in Workers, b \in Blocks :
            f[w][b] = IF w = q.next /\ b \in q.nextBlocks /\ refs[w][b] > 0
                      THEN refs[w][b] - 1 ELSE refs[w][b]
  BY <1>2, Tallied, FinishedTakes
<1> HIDE DEF f
<1>4. /\ Tally(refs')
      /\ \A w \in Workers, b \in Blocks :
            refs'[w][b] = IF w = q.worker /\ b \in q.blocks /\ f[w][b] > 0
                          THEN f[w][b] - 1 ELSE f[w][b]
  <2>1. Tally(f) /\ q.worker \in Workers /\ q.blocks \in SUBSET Blocks
    BY Zenon, <1>2, <1>3
  <2>2. refs' = on_request_finished(f, q.worker, q.blocks)
    BY Zenon, <1>1
  <2> HIDE DEF q
  <2> QED BY <2>1, <2>2, FinishedTakes
<1>5. \A v, b : Charge(q, v, b) = IF (q.worker = v /\ b \in q.blocks)
                                     \/ (q.next = v /\ b \in q.nextBlocks)
                                  THEN 1 ELSE 0
  BY <1>1 DEF Charge, Uses, Live
<1> HIDE DEF q
<1>6. Shifts(r, Idle)
  <2>1. ASSUME NEW v \in Workers, NEW b \in Blocks
        PROVE  Shift(Charge(q, v, b), Charge(Idle, v, b),
                     refs[v][b], refs'[v][b], leaked[v][b], leaked'[v][b])
    <3>1. leaked'[v][b] = leaked[v][b] /\ Charge(Idle, v, b) = 0
      BY Zenon, <1>1, IdleSound
    <3>2. CASE v = q.next /\ b \in q.nextBlocks
      <4>1. Charge(q, v, b) = 1
        BY Zenon, <1>5, <3>2
      <4>2. refs'[v][b] = f[v][b]
        BY Zenon, <1>2, <1>4, <3>2
      <4>3. f[v][b] = IF refs[v][b] > 0 THEN refs[v][b] - 1 ELSE refs[v][b]
        BY Zenon, <1>3, <3>2
      <4> QED BY Zenon, <3>1, <4>1, <4>2, <4>3, ShiftReleases
    <3>3. CASE ~(v = q.next /\ b \in q.nextBlocks)
      <4>1. f[v][b] = refs[v][b]
        BY Zenon, <1>3, <3>3
      <4>2. CASE v = q.worker /\ b \in q.blocks
        <5>1. Charge(q, v, b) = 1
          BY Zenon, <1>5, <4>2
        <5>2. refs'[v][b] = IF f[v][b] > 0 THEN f[v][b] - 1 ELSE f[v][b]
          BY Zenon, <1>4, <4>2
        <5> QED BY Zenon, <3>1, <4>1, <5>1, <5>2, ShiftReleases
      <4>3. CASE ~(v = q.worker /\ b \in q.blocks)
        <5>1. Charge(q, v, b) = 0
          BY Zenon, <1>5, <3>3, <4>3
        <5>2. refs'[v][b] = f[v][b]
          BY Zenon, <1>4, <4>3
        <5> QED BY Zenon, <3>1, <4>1, <5>1, <5>2, ShiftKeeps
      <4> QED BY Zenon, <4>2, <4>3
    <3> QED BY Zenon, <3>2, <3>3
  <2> QED BY Zenon, <2>1 DEF Shifts, q
<1> QED BY Zenon, <1>1, <1>4, <1>6, Tallied, IdleSound, ShiftBalances DEF Tally

\* The client leaves: the worker that broke is released, the other is lost.
LEMMA LeftInv ==
  ASSUME IInv, NEW r \in Requests, left_resuming(r)
  PROVE  IInv'
<1> DEFINE q == req[r]
<1>1. /\ Sound(q) /\ q.pc = "resume" /\ Become(r, Idle) /\ UNCHANGED fleetVars
      /\ Finish(r) /\ Leak(q.next, q.nextBlocks)
  BY Zenon DEF IInv, left_resuming, At, Leave
<1>2. /\ q.worker \in Workers /\ q.blocks \in SUBSET Blocks
      /\ q.next \in Workers /\ q.nextBlocks \in SUBSET Blocks /\ q.next # q.worker
  BY <1>1 DEF Sound, RequestStates, Live
<1>3. /\ Tally(refs')
      /\ \A w \in Workers, b \in Blocks :
            refs'[w][b] = IF w = q.worker /\ b \in q.blocks /\ refs[w][b] > 0
                          THEN refs[w][b] - 1 ELSE refs[w][b]
  BY <1>1, <1>2, Tallied, FinishedTakes DEF Finish
<1>4. /\ leaked' \in [Workers -> [Blocks -> 0 .. MaxLeaks]]
      /\ \A v \in Workers, b \in Blocks :
            leaked'[v][b] = IF v = q.next /\ b \in q.nextBlocks THEN leaked[v][b] + 1
                            ELSE leaked[v][b]
  BY <1>1, <1>2, LeakAdds
<1>5. \A v, b : Charge(q, v, b) = IF (q.worker = v /\ b \in q.blocks)
                                     \/ (q.next = v /\ b \in q.nextBlocks)
                                  THEN 1 ELSE 0
  BY <1>1 DEF Charge, Uses, Live
<1> HIDE DEF q
<1>6. Shifts(r, Idle)
  <2>1. ASSUME NEW v \in Workers, NEW b \in Blocks
        PROVE  Shift(Charge(q, v, b), Charge(Idle, v, b),
                     refs[v][b], refs'[v][b], leaked[v][b], leaked'[v][b])
    <3>1. Charge(Idle, v, b) = 0
      BY Zenon, IdleSound
    <3>2. CASE v = q.next /\ b \in q.nextBlocks
      <4>1. Charge(q, v, b) = 1
        BY Zenon, <1>5, <3>2
      <4>2. refs'[v][b] = refs[v][b] /\ leaked'[v][b] = leaked[v][b] + 1
        BY Zenon, <1>2, <1>3, <1>4, <3>2
      <4> QED BY Zenon, <3>1, <4>1, <4>2, ShiftLoses
    <3>3. CASE ~(v = q.next /\ b \in q.nextBlocks)
      <4>1. leaked'[v][b] = leaked[v][b]
        BY Zenon, <1>4, <3>3
      <4>2. CASE v = q.worker /\ b \in q.blocks
        <5>1. Charge(q, v, b) = 1
          BY Zenon, <1>5, <4>2
        <5>2. refs'[v][b] = IF refs[v][b] > 0 THEN refs[v][b] - 1 ELSE refs[v][b]
          BY Zenon, <1>3, <4>2
        <5> QED BY Zenon, <3>1, <4>1, <5>1, <5>2, ShiftReleases
      <4>3. CASE ~(v = q.worker /\ b \in q.blocks)
        <5>1. Charge(q, v, b) = 0
          BY Zenon, <1>5, <3>3, <4>3
        <5>2. refs'[v][b] = refs[v][b]
          BY Zenon, <1>3, <4>3
        <5> QED BY Zenon, <3>1, <4>1, <5>1, <5>2, ShiftKeeps
      <4> QED BY Zenon, <4>2, <4>3
    <3> QED BY Zenon, <3>2, <3>3
  <2> QED BY Zenon, <2>1 DEF Shifts, q
<1> QED BY Zenon, <1>1, <1>3, <1>4, <1>6, IdleSound, ShiftBalances DEF Tally

\* A worker that leaves takes its counters with it, and is remembered; one that
\* comes back starts from none.
LEMMA FleetInv ==
  ASSUME IInv, NEW w \in Workers, remove_worker(w) \/ add_worker(w)
  PROVE  IInv'
<1>1. req' = req /\ nats' = nats
  BY Zenon DEF remove_worker, add_worker
<1>2. \A v, b : Users(v, b)' = Users(v, b)
  BY Zenon, <1>1 DEF Users
<1>3. /\ fleet' \in SUBSET Workers /\ departed' \in SUBSET Workers
      /\ departed \subseteq departed'
  BY DEF IInv, TypeOK, remove_worker, add_worker
<1>4. \A v \in Workers, b \in Blocks : Cardinality(Users(v, b)) \in Nat
  BY FS_Subset, FS_CardinalityType, RouterConfig DEF Users
<1>5. CASE add_worker(w)
  <2>1. UNCHANGED <<refs, leaked, departed>>
    BY Zenon, <1>5 DEF add_worker
  <2>2. TypeOK'
    BY <1>1, <1>3, <2>1 DEF IInv, TypeOK, RefsTypeOK
  <2>3. LoadIsAccounted'
    BY Zenon, <1>2, <2>1 DEF IInv, LoadIsAccounted
  <2> QED BY Zenon, <1>1, <2>2, <2>3 DEF IInv
<1>6. CASE remove_worker(w)
  <2>1. /\ refs' = on_worker_removed(refs, w) /\ leaked' = on_worker_removed(leaked, w)
        /\ departed' = departed \cup {w}
    BY Zenon, <1>6 DEF remove_worker
  <2>2. /\ Tally(refs') /\ Tally(leaked')
        /\ \A v \in Workers, b \in Blocks :
              /\ refs'[v][b] = IF v = w THEN 0 ELSE refs[v][b]
              /\ leaked'[v][b] = IF v = w THEN 0 ELSE leaked[v][b]
    BY <2>1, Tallied, RemovedClears
  <2>3. leaked' \in [Workers -> [Blocks -> 0 .. MaxLeaks]]
    <3>1. \A v \in Workers, b \in Blocks : leaked'[v][b] \in 0 .. MaxLeaks
      BY <2>2, Tallied, RouterConfig
    <3> QED BY <2>2, <3>1 DEF Tally
  <2>4. TypeOK'
    BY <1>1, <1>3, <2>2, <2>3 DEF IInv, TypeOK, RefsTypeOK, Tally
  <2>5. ASSUME NEW v \in Workers, NEW b \in Blocks
        PROVE  /\ refs'[v][b] <= Cardinality(Users(v, b)') + leaked'[v][b]
               /\ v \notin departed' => refs'[v][b] = Cardinality(Users(v, b)') + leaked'[v][b]
    <3>1. CASE v = w
      <4>1. refs'[v][b] = 0 /\ leaked'[v][b] = 0 /\ v \in departed'
        BY <2>1, <2>2, <3>1
      <4>2. Cardinality(Users(v, b)') \in Nat
        BY Zenon, <1>2, <1>4
      <4> QED BY <4>1, <4>2
    <3>2. CASE v # w
      <4>1. refs'[v][b] = refs[v][b] /\ leaked'[v][b] = leaked[v][b]
        BY Zenon, <2>2, <3>2
      <4>2. v \notin departed' => v \notin departed
        BY Zenon, <1>3
      <4> QED BY Zenon, <1>2, <4>1, <4>2 DEF IInv, LoadIsAccounted
    <3> QED BY Zenon, <3>1, <3>2
  <2>6. LoadIsAccounted'
    BY Zenon, <2>5 DEF LoadIsAccounted
  <2> QED BY Zenon, <1>1, <2>4, <2>6 DEF IInv
<1> QED BY Zenon, <1>5, <1>6

\* Every step keeps the invariant.
LEMMA NextIInv == IInv /\ [Next]_vars => IInv'
<1> SUFFICES ASSUME IInv, [Next]_vars PROVE IInv'
  OBVIOUS
<1>1. ASSUME NEW r \in Requests, NEW s \in BOOLEAN, dispatch(r, s) PROVE IInv'
  BY Zenon, <1>1, QuietInv
<1>2. ASSUME NEW r \in Requests, Progress(r) PROVE IInv'
  <2>1. ASSUME NEW w \in Workers, NEW bs \in SUBSET Blocks, attempt(r, w, bs) PROVE IInv'
    BY Zenon, <2>1, AttemptInv
  <2>2. CASE GiveUp(r) \/ admission(r)
    BY Zenon, <2>2, QuietInv
  <2>3. CASE refuse(r)
    BY <2>3, FinishInv DEF refuse, At
  <2>4. ASSUME NEW a \in Answers, answer_unary(r, a) PROVE IInv'
    BY <2>4, FinishInv DEF answer_unary, At
  <2>5. ASSUME NEW a \in Answers, first_data(r, a) PROVE IInv'
    BY Zenon, <2>5, QuietInv
  <2>6. ASSUME NEW a \in Answers, first_error(r, a) PROVE IInv'
    BY <2>6, FinishInv DEF first_error, At
  <2> QED BY Zenon, <1>2, <2>1, <2>2, <2>3, <2>4, <2>5, <2>6 DEF Progress
<1>3. ASSUME NEW r \in Requests, broker_error(r) PROVE IInv'
  BY <1>3, FinishInv, LeakInv DEF broker_error, At
<1>9. ASSUME NEW r \in Requests, drop_unguarded(r) PROVE IInv'
  BY <1>9, FinishInv, LeakInv DEF drop_unguarded, At
<1>4. ASSUME NEW r \in Requests, end_stream(r) PROVE IInv'
  BY <1>4, FinishInv DEF end_stream, At
<1>5. ASSUME NEW r \in Requests, NEW w \in Workers, NEW bs \in SUBSET Blocks,
             resume_elsewhere(r, w, bs)
      PROVE  IInv'
  BY Zenon, <1>5, CarryInv
<1>6. ASSUME NEW r \in Requests, resumed(r) \/ resume_failed(r) \/ left_resuming(r) PROVE IInv'
  BY Zenon, <1>6, ResumedInv, FailedInv, LeftInv
<1>7. ASSUME NEW w \in Workers, remove_worker(w) \/ add_worker(w) PROVE IInv'
  BY Zenon, <1>7, FleetInv
<1>8. CASE UNCHANGED vars
  <2>1. \A w, b : Users(w, b)' = Users(w, b)
    BY Zenon, <1>8 DEF vars, Users
  <2>2. LoadIsAccounted'
    BY Zenon, <1>8, <2>1 DEF vars, LoadIsAccounted, IInv
  <2> QED BY <1>8, <2>2 DEF vars, IInv, TypeOK, RefsTypeOK
<1> QED BY Zenon, <1>1, <1>2, <1>3, <1>4, <1>5, <1>6, <1>7, <1>8, <1>9 DEF Next

\* Every dispatch, failover, refusal, migration, cancellation and departure of a
\* worker keeps the counters of on_request_started and on_request_finished at
\* the attempts in flight, plus what a broken-off stream and a client that leaves
\* outside the try blocks are known to leak.
THEOREM LoadAccounted == Spec => []LoadIsAccounted
<1>1. Spec => []IInv
  BY InitIInv, NextIInv, PTL DEF Spec
<1>2. IInv => LoadIsAccounted
  BY DEF IInv
<1> QED BY <1>1, <1>2, PTL

\* A request's retries and continuations stay within their limits, and a
\* counter never goes below zero (on_request_finished).
THEOREM TypeCorrect == Spec => []TypeOK
<1>1. Spec => []IInv
  BY InitIInv, NextIInv, PTL DEF Spec
<1>2. IInv => TypeOK
  BY DEF IInv
<1> QED BY <1>1, <1>2, PTL

-----------------------------------------------------------------------------
(* Migration. *)

\* A worker's record is put together from its fields.
LEMMA MakeWorker ==
  ASSUME NEW g \in Nat, NEW b \in Nat, NEW a \in BOOLEAN, NEW c \in BOOLEAN, NEW o \in BOOLEAN
  PROVE  [given |-> g, budget |-> b, asked |-> a, chat |-> c, over |-> o] \in Streaming
  BY Zenon DEF Streaming

\* The state the generation starts in is well typed.
LEMMA InitType == MigrationInit => MigrationTypeOK
<1>. SUFFICES ASSUME MigrationInit PROVE MigrationTypeOK
  OBVIOUS
<1>1. PICK asked \in BOOLEAN :
        cur = [given |-> 0, budget |-> Budget, asked |-> asked,
               chat |-> body.shape = "chat", over |-> FALSE]
  BY Zenon DEF MigrationInit
<1>2. cur \in Streaming
  BY Zenon, <1>1, MakeWorker, MigrationConfig
<1>3. body.several \in BOOLEAN
  BY DEF MigrationInit, Bodies
<1>4. <<>> \in Seq(Nat) /\ Migrations \in 0..Migrations
  BY MigrationConfig
<1>. QED
  BY <1>2, <1>3, <1>4, Zenon DEF MigrationInit, MigrationTypeOK

\* A sequence of tokens that may be added to.
LEMMA AddType ==
  ASSUME NEW s \in Seq(Nat), NEW token \in Nat, NEW wanted
  PROVE  Append(s, token) \in Seq(Nat) /\ Add(s, token, wanted) \in Seq(Nat)
  BY DEF Add

\* What observe() leaves is well typed.
LEMMA ObserveType ==
  ASSUME MigrationTypeOK, NEW kind \in Kinds, NEW token \in Nat,
         NEW i \in BOOLEAN, NEW p \in BOOLEAN, observe(kind, token, i, p)
  PROVE  /\ text' \in Seq(Nat) /\ ids' \in Seq(Nat)
         /\ prompt' \in BOOLEAN /\ covers' \in BOOLEAN /\ poisoned' \in BOOLEAN
<1>. kind \in {"text", "other", "quiet", "several", "garbage"}
  BY MigrationConfig
<1>1. CASE poisoned \/ kind \in {"several", "garbage"}
  BY Zenon, <1>1 DEF observe, Poison, MigrationTypeOK
<1>2. CASE ~poisoned /\ kind = "text"
  <2>1. record_text(token, i) /\ prompt' = (prompt \/ p)
    BY <1>2 DEF observe
  <2>. QED
    BY <2>1, AddType, Zenon DEF record_text, Poison, MigrationTypeOK
<1>3. CASE ~poisoned /\ kind = "other"
  <2>1. record_other(token, i) /\ prompt' = (prompt \/ p)
    BY <1>3 DEF observe
  <2>. QED
    BY <2>1, AddType, Zenon DEF record_other, Poison, MigrationTypeOK
<1>4. CASE ~poisoned /\ kind = "quiet"
  BY <1>4 DEF observe, MigrationTypeOK
<1>. QED
  BY <1>1, <1>2, <1>3, <1>4

\* A budget that was reduced is still a number of tokens.
LEMMA BudgetType == MigrationTypeOK => base_budget \in Nat
  BY MigrationConfig
  DEF MigrationTypeOK, base_budget, AtLeastOne, produced_tokens, has_exact_output

\* Every line, break and continuation leaves the variables well typed.
LEMMA NextType == MigrationTypeOK /\ [MigrationNext]_migrationVars => MigrationTypeOK'
<1>. SUFFICES ASSUME MigrationTypeOK, [MigrationNext]_migrationVars PROVE MigrationTypeOK'
  OBVIOUS
<1>1. ASSUME NEW kind \in Kinds, NEW i \in BOOLEAN, NEW p \in BOOLEAN, chunk(kind, i, p)
      PROVE  MigrationTypeOK'
  <2>1. cur.given + 1 \in Nat /\ observe(kind, cur.given + 1, i, p)
    BY <1>1 DEF chunk, MigrationTypeOK, Streaming
  <2>2. /\ text' \in Seq(Nat) /\ ids' \in Seq(Nat)
        /\ prompt' \in BOOLEAN /\ covers' \in BOOLEAN /\ poisoned' \in BOOLEAN
    BY <2>1, ObserveType
  <2>3. cur' \in Streaming
    <3>1. cur.given + 1 \in Nat /\ (cur.budget > 0 => cur.budget - 1 \in Nat)
      BY DEF MigrationTypeOK, Streaming
    <3>2. cur.asked \in BOOLEAN /\ cur.chat \in BOOLEAN /\ cur \in Streaming
      BY DEF MigrationTypeOK, Streaming
    <3>. QED
      BY Zenon, <1>1, <3>1, <3>2, MakeWorker DEF chunk
  <2>4. seen' \in Seq(Nat)
    <3>1. seen' = seen \/ seen' = Append(seen, cur.given + 1)
      BY <1>1, Zenon DEF chunk
    <3>. QED
      BY Zenon, <2>1, <3>1, AddType DEF MigrationTypeOK
  <2>. QED
    BY <1>1, <2>2, <2>3, <2>4 DEF chunk, MigrationTypeOK
<1>2. CASE sentinel
  <2>1. cur' \in Streaming
    BY Zenon, <1>2 DEF sentinel, MigrationTypeOK, Streaming
  <2>. QED
    BY <1>2, <2>1 DEF sentinel, MigrationTypeOK, stateVars
<1>3. CASE finish
  BY <1>3 DEF finish, MigrationTypeOK, stateVars, Ends
<1>4. CASE end_visibly
  BY <1>4 DEF end_visibly, MigrationTypeOK, stateVars, Ends
<1>5. CASE exact_continuation
  <2>1. cur' \in Streaming
    <3>1. Len(ids) \in Nat /\ base_budget \in Nat
      BY BudgetType DEF MigrationTypeOK
    <3>. QED
      BY <1>5, <3>1, MakeWorker, Zenon DEF exact_continuation
  <2>2. left' \in 0..Migrations
    BY <1>5, MigrationConfig DEF exact_continuation, can_migrate, MigrationTypeOK
  <2>. QED
    BY <1>5, <2>1, <2>2 DEF exact_continuation, MigrationTypeOK, stateVars
<1>6. CASE text_continuation
  <2>1. cur' \in Streaming
    <3>1. Len(text) \in Nat /\ base_budget \in Nat /\ cur \in Streaming
      BY BudgetType DEF MigrationTypeOK
    <3>. QED
      BY <1>6, <3>1, MakeWorker, Zenon DEF text_continuation
  <2>2. left' \in 0..Migrations
    BY <1>6, MigrationConfig DEF text_continuation, can_migrate, MigrationTypeOK
  <2>. QED
    BY <1>6, <2>1, <2>2 DEF text_continuation, MigrationTypeOK, stateVars, Ends
<1>7. CASE UNCHANGED migrationVars
  BY <1>7 DEF migrationVars, MigrationTypeOK
<1>. QED
  BY <1>1, <1>2, <1>3, <1>4, <1>5, <1>6, <1>7 DEF MigrationNext

\* Every variable keeps its type.
THEOREM MigrationTypeCorrect == MigrationSpec => []MigrationTypeOK
  BY InitType, NextType, PTL DEF MigrationSpec

-----------------------------------------------------------------------------

\* One step keeps the ids a record of everything the client has read.
LEMMA NextIdsCover == MigrationTypeOK /\ IdsCoverRead /\ [MigrationNext]_migrationVars => IdsCoverRead'
<1>. SUFFICES ASSUME MigrationTypeOK, IdsCoverRead, [MigrationNext]_migrationVars PROVE IdsCoverRead'
  OBVIOUS
<1>1. ASSUME NEW kind \in Kinds, NEW i \in BOOLEAN, NEW p \in BOOLEAN, chunk(kind, i, p)
      PROVE  IdsCoverRead'
  <2>. SUFFICES ASSUME ~poisoned', covers' PROVE ids' = seen'
    BY DEF IdsCoverRead
  <2>. DEFINE token == cur.given + 1
  <2>1. observe(kind, token, i, p)
    BY <1>1 DEF chunk
  <2>2. ~poisoned /\ kind \in {"text", "other", "quiet"}
    BY Zenon, <2>1, MigrationConfig DEF observe, Poison
  <2>3. CASE kind = "text"
    <3>1. record_text(token, i)
      BY <2>1, <2>2, <2>3 DEF observe
    <3>2. i /\ covers /\ ids' = Append(ids, token)
      BY Zenon, <3>1 DEF record_text, Poison, Add, MigrationTypeOK
    <3>3. seen' = Append(seen, token)
      BY <1>1, <2>3 DEF chunk
    <3>. QED
      BY <2>2, <3>2, <3>3 DEF IdsCoverRead
  <2>4. CASE kind = "other"
    <3>1. record_other(token, i)
      BY <2>1, <2>2, <2>4 DEF observe
    <3>2. i /\ covers /\ ids' = Append(ids, token)
      BY <3>1 DEF record_other, Poison, Add, MigrationTypeOK
    <3>3. seen' = Append(seen, token)
      BY <1>1, <2>4 DEF chunk
    <3>. QED
      BY <2>2, <3>2, <3>3 DEF IdsCoverRead
  <2>5. CASE kind = "quiet"
    <3>1. ids' = ids /\ covers' = covers
      BY Zenon, <2>1, <2>2, <2>5 DEF observe
    <3>2. seen' = seen
      BY <1>1, <2>5 DEF chunk
    <3>. QED
      BY <2>2, <3>1, <3>2 DEF IdsCoverRead
  <2>. QED
    BY <2>2, <2>3, <2>4, <2>5
<1>2. CASE sentinel \/ finish \/ end_visibly \/ exact_continuation \/ text_continuation
  BY Zenon, <1>2 DEF sentinel, finish, end_visibly, exact_continuation, text_continuation,
              stateVars, IdsCoverRead
<1>3. CASE UNCHANGED migrationVars
  BY <1>3 DEF migrationVars, IdsCoverRead
<1>. QED
  BY <1>1, <1>2, <1>3 DEF MigrationNext

\* Whatever the engines send and however often the generation moves, ids that
\* are still relied on are those of everything the client has read: an exact
\* continuation leaves nothing out.
THEOREM ExactIsWhole == MigrationSpec => []IdsCoverRead
<1>1. MigrationInit => IdsCoverRead
  BY DEF MigrationInit, IdsCoverRead
<1>. QED
  BY <1>1, InitType, NextType, NextIdsCover, PTL DEF MigrationSpec
-----------------------------------------------------------------------------
(* Engines that send plain text. *)

\* What keeps the stream whole: the worker goes on from everything the client
\* has read, and as long as the generation can be carried, its text is all of
\* it too.
Whole ==
    /\ cur.given = Len(seen)
    /\ ~poisoned => text = seen

\* A continuation is given all of the output, and charged for all of it.
LEMMA CarriedWhole ==
  ASSUME MigrationTypeOK, IdsCoverRead, Whole, can_migrate
  PROVE  /\ text = seen
         /\ is_exact => ids = seen
         /\ produced_tokens = Len(seen)
  BY DEF IdsCoverRead, Whole, can_migrate, is_exact, has_exact_output, produced_tokens

\* One step of plain text engines keeps it so.
LEMMA NextWhole ==
  ASSUME "other" \notin Kinds, MigrationTypeOK, IdsCoverRead, Whole, [MigrationNext]_migrationVars
  PROVE  Whole'
<1>1. ASSUME NEW kind \in Kinds, NEW i \in BOOLEAN, NEW p \in BOOLEAN, chunk(kind, i, p)
      PROVE  Whole'
  <2>. DEFINE token == cur.given + 1
  <2>1. observe(kind, token, i, p)
    BY <1>1 DEF chunk
  <2>2. kind \in {"text", "quiet", "several", "garbage"}
    BY MigrationConfig
  <2>3. cur'.given = Len(seen')
    <3>1. CASE kind = "quiet"
      <4>1. seen' = seen /\ cur' = cur
        BY <1>1, <3>1, Zenon DEF chunk
      <4>. QED
        BY <4>1 DEF Whole
    <3>2. CASE kind # "quiet"
      <4>1. /\ seen' = Append(seen, token)
            /\ cur' = [given |-> token, budget |-> cur.budget - 1,
                       asked |-> cur.asked, chat |-> cur.chat, over |-> FALSE]
        BY <1>1, <3>2, Zenon DEF chunk
      <4>2. cur'.given = token
        BY <4>1
      <4>3. Len(Append(seen, token)) = Len(seen) + 1
        BY DEF MigrationTypeOK
      <4>. QED
        BY <4>1, <4>2, <4>3 DEF Whole
    <3>. QED
      BY <3>1, <3>2
  <2>4. ASSUME ~poisoned' PROVE text' = seen'
    <3>1. ~poisoned /\ kind \in {"text", "quiet"}
      BY <2>1, <2>2, <2>4 DEF observe, Poison
    <3>2. CASE kind = "text"
      <4>1. record_text(token, i)
        BY <2>1, <3>1, <3>2 DEF observe
      <4>2. text' = Append(text, token)
        BY <2>4, <4>1, Zenon DEF record_text, Poison
      <4>3. seen' = Append(seen, token)
        BY <1>1, <3>2 DEF chunk
      <4>. QED
        BY <3>1, <4>2, <4>3 DEF Whole
    <3>3. CASE kind = "quiet"
      <4>1. text' = text
        BY <2>1, <3>1, <3>3, Zenon DEF observe
      <4>2. seen' = seen
        BY <1>1, <3>3 DEF chunk
      <4>. QED
        BY <3>1, <4>1, <4>2 DEF Whole
    <3>. QED
      BY <3>1, <3>2, <3>3
  <2>. QED
    BY <2>3, <2>4 DEF Whole
<1>2. CASE sentinel
  <2>1. cur'.given = cur.given
    BY <1>2 DEF sentinel, MigrationTypeOK, Streaming
  <2>. QED
    BY <1>2, <2>1 DEF sentinel, stateVars, Whole
<1>3. CASE finish \/ end_visibly
  BY <1>3 DEF finish, end_visibly, stateVars, Whole
<1>4. CASE exact_continuation
  <2>1. cur'.given = Len(ids) /\ ids = seen
    BY <1>4, CarriedWhole DEF exact_continuation
  <2>. QED
    BY <1>4, <2>1 DEF exact_continuation, stateVars, Whole
<1>5. CASE text_continuation
  <2>1. cur' = cur \/ (cur'.given = Len(text) /\ text = seen)
    BY <1>5, CarriedWhole DEF text_continuation
  <2>. QED
    BY <1>5, <2>1 DEF text_continuation, stateVars, Whole
<1>6. CASE UNCHANGED migrationVars
  BY <1>6 DEF migrationVars, Whole
<1>. QED
  BY <1>1, <1>2, <1>3, <1>4, <1>5, <1>6 DEF MigrationNext

\* Nothing has been produced, so nothing is missing.
LEMMA InitWhole == MigrationInit => Whole /\ IdsCoverRead
<1>. SUFFICES ASSUME MigrationInit PROVE Whole /\ IdsCoverRead
  OBVIOUS
<1>1. cur.given = 0 /\ Len(seen) = 0
  BY DEF MigrationInit
<1>. QED
  BY <1>1 DEF MigrationInit, Whole, IdsCoverRead

\* One step keeps the tokens still allowed within the budget.
LEMMA NextBudget ==
  ASSUME MigrationTypeOK, IdsCoverRead, Whole, BudgetKept, [MigrationNext]_migrationVars
  PROVE  BudgetKept'
<1>. /\ Len(seen) \in Nat /\ cur.budget \in Nat /\ left \in Nat
     /\ left <= Migrations /\ Budget \in Nat \ {0} /\ Migrations \in Nat
  BY MigrationConfig DEF MigrationTypeOK, Streaming
<1>1. ASSUME NEW kind \in Kinds, NEW i \in BOOLEAN, NEW p \in BOOLEAN, chunk(kind, i, p)
      PROVE  BudgetKept'
  <2>1. CASE kind = "quiet"
    <3>1. seen' = seen /\ cur' = cur /\ left' = left
      BY <1>1, <2>1, Zenon DEF chunk
    <3>. QED
      BY <3>1 DEF BudgetKept
  <2>2. CASE kind # "quiet"
    <3>1. /\ seen' = Append(seen, cur.given + 1)
          /\ cur.budget > 0
          /\ cur' = [given |-> cur.given + 1, budget |-> cur.budget - 1,
                     asked |-> cur.asked, chat |-> cur.chat, over |-> FALSE]
          /\ left' = left
      BY <1>1, <2>2, Zenon DEF chunk
    <3>2. cur'.budget = cur.budget - 1 /\ Len(seen') = Len(seen) + 1
      BY <3>1 DEF MigrationTypeOK, Streaming
    <3>. QED
      BY <3>1, <3>2 DEF BudgetKept
  <2>. QED
    BY <2>1, <2>2
<1>2. CASE sentinel
  <2>1. cur'.budget = cur.budget
    BY <1>2 DEF sentinel, MigrationTypeOK, Streaming
  <2>. QED
    BY <1>2, <2>1 DEF sentinel, BudgetKept
<1>3. CASE finish \/ end_visibly
  BY <1>3 DEF finish, end_visibly, BudgetKept
<1>4. CASE exact_continuation \/ text_continuation
  <2>1. can_migrate /\ seen' = seen /\ left' = left - 1
    BY <1>4 DEF exact_continuation, text_continuation
  <2>2. left > 0 /\ produced_tokens = Len(seen)
    BY <2>1, CarriedWhole DEF can_migrate
  <2>3. cur'.budget = cur.budget \/ cur'.budget = base_budget
    <3>1. CASE exact_continuation
      BY <3>1 DEF exact_continuation
    <3>2. CASE text_continuation
      BY <3>2 DEF text_continuation
    <3>. QED
      BY <1>4, <3>1, <3>2
  <2>4. base_budget + Len(seen) <= Budget \/ base_budget = 1
    BY <2>2 DEF base_budget, AtLeastOne
  <2>5. base_budget \in Nat
    BY BudgetType
  <2>. QED
    BY <2>1, <2>2, <2>3, <2>4, <2>5 DEF BudgetKept
<1>5. CASE UNCHANGED migrationVars
  BY <1>5 DEF migrationVars, BudgetKept
<1>. QED
  BY <1>1, <1>2, <1>3, <1>4, <1>5 DEF MigrationNext

\* However often a generation of plain text moves, its workers produce at most
\* max_tokens and one more for each move.
THEOREM BudgetAddsUp ==
  ASSUME "other" \notin Kinds
  PROVE  MigrationSpec => []BudgetKept
<1>1. MigrationInit => BudgetKept
  BY MigrationConfig DEF MigrationInit, BudgetKept
<1>. QED
  BY <1>1, InitType, InitWhole, NextType, NextIdsCover, NextWhole, NextBudget, PTL
     DEF MigrationSpec

\* The sentinel was read from the worker that is streaming.
SentinelIsLast == closed <=> cur.over

\* A stream that does not break after its sentinel ends with it.
LEMMA NextSentinel ==
  ASSUME LateBreaks = FALSE, MigrationTypeOK, SentinelIsLast, [MigrationNext]_migrationVars
  PROVE  SentinelIsLast'
<1>1. ASSUME NEW kind \in Kinds, NEW i \in BOOLEAN, NEW p \in BOOLEAN, chunk(kind, i, p)
      PROVE  SentinelIsLast'
  <2>1. ~cur.over /\ closed' = closed
    BY <1>1 DEF chunk
  <2>2. cur' = cur \/ cur'.over = FALSE
    BY <1>1 DEF chunk
  <2>. QED
    BY <2>1, <2>2 DEF SentinelIsLast
<1>2. CASE sentinel
  <2>1. closed' = TRUE /\ cur'.over = TRUE
    BY <1>2 DEF sentinel, MigrationTypeOK, Streaming
  <2>. QED
    BY <2>1 DEF SentinelIsLast
<1>3. CASE finish \/ end_visibly
  BY <1>3 DEF finish, end_visibly, SentinelIsLast
<1>4. CASE exact_continuation \/ text_continuation
  <2>1. ~cur.over /\ closed' = closed
    BY <1>4 DEF exact_continuation, text_continuation, MayBreak
  <2>2. cur' = cur \/ cur'.over = FALSE
    <3>1. CASE exact_continuation
      BY <3>1 DEF exact_continuation
    <3>2. CASE text_continuation
      BY <3>2 DEF text_continuation
    <3>. QED
      BY <1>4, <3>1, <3>2
  <2>. QED
    BY <2>1, <2>2 DEF SentinelIsLast
<1>5. CASE UNCHANGED migrationVars
  BY <1>5 DEF migrationVars, SentinelIsLast
<1>. QED
  BY <1>1, <1>2, <1>3, <1>4, <1>5 DEF MigrationNext

\* A step of the router is a step of the stream the client was promised, or
\* leaves that as it is.
LEMMA NextPromise ==
  ASSUME LateBreaks = FALSE, MigrationTypeOK, Whole, SentinelIsLast, [MigrationNext]_migrationVars
  PROVE  [Promise!Next]_<<seen, streamStatus>>
<1>1. ASSUME NEW kind \in Kinds, NEW i \in BOOLEAN, NEW p \in BOOLEAN, chunk(kind, i, p)
      PROVE  [Promise!Next]_<<seen, streamStatus>>
  <2>1. streamStatus = "open" /\ streamStatus' = "open"
    BY <1>1 DEF chunk, SentinelIsLast, streamStatus
  <2>2. seen' = seen \/ seen' = Append(seen, Len(seen) + 1)
    BY <1>1, Zenon DEF chunk, Whole
  <2>. QED
    BY <2>1, <2>2 DEF Promise!Next, Promise!Deliver
<1>2. CASE sentinel
  <2>1. streamStatus = "open" /\ streamStatus' = "done" /\ seen' = seen
    BY <1>2 DEF sentinel, SentinelIsLast, streamStatus
  <2>. QED
    BY <2>1 DEF Promise!Next, Promise!Close
<1>3. CASE finish
  <2>1. streamStatus = "done" /\ streamStatus' = "done" /\ seen' = seen
    BY <1>3 DEF finish, SentinelIsLast, streamStatus
  <2>. QED
    BY <2>1
<1>4. CASE end_visibly
  <2>1. streamStatus = "open" /\ streamStatus' = "failed" /\ seen' = seen
    BY <1>4 DEF end_visibly, MayBreak, SentinelIsLast, streamStatus
  <2>. QED
    BY <2>1 DEF Promise!Next, Promise!Close
<1>5. CASE exact_continuation
  <2>1. streamStatus' = streamStatus /\ seen' = seen
    BY <1>5 DEF exact_continuation, streamStatus
  <2>. QED
    BY <2>1
<1>6. CASE text_continuation
  <2>1. streamStatus = "open" /\ streamStatus' \in {"open", "failed"} /\ seen' = seen
    BY <1>6 DEF text_continuation, MayBreak, SentinelIsLast, streamStatus
  <2>. QED
    BY <2>1 DEF Promise!Next, Promise!Close
<1>7. CASE UNCHANGED migrationVars
  BY <1>7 DEF migrationVars, streamStatus
<1>. QED
  BY <1>1, <1>2, <1>3, <1>4, <1>5, <1>6, <1>7 DEF MigrationNext

\* Engines that send plain text, and whose streams do not break after their
\* sentinel, give the client the stream it was promised, however often and
\* wherever the generation moves.
THEOREM StreamIsUninterrupted ==
  ASSUME "other" \notin Kinds, LateBreaks = FALSE
  PROVE  MigrationSpec => OneUninterruptedStream
<1>1. MigrationInit => Promise!Init
  BY DEF MigrationInit, Promise!Init, streamStatus
<1>2. MigrationInit => SentinelIsLast
  <2>. SUFFICES ASSUME MigrationInit PROVE SentinelIsLast
    OBVIOUS
  <2>1. closed = FALSE /\ cur.over = FALSE
    BY DEF MigrationInit
  <2>. QED
    BY <2>1 DEF SentinelIsLast
<1>. QED
  BY <1>1, <1>2, InitType, InitWhole, NextType, NextIdsCover, NextWhole, NextSentinel,
     NextPromise, PTL DEF MigrationSpec, OneUninterruptedStream, Promise!Spec

-----------------------------------------------------------------------------
(* NatsRequest. *)

\* A cancel signal is sent by a router that does not listen any more.
Silent == \A r \in signals : client[r] = "over"

\* What was not published has no message.
Fresh == \A r \in Incoming : client[r] \in {"idle", "admitted"} => message[r] = "none"

\* GaugeIsLive, up to the disconnection.
Counted ==
    server # "down" =>
        \A r \in Incoming : message[r] = "delivered" <=> Running(r) \/ task[r] = "dead"

\* A request that can be continued elsewhere and is in flight is known as one;
\* from the moment the list is drawn up, it is on it or has been told.
Early == {"up", "queued", "closed", "waiting"}
Resumable ==
    \A r \in Migratable \cap inflight :
        Running(r) => IF server \in Early THEN r \in migratable ELSE r \in toHand \cup handed

\* Only its drain or its own router ends such a request.
Planned ==
    \A r \in Migratable : task[r] = "cancelled" => r \in handed \/ client[r] = "over"

\* Incoming are handed back in one stage of the drain; one that was told and
\* is still running is marked.
Told ==
    /\ noticed # Void \/ toHand # {} => server = "handing"
    /\ noticed # Void => noticed \in handed \/ ~Running(noticed)
    /\ toHand \subseteq Migratable

Rest == Silent /\ Fresh /\ Counted /\ Resumable /\ Planned /\ Told /\ DrainIsPlanned
NatsInv == NatsTypeOK /\ Rest

\* With nothing sent, all of it holds.
LEMMA InitNatsInv == NatsInit => NatsInv
<1> SUFFICES ASSUME NatsInit PROVE NatsInv
  OBVIOUS
<1>1. NatsTypeOK
  BY TransportConfig DEF NatsInit, NatsTypeOK, ClientStates, Messages, TaskStates, ServerStates
<1>2. Silent /\ Fresh /\ Resumable /\ Told
  BY DEF NatsInit, Silent, Fresh, Resumable, Told
<1>3. Counted /\ Planned
  BY TransportConfig DEF NatsInit, Counted, Planned, Running
<1>4. DrainIsPlanned
  BY DEF NatsInit, DrainIsPlanned
<1> QED BY <1>1, <1>2, <1>4, <1>3 DEF NatsInv, Rest

\* A frame that the rule allows may be appended to a reply.
LEMMA ReplyPlanned ==
  ASSUME NatsTypeOK, DrainIsPlanned, NEW r \in Incoming, NEW f \in Frames, Reply(r, f),
         client[r] = "waiting" => f # (IF r \in Migratable THEN "cancelled" ELSE "notice")
  PROVE  DrainIsPlanned' /\ frames' \in [Incoming -> Seq(Frames)]
<1>0. frames \in [Incoming -> Seq(Frames)] /\ frames[r] \in Seq(Frames)
  BY DEF NatsTypeOK
<1>1. CASE server = "down" \/ client[r] # "waiting"
  BY <1>0, <1>1 DEF Reply, DrainIsPlanned
<1>2. CASE ~(server = "down" \/ client[r] # "waiting")
  <2>1. frames' = [frames EXCEPT ![r] = Append(frames[r], f)]
    BY <1>2 DEF Reply, Becomes
  <2> DEFINE s == Append(frames[r], f)
  <2>2. /\ s \in Seq(Frames) /\ Len(s) = Len(frames[r]) + 1 /\ Len(frames[r]) \in Nat
        /\ s[Len(frames[r]) + 1] = f
        /\ \A i \in 1..Len(frames[r]) : s[i] = frames[r][i]
    BY <1>0
  <2> HIDE DEF s
  <2>3. \A q \in Incoming : frames'[q] = IF q = r THEN s ELSE frames[q]
    BY <1>0, <2>1 DEF s
  <2>4. frames' \in [Incoming -> Seq(Frames)]
    BY <1>0, <2>1, <2>2 DEF s
  <2>5. ASSUME NEW i \in 1..Len(s)
        PROVE  s[i] # (IF r \in Migratable THEN "cancelled" ELSE "notice")
    <3>1. CASE i = Len(frames[r]) + 1
      BY <1>2, <2>2, <3>1
    <3>2. CASE i \in 1..Len(frames[r])
      BY <2>2, <3>2 DEF DrainIsPlanned
    <3> QED BY <2>2, <3>1, <3>2
  <2> QED BY Zenon, <2>3, <2>4, <2>5 DEF DrainIsPlanned
<1> QED BY <1>1, <1>2

\* Reading a frame off a reply.
LEMMA ReadPlanned ==
  ASSUME NatsTypeOK, DrainIsPlanned, NEW r \in Incoming, frames[r] # <<>>,
         frames' = Becomes(frames, r, Tail(frames[r]))
  PROVE  DrainIsPlanned' /\ frames' \in [Incoming -> Seq(Frames)]
<1>0. frames \in [Incoming -> Seq(Frames)] /\ frames[r] \in Seq(Frames)
  BY DEF NatsTypeOK
<1> DEFINE s == Tail(frames[r])
<1>1. /\ s \in Seq(Frames) /\ Len(s) = Len(frames[r]) - 1 /\ Len(frames[r]) \in Nat
      /\ \A i \in 1..Len(s) : s[i] = frames[r][i + 1]
  BY <1>0
<1> HIDE DEF s
<1>2. \A q \in Incoming : frames'[q] = IF q = r THEN s ELSE frames[q]
  BY <1>0 DEF s, Becomes
<1>3. frames' \in [Incoming -> Seq(Frames)]
  BY <1>0, <1>1 DEF s, Becomes
<1>4. \A i \in 1..Len(s) : i + 1 \in 1..Len(frames[r])
  BY <1>1
<1>5. \A i \in 1..Len(s) : s[i] # (IF r \in Migratable THEN "cancelled" ELSE "notice")
  BY <1>1, <1>4 DEF DrainIsPlanned
<1> QED BY Zenon, <1>2, <1>3, <1>5 DEF DrainIsPlanned

\* A step that leaves the replies leaves the rule about them.
LEMMA FramesFrame ==
  ASSUME DrainIsPlanned, frames' = frames
  PROVE  DrainIsPlanned'
  BY DEF DrainIsPlanned

\* What cancelling tasks does to one of them.
LEMMA CancelEffect ==
  ASSUME NatsTypeOK, NEW rs, Cancel(rs)
  PROVE  /\ task' \in [Incoming -> TaskStates]
         /\ \A q \in Incoming : q \notin rs => task'[q] = task[q]
         /\ \A q \in Incoming : Running(q)' \/ task'[q] = "dead" <=> Running(q) \/ task[q] = "dead"
         /\ \A q \in Incoming : Running(q)' => Running(q)
         /\ \A q \in Incoming : task'[q] = "cancelled" /\ task[q] # "cancelled" => q \in rs /\ Running(q)
<1>1. \A q \in Incoming : task'[q] = IF q \in rs THEN Cancelled(task[q]) ELSE task[q]
  BY DEF Cancel
<1>2. \A q \in Incoming : /\ Cancelled(task[q]) \in TaskStates
                          /\ Cancelled(task[q]) \in {task[q], "dead", "cancelled"}
                          /\ Cancelled(task[q]) = "dead" => task[q] \in {"new", "dead"}
                          /\ Cancelled(task[q]) = "cancelled" => task[q] \in {"run", "closing", "cancelled"}
  BY DEF Cancelled, NatsTypeOK, TaskStates
<1>3. task' \in [Incoming -> TaskStates]
  BY <1>1, <1>2 DEF Cancel, NatsTypeOK
<1> QED BY <1>1, <1>2, <1>3 DEF Running

\* The router takes the request on or refuses it.
LEMMA AdmitIInv ==
  ASSUME NatsInv, NEW r \in Incoming, admit(r)
  PROVE  NatsInv'
<1> USE DEF NatsInv, Rest
<1>0. backlog \in Nat
  <2> DEFINE P == {q \in Incoming : message[q] \in {"queued", "local", "delivered"}}
  <2>1. IsFiniteSet(P)
    BY TransportConfig, FS_Subset
  <2> QED BY <2>1, FS_CardinalityType DEF backlog
<1>1. /\ cache' \in Nat \cup {Void} /\ client' \in [Incoming -> ClientStates]
      /\ \A q \in Incoming : client'[q] = client[q] \/ (q = r /\ client'[q] \in {"admitted", "over"})
  BY Zenon, <1>0 DEF admit, Becomes, NatsTypeOK, ClientStates
<1>2. client[r] = "idle"
  BY DEF admit
<1>3. /\ frames' = frames /\ message' = message /\ signals' = signals /\ task' = task
      /\ chunks' = chunks /\ inflight' = inflight /\ migratable' = migratable
      /\ handed' = handed /\ server' = server /\ toHand' = toHand /\ noticed' = noticed
      /\ maxPending' = maxPending
  BY DEF admit, serverVars
<1>4. NatsTypeOK'
  BY <1>1, <1>3 DEF NatsTypeOK
<1>5. Silent' /\ Fresh' /\ Counted' /\ Resumable' /\ Told'
  BY <1>1, <1>2, <1>3 DEF Silent, Fresh, Counted, Resumable, Told, Running, NatsTypeOK
<1>6. Planned'
  BY <1>1, <1>2, <1>3, TransportConfig DEF Planned
<1> QED BY <1>3, <1>4, <1>5, <1>6, FramesFrame

\* The router publishes: the message is new.
LEMMA PublishIInv ==
  ASSUME NatsInv, NEW r \in Incoming, publish(r)
  PROVE  NatsInv'
<1> USE DEF NatsInv, Rest
<1>1. /\ client' \in [Incoming -> ClientStates] /\ message' \in [Incoming -> Messages]
      /\ \A q \in Incoming : client'[q] = IF q = r THEN "waiting" ELSE client[q]
      /\ \A q \in Incoming : q # r => message'[q] = message[q]
      /\ message'[r] \in {"queued", "lost"}
  BY DEF publish, Becomes, NatsTypeOK, ClientStates, Messages
<1>2. client[r] = "admitted" /\ message[r] = "none"
  BY DEF publish, Fresh
<1>3. /\ cache' = cache /\ frames' = frames /\ signals' = signals /\ task' = task
      /\ chunks' = chunks /\ inflight' = inflight /\ migratable' = migratable
      /\ handed' = handed /\ server' = server /\ toHand' = toHand /\ noticed' = noticed
      /\ maxPending' = maxPending
  BY DEF publish, serverVars
<1>4. NatsTypeOK'
  BY <1>1, <1>3 DEF NatsTypeOK
<1>5. Silent' /\ Fresh' /\ Resumable' /\ Told'
  BY <1>1, <1>2, <1>3 DEF Silent, Fresh, Resumable, Told, Running, NatsTypeOK
<1>6. Counted'
  BY <1>1, <1>2, <1>3 DEF Counted, Running
<1>7. Planned'
  BY <1>1, <1>2, <1>3, TransportConfig DEF Planned
<1> QED BY <1>3, <1>4, <1>5, <1>6, <1>7, FramesFrame

\* The router reads a frame, or gives up and sends the signal.
LEMMA ReaderIInv ==
  ASSUME NatsInv, NEW r \in Incoming, read(r) \/ abandon(r)
  PROVE  NatsInv'
<1> USE DEF NatsInv, Rest
<1>1. /\ client' \in [Incoming -> ClientStates]
      /\ \A q \in Incoming : client'[q] = client[q] \/ (q = r /\ client'[q] = "over")
  BY Zenon DEF read, abandon, Becomes, NatsTypeOK, ClientStates
<1>2. client[r] = "waiting"
  BY DEF read, abandon
<1>3. /\ cache' = cache /\ message' = message /\ task' = task
      /\ chunks' = chunks /\ inflight' = inflight /\ migratable' = migratable
      /\ handed' = handed /\ server' = server /\ toHand' = toHand /\ noticed' = noticed
      /\ maxPending' = maxPending
  BY DEF read, abandon, serverVars
<1>4. signals' \in SUBSET Incoming /\ Silent'
  BY <1>1 DEF read, abandon, Becomes, NatsTypeOK, Silent
<1>5. DrainIsPlanned' /\ frames' \in [Incoming -> Seq(Frames)]
  <2>1. CASE read(r)
    BY <2>1, ReadPlanned DEF read
  <2>2. CASE abandon(r)
    BY <2>2, FramesFrame DEF abandon, NatsTypeOK
  <2> QED BY <2>1, <2>2
<1>6. NatsTypeOK'
  BY <1>1, <1>3, <1>4, <1>5 DEF NatsTypeOK
<1>7. Fresh' /\ Counted' /\ Resumable' /\ Told'
  BY <1>1, <1>2, <1>3 DEF Fresh, Counted, Resumable, Told, Running
<1>8. Planned'
  BY <1>1, <1>2, <1>3, TransportConfig DEF Planned
<1> QED BY <1>4, <1>5, <1>6, <1>7, <1>8

\* A message comes to the worker's subscription.
LEMMA DeliverIInv ==
  ASSUME NatsInv, NEW r \in Incoming, deliver(r)
  PROVE  NatsInv'
<1> USE DEF NatsInv, Rest
<1>1. /\ message' \in [Incoming -> Messages]
      /\ \A q \in Incoming : message'[q] = IF q = r THEN "local" ELSE message[q]
      /\ message[r] = "queued"
  BY DEF deliver, Becomes, NatsTypeOK, Messages
<1>2. /\ cache' = cache /\ client' = client /\ frames' = frames /\ signals' = signals
      /\ task' = task /\ chunks' = chunks /\ inflight' = inflight /\ migratable' = migratable
      /\ handed' = handed /\ server' = server /\ toHand' = toHand /\ noticed' = noticed
      /\ maxPending' = maxPending
  BY DEF deliver, clientVars, serverVars
<1>3. NatsTypeOK'
  BY <1>1, <1>2 DEF NatsTypeOK
<1>4. Silent' /\ Fresh' /\ Resumable' /\ Planned' /\ Told'
  BY <1>1, <1>2 DEF Silent, Fresh, Resumable, Planned, Told, Running
<1>5. Counted'
  BY <1>1, <1>2 DEF Counted, Running
<1> QED BY <1>2, <1>3, <1>4, <1>5, FramesFrame

\* _on_request: what can be continued elsewhere is noted as such.
LEMMA OnRequestIInv ==
  ASSUME NatsInv, NEW r \in Incoming, on_request(r)
  PROVE  NatsInv'
<1> USE DEF NatsInv, Rest
<1>1. /\ message' \in [Incoming -> Messages] /\ task' \in [Incoming -> TaskStates]
      /\ \A q \in Incoming : message'[q] = IF q = r THEN "delivered" ELSE message[q]
      /\ \A q \in Incoming : task'[q] = IF q = r THEN "new" ELSE task[q]
      /\ message[r] = "local"
  BY DEF on_request, Becomes, NatsTypeOK, Messages, TaskStates
<1>2. /\ cache' = cache /\ client' = client /\ frames' = frames /\ signals' = signals
      /\ chunks' = chunks /\ handed' = handed /\ server' = server /\ toHand' = toHand
      /\ noticed' = noticed /\ maxPending' = maxPending
  BY DEF on_request, clientVars, stopVars
<1>3. /\ inflight' = inflight \cup {r} /\ migratable' = migratable \cup ({r} \cap Migratable)
      /\ server \in {"up", "queued", "closed"}
  BY DEF on_request, Listening
<1>4. NatsTypeOK'
  BY <1>1, <1>2, <1>3 DEF NatsTypeOK
<1>5. Silent' /\ Fresh' /\ Resumable'
  BY <1>1, <1>2, <1>3, TransportConfig DEF Silent, Fresh, Resumable, Running, Early
<1>6. Counted'
  BY <1>1, <1>2 DEF Counted, Running
<1>7. Planned'
  BY <1>1, <1>2, TransportConfig DEF Planned
<1>8. Told'
  BY <1>2, <1>3 DEF Told
<1> QED BY Zenon, <1>2, <1>4, <1>5, <1>6, <1>7, <1>8, FramesFrame

\* The signal arrives, or is lost: nobody waits for the request it cancels.
LEMMA OnCancelIInv ==
  ASSUME NatsInv, NEW r \in Incoming, on_cancel(r)
  PROVE  NatsInv'
<1> USE DEF NatsInv, Rest
<1>1. /\ cache' = cache /\ client' = client /\ frames' = frames /\ message' = message
      /\ chunks' = chunks /\ inflight' = inflight /\ migratable' = migratable
      /\ handed' = handed /\ server' = server /\ toHand' = toHand /\ noticed' = noticed
      /\ maxPending' = maxPending
  BY DEF on_cancel, clientVars, serverVars
<1>2. signals' \subseteq signals /\ client[r] = "over"
  BY DEF on_cancel, Silent
<1>3. /\ task' \in [Incoming -> TaskStates]
      /\ \A q \in Incoming : Running(q)' \/ task'[q] = "dead" <=> Running(q) \/ task[q] = "dead"
      /\ \A q \in Incoming : Running(q)' => Running(q)
      /\ \A q \in Incoming : task'[q] = "cancelled" /\ task[q] # "cancelled" => q = r
  <2>1. CASE task' = task
    BY <2>1 DEF NatsTypeOK, Running
  <2>2. CASE Cancel({r} \cap inflight)
    <3> HIDE DEF NatsInv, Rest
    <3>1. NatsTypeOK
      BY DEF NatsInv
    <3> QED BY <2>2, <3>1, CancelEffect
  <2> QED BY <2>1, <2>2 DEF on_cancel
<1>4. NatsTypeOK'
  BY <1>1, <1>2, <1>3 DEF NatsTypeOK
<1>5. Silent' /\ Fresh'
  BY Zenon, <1>1, <1>2 DEF Silent, Fresh
<1>6. Counted'
  BY <1>1, <1>3 DEF Counted
<1>7. Resumable' /\ Planned'
  BY <1>1, <1>2, <1>3, TransportConfig DEF Resumable, Planned
<1>8. Told'
  BY <1>1, <1>3 DEF Told, NatsTypeOK
<1> QED BY Zenon, <1>1, <1>4, <1>5, <1>6, <1>7, <1>8, FramesFrame

\* A task starts, answers or comes to its end.
LEMMA TaskIInv ==
  ASSUME NatsInv, NEW r \in Incoming,
         \/ proxy(r) \/ send_data(r) \/ cancelled(r)
         \/ \E f \in {"done", "error"} : send_last(r, f)
  PROVE  NatsInv'
<1> USE DEF NatsInv, Rest
<1>1. /\ cache' = cache /\ client' = client /\ message' = message /\ signals' = signals
      /\ inflight' = inflight /\ migratable' = migratable
      /\ handed' = handed /\ server' = server /\ toHand' = toHand /\ noticed' = noticed
      /\ maxPending' = maxPending
  BY DEF proxy, send_data, cancelled, send_last, clientVars, serverVars
<1>2. chunks' \in [Incoming -> 0..MaxChunks]
  <2>1. chunks \in [Incoming -> 0..MaxChunks]
    BY DEF NatsTypeOK
  <2>2. CASE chunks' = chunks
    BY <2>1, <2>2
  <2>3. CASE send_data(r)
    <3>1. chunks[r] + 1 \in 0..MaxChunks
      BY <2>1, <2>3, TransportConfig DEF send_data
    <3> QED BY <2>1, <2>3, <3>1 DEF send_data
  <2> QED BY <2>2, <2>3 DEF proxy, cancelled, send_last
<1>3. /\ task' \in [Incoming -> TaskStates]
      /\ \A q \in Incoming : task'[q] = task[q] \/ (q = r /\ task'[q] \in {"run", "closing"})
      /\ task[r] \in {"new", "run", "cancelled"}
  BY Zenon DEF proxy, send_data, cancelled, send_last, Becomes, NatsTypeOK, TaskStates
<1>4. DrainIsPlanned' /\ frames' \in [Incoming -> Seq(Frames)]
  <2>1. CASE frames' = frames
    BY <2>1, FramesFrame DEF NatsTypeOK
  <2>2. ASSUME NEW f \in {"data", "done", "error"}, Reply(r, f)
        PROVE  DrainIsPlanned' /\ frames' \in [Incoming -> Seq(Frames)]
    BY <2>2, ReplyPlanned DEF Frames
  <2>3. CASE cancelled(r) /\ r \notin handed
    BY <2>3, ReplyPlanned DEF cancelled, Planned, Frames
  <2> QED BY <2>1, <2>2, <2>3 DEF proxy, send_data, cancelled, send_last
<1>5. NatsTypeOK'
  BY <1>1, <1>3, <1>4, <1>2 DEF NatsTypeOK
<1>6. Silent' /\ Fresh'
  BY <1>1 DEF Silent, Fresh
<1>7. Counted' /\ Resumable'
  BY <1>1, <1>3, TransportConfig DEF Counted, Resumable, Running
<1>8. Planned'
  BY Zenon, <1>1, <1>3, TransportConfig DEF Planned
<1>9. Told'
  BY <1>1, <1>3 DEF Told, Running, NatsTypeOK
<1> QED BY Zenon, <1>4, <1>5, <1>6, <1>7, <1>8, <1>9

\* A task cleans up.
LEMMA CleanupIInv ==
  ASSUME NatsInv, NEW r \in Incoming, cleanup(r)
  PROVE  NatsInv'
<1> USE DEF NatsInv, Rest
<1>1. /\ cache' = cache /\ client' = client /\ frames' = frames /\ signals' = signals
      /\ chunks' = chunks /\ server' = server /\ toHand' = toHand /\ noticed' = noticed
      /\ maxPending' = maxPending
      /\ inflight' = inflight \ {r} /\ migratable' = migratable \ {r} /\ handed' = handed \ {r}
  BY DEF cleanup, clientVars, stopVars
<1>2. /\ task' \in [Incoming -> TaskStates] /\ message' \in [Incoming -> Messages]
      /\ \A q \in Incoming : task'[q] = IF q = r THEN "ended" ELSE task[q]
      /\ \A q \in Incoming :
            message'[q] = IF q = r /\ server # "down" THEN "acked" ELSE message[q]
      /\ task[r] = "closing"
  BY DEF cleanup, Becomes, NatsTypeOK, TaskStates, Messages
<1>3. NatsTypeOK'
  BY <1>1, <1>2 DEF NatsTypeOK
<1>4. Silent'
  BY Zenon, <1>1 DEF Silent
<1>5. Fresh'
  <2>1. server # "down" => message[r] = "delivered"
    BY Zenon, <1>2 DEF Counted, Running
  <2> QED BY Zenon, <1>1, <1>2, <2>1 DEF Fresh
<1>6. Counted'
  BY Zenon, <1>1, <1>2 DEF Counted, Running
<1>7. Resumable' /\ Planned'
  BY Zenon, <1>1, <1>2, TransportConfig DEF Resumable, Planned, Running
<1>8. Told'
  BY <1>1, <1>2 DEF Told, Running, NatsTypeOK
<1> QED BY Zenon, <1>1, <1>3, <1>4, <1>5, <1>6, <1>7, <1>8, FramesFrame

\* The first stages of the drain; the list of what is handed back is complete.
LEMMA DrainIInv ==
  ASSUME NatsInv, stop \/ await_queued \/ unsubscribe \/ drained \/ disconnect
  PROVE  NatsInv'
<1> USE DEF NatsInv, Rest
<1>1. /\ cache' = cache /\ client' = client /\ frames' = frames /\ signals' = signals
      /\ task' = task /\ chunks' = chunks /\ inflight' = inflight /\ migratable' = migratable
      /\ handed' = handed /\ noticed' = noticed /\ maxPending' = maxPending
  BY Zenon DEF stop, await_queued, unsubscribe, drained, disconnect, clientVars
<1>2. /\ message' \in [Incoming -> Messages]
      /\ \A q \in Incoming : \/ message'[q] = message[q]
                             \/ message[q] \in {"local", "queued"} /\ message'[q] = "lost"
  BY DEF stop, await_queued, unsubscribe, drained, disconnect, NatsTypeOK, Messages
<1>3. /\ server # "handing" /\ server' \in ServerStates
      /\ server = "down" => server' = "down"
      /\ \/ server \in Early /\ server' \in Early /\ toHand' = toHand
         \/ /\ server = "waiting" /\ server' = "handing"
            /\ toHand' = {q \in migratable : q \in inflight /\ Running(q)}
         \/ server = "closing" /\ server' = "down" /\ toHand' = toHand
  BY DEF stop, await_queued, unsubscribe, drained, disconnect, Stage, Early, ServerStates
<1>4. toHand = {} /\ noticed = Void
  BY <1>3 DEF Told
<1>5. toHand' \subseteq migratable /\ (toHand' # {} => server' = "handing")
  BY Zenon, <1>3, <1>4
<1>6. NatsTypeOK'
  BY Zenon, <1>1, <1>2, <1>3, <1>5, TransportConfig DEF NatsTypeOK
<1>7. Silent' /\ Fresh' /\ Planned'
  BY Zenon, <1>1, <1>2 DEF Silent, Fresh, Planned
<1>8. Counted'
  BY Zenon, <1>1, <1>2, <1>3 DEF Counted, Running
<1>9. Told'
  BY <1>1, <1>4, <1>5 DEF Told, NatsTypeOK
<1>10. Resumable'
  <2> SUFFICES ASSUME NEW q \in Migratable \cap inflight, Running(q)
               PROVE  IF server' \in Early THEN q \in migratable ELSE q \in toHand' \cup handed
    BY <1>1 DEF Resumable, Running
  <2>1. IF server \in Early THEN q \in migratable ELSE q \in toHand \cup handed
    BY DEF Resumable
  <2> QED BY <1>3, <2>1 DEF Early
<1> QED BY Zenon, <1>1, <1>6, <1>7, <1>8, <1>9, <1>10, FramesFrame

\* A request is told, and marked.
LEMMA HandBackIInv ==
  ASSUME NatsInv, NEW r \in Incoming, hand_back(r)
  PROVE  NatsInv'
<1> USE DEF NatsInv, Rest
<1>1. /\ cache' = cache /\ client' = client /\ message' = message /\ signals' = signals
      /\ task' = task /\ chunks' = chunks /\ inflight' = inflight /\ migratable' = migratable
      /\ server' = server /\ maxPending' = maxPending
  BY DEF hand_back, clientVars
<1>2. /\ server = "handing" /\ noticed = Void /\ r \in toHand /\ toHand' = toHand \ {r}
      /\ noticed' = r /\ handed' = handed \cup {r} /\ Reply(r, "notice")
  BY DEF hand_back
<1>3. r \in Migratable
  BY <1>2 DEF Told
<1>4. DrainIsPlanned' /\ frames' \in [Incoming -> Seq(Frames)]
  BY Zenon, <1>2, <1>3, ReplyPlanned DEF Frames
<1>5. NatsTypeOK'
  BY Zenon, <1>1, <1>2, <1>4 DEF NatsTypeOK
<1>6. Silent' /\ Fresh' /\ Counted' /\ Planned'
  BY Zenon, <1>1, <1>2 DEF Silent, Fresh, Counted, Planned, Running
<1>7. Resumable' /\ Told'
  BY <1>1, <1>2 DEF Resumable, Told, Running, Early
<1> QED BY <1>4, <1>5, <1>6, <1>7

\* A request is cancelled that was told, or everything is that is left: what
\* is left and can be continued elsewhere was told.
LEMMA CancelIInv ==
  ASSUME NatsInv, hand_back_cancel \/ cancel_rest
  PROVE  NatsInv'
<1> USE DEF NatsInv, Rest
<1>1. /\ cache' = cache /\ client' = client /\ frames' = frames /\ message' = message
      /\ signals' = signals /\ chunks' = chunks /\ handed' = handed /\ toHand' = toHand
      /\ maxPending' = maxPending /\ noticed' = Void
  BY DEF hand_back_cancel, cancel_rest, clientVars
<1>2. /\ server = "handing" /\ server' \in {"handing", "closing"}
      /\ inflight' \in {inflight, {}} /\ migratable' \subseteq migratable
      /\ toHand # {} => server' = "handing"
  BY DEF hand_back_cancel, cancel_rest, Stage, Told
<1>3. PICK rs : /\ Cancel(rs) /\ rs \subseteq inflight
                /\ \A q \in rs \cap Migratable : Running(q) => q \in handed
  <2>1. CASE hand_back_cancel
    <3>1. \A q \in {noticed} \cap inflight : Running(q) => q \in handed
      BY <2>1 DEF hand_back_cancel, Told
    <3> QED BY <2>1, <3>1 DEF hand_back_cancel
  <2>2. CASE cancel_rest
    <3>1. \A q \in inflight \cap Migratable : Running(q) => q \in handed
      BY Zenon, <1>2, <2>2 DEF cancel_rest, Resumable, Early
    <3> QED BY Zenon, <2>2, <3>1 DEF cancel_rest
  <2> QED BY <2>1, <2>2
<1>4. /\ task' \in [Incoming -> TaskStates]
      /\ \A q \in Incoming : Running(q)' \/ task'[q] = "dead" <=> Running(q) \/ task[q] = "dead"
      /\ \A q \in Incoming : Running(q)' => Running(q)
      /\ \A q \in Incoming : task'[q] = "cancelled" /\ task[q] # "cancelled" => q \in rs /\ Running(q)
  BY Zenon, <1>3, CancelEffect
<1>5. NatsTypeOK'
  BY <1>1, <1>2, <1>4 DEF NatsTypeOK, ServerStates
<1>6. Silent' /\ Fresh'
  BY Zenon, <1>1 DEF Silent, Fresh
<1>7. Counted'
  BY Zenon, <1>1, <1>2, <1>4 DEF Counted
<1>8. Planned'
  BY Zenon, <1>1, <1>3, <1>4, TransportConfig DEF Planned
<1>9. Told'
  BY Zenon, <1>1, <1>2 DEF Told
<1>10. Resumable'
  BY Zenon, <1>1, <1>2, <1>4, TransportConfig DEF Resumable, Early
<1> QED BY Zenon, <1>1, <1>5, <1>6, <1>7, <1>8, <1>9, <1>10, FramesFrame

\* A step preserves it.
LEMMA StepIInv == NatsInv /\ [NatsNext]_natsVars => NatsInv'
<1> SUFFICES ASSUME NatsInv, [NatsNext]_natsVars PROVE NatsInv'
  OBVIOUS
<1>1. CASE UNCHANGED natsVars
  <2>1. NatsTypeOK' /\ Silent' /\ Fresh' /\ Counted' /\ DrainIsPlanned'
    BY Zenon, <1>1 DEF NatsInv, Rest, natsVars, NatsTypeOK, Silent, Fresh, Counted, Running, DrainIsPlanned
  <2>2. Resumable' /\ Planned' /\ Told'
    BY Zenon, <1>1 DEF NatsInv, Rest, natsVars, Resumable, Planned, Told, Running
  <2> QED BY Zenon, <2>1, <2>2 DEF NatsInv, Rest
<1>2. CASE CacheExpires
  <2>1. NatsTypeOK' /\ Silent' /\ Fresh' /\ Counted' /\ DrainIsPlanned'
    BY Zenon, <1>2 DEF NatsInv, Rest, CacheExpires, serverVars, NatsTypeOK, Silent, Fresh, Counted,
                Running, DrainIsPlanned
  <2>2. Resumable' /\ Planned' /\ Told'
    BY <1>2 DEF NatsInv, Rest, CacheExpires, serverVars, Resumable, Planned, Told, Running
  <2> QED BY <2>1, <2>2 DEF NatsInv, Rest
<1>3. ASSUME NEW r \in Incoming, RouterStep(r) \/ abandon(r) PROVE NatsInv'
  BY Zenon, <1>3, AdmitIInv, PublishIInv, ReaderIInv DEF RouterStep
<1>4. ASSUME NEW r \in Incoming, WorkerStep(r) \/ send_data(r) PROVE NatsInv'
  BY Zenon, <1>4, DeliverIInv, OnRequestIInv, TaskIInv, CleanupIInv DEF WorkerStep
<1>5. ASSUME NEW r \in Incoming, on_cancel(r) \/ hand_back(r) PROVE NatsInv'
  BY <1>5, OnCancelIInv, HandBackIInv
<1>6. CASE \/ stop \/ await_queued \/ unsubscribe \/ drained \/ hand_back_cancel
           \/ cancel_rest \/ disconnect
  BY <1>6, DrainIInv, CancelIInv
<1> QED BY Zenon, <1>1, <1>2, <1>3, <1>4, <1>5, <1>6 DEF NatsNext

\* The state of the transport has its type, whatever is sent and cancelled.
THEOREM NatsTypeCorrect == NatsSpec => []NatsTypeOK
<1>1. NatsInv => NatsTypeOK
  BY DEF NatsInv
<1> QED BY <1>1, InitNatsInv, StepIInv, PTL DEF NatsSpec

\* _hand_back_migratable, _on_cancel and the cancellation at the end of stop()
\* may meet a request in any state: one that can be continued elsewhere is
\* never told it was cancelled, and no other is handed back.
THEOREM DrainPlanned == NatsSpec => []DrainIsPlanned
<1>1. NatsInv => DrainIsPlanned
  BY Zenon DEF NatsInv, Rest
<1> QED BY <1>1, InitNatsInv, StepIInv, PTL DEF NatsSpec

\* What the backlog gauge counts as taken is what _proxy works on.
THEOREM GaugeLive == NatsSpec => []GaugeIsLive
<1>1. NatsInv => GaugeIsLive
  BY DEF NatsInv, Rest, Counted, GaugeIsLive
<1> QED BY <1>1, InitNatsInv, StepIInv, PTL DEF NatsSpec
=============================================================================
