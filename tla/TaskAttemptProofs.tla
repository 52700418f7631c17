-------------------------- MODULE TaskAttemptProofs --------------------------
(***************************************************************************)
(* Proofs about TaskAttempt for every graph of tasks, every pool and every *)
(* number of attempts: no lease is lost or returned twice, and an open     *)
(* slot has one writer.                                                    *)
(***************************************************************************)
EXTENDS TaskInvariants, FiniteSetTheorems, TLAPS

-----------------------------------------------------------------------------
(* The units that a set of tasks has leased. *)

\* Finitely many tasks lease finitely many units.
LEMMA UnitsFinite ==
  ASSUME NEW amount \in [Tasks -> Nat], NEW S \in SUBSET Tasks
  PROVE  /\ IsFiniteSet(Units(amount, S))
         /\ Cardinality(Units(amount, S)) \in Nat
<1> DEFINE share(t) == {t} \X (1 .. amount[t])
           Shares == {share(t) : t \in S}
<1>1. IsFiniteSet(S)
  BY Zenon, FS_Subset, TaskConfig
<1>2. [t \in S |-> share(t)] \in Surjection(S, Shares)
  BY Zenon DEF Surjection
<1>3. IsFiniteSet(Shares)
  BY Zenon, <1>1, <1>2, FS_Surjection
<1>4. ASSUME NEW t \in S PROVE IsFiniteSet(share(t))
  <2>1. amount[t] \in Int /\ 1 \in Int
    BY <1>4
  <2>2. IsFiniteSet({t}) /\ IsFiniteSet(1 .. amount[t])
    BY Zenon, <2>1, FS_Singleton, FS_Interval
  <2> QED BY Zenon, <2>2, FS_Product
<1>5. IsFiniteSet(UNION Shares)
  BY Zenon, <1>3, <1>4, FS_UNION
<1> QED BY Zenon, <1>5, FS_CardinalityType DEF Units

\* One more task leases what it needs.
LEMMA UnitsAdd ==
  ASSUME NEW amount \in [Tasks -> Nat], NEW S \in SUBSET Tasks, NEW t \in Tasks, t \notin S
  PROVE  Cardinality(Units(amount, S \cup {t})) = Cardinality(Units(amount, S)) + amount[t]
<1> DEFINE mine == {t} \X (1 .. amount[t])
<1>1. Units(amount, S \cup {t}) = Units(amount, S) \cup mine
  BY Zenon DEF Units
<1>2. Units(amount, S) \cap mine = {}
  BY DEF Units
<1>3. IsFiniteSet(mine) /\ Cardinality(mine) = amount[t]
  <2>1. IsFiniteSet(1 .. amount[t]) /\ Cardinality(1 .. amount[t]) = amount[t]
    BY FS_Interval
  <2>2. IsFiniteSet({t}) /\ Cardinality({t}) = 1
    BY Zenon, FS_Singleton
  <2>3. IsFiniteSet(mine) /\ Cardinality(mine) = Cardinality({t}) * Cardinality(1 .. amount[t])
    BY Zenon, <2>1, <2>2, FS_Product
  <2> QED BY <2>1, <2>2, <2>3
<1>4. IsFiniteSet(Units(amount, S)) /\ Cardinality(Units(amount, S)) \in Nat
  BY Zenon, UnitsFinite
<1> HIDE DEF mine
<1>5. Cardinality(Units(amount, S) \cup mine) =
        Cardinality(Units(amount, S)) + Cardinality(mine) - Cardinality({})
  <2> DEFINE all == Units(amount, S)
  <2>1. IsFiniteSet(all) /\ IsFiniteSet(mine) /\ all \cap mine = {}
    BY Zenon, <1>2, <1>3, <1>4
  <2> HIDE DEF all
  <2>2. Cardinality(all \cup mine) =
          Cardinality(all) + Cardinality(mine) - Cardinality(all \cap mine)
    BY Zenon, <2>1, FS_Union
  <2> QED BY Zenon, <2>1, <2>2 DEF all
<1>6. Cardinality({}) = 0
  BY Zenon, FS_EmptySet
<1> DEFINE n == Cardinality(Units(amount, S))
           m == Cardinality(Units(amount, S \cup {t}))
<1>7. n \in Nat /\ m = n + amount[t] - 0
  BY Zenon, <1>1, <1>3, <1>4, <1>5, <1>6
<1>8. amount[t] \in Nat
  BY Zenon
<1> HIDE DEF n, m
<1>9. m = n + amount[t]
  BY <1>7, <1>8
<1> QED BY Zenon, <1>9 DEF n, m
-----------------------------------------------------------------------------
(* The scheduler's pools. *)

\* What is leased is a number, by Units being finite.
LEMMA LeasedNat ==
  /\ Leased(Need) \in Nat /\ Leased(Reserve) \in Nat
  /\ Leased(Need)' \in Nat /\ Leased(Reserve)' \in Nat
<1>1. Holding \in SUBSET Tasks /\ Holding' \in SUBSET Tasks
  BY Zenon DEF Holding
<1> QED BY Zenon, <1>1, UnitsFinite, TaskConfig DEF Leased

\* What a task takes is missing from the pools.
LEMMA TakeBalances ==
  ASSUME PoolType, Balance, NEW t \in Tasks, t \notin Holding, Holding' = Holding \cup {t},
         open' = [open EXCEPT ![t] = TRUE],
         gpu' = gpu - Need[t], tok' = tok - Reserve[t], spent' = spent, overdrawn' = overdrawn
  PROVE  Balance'
<1>1. Holding \in SUBSET Tasks
  BY Zenon DEF Holding
<1>2. Leased(Need)' = Leased(Need) + Need[t] /\ Leased(Reserve)' = Leased(Reserve) + Reserve[t]
  BY Zenon, <1>1, UnitsAdd, TaskConfig DEF Leased
<1>3. Holding' = {x \in Tasks : open'[x]}
  BY Zenon DEF Balance, PoolType
<1>4. gpu' = Gpus - Leased(Need)' /\ (overdrawn' \/ tok' = Tokens - spent' - Leased(Reserve)')
  <2>1. Need[t] \in Nat /\ Reserve[t] \in Nat
    BY Zenon, TaskConfig
  <2> DEFINE n == Leased(Need)
             m == Leased(Reserve)
             n2 == Leased(Need)'
             m2 == Leased(Reserve)'
  <2>2. n \in Nat /\ m \in Nat /\ n2 = n + Need[t] /\ m2 = m + Reserve[t]
    BY Zenon, <1>2, LeasedNat
  <2>3. gpu = Gpus - n /\ (overdrawn \/ tok = Tokens - spent - m)
    BY Zenon DEF Balance
  <2> HIDE DEF n, m, n2, m2
  <2>4. Gpus \in Nat /\ Tokens \in Nat /\ spent \in Nat
    BY Zenon, TaskConfig DEF PoolType, PoolsType
  <2>5. gpu' = Gpus - n2
    BY <2>1, <2>2, <2>3, <2>4
  <2>6. overdrawn' \/ tok' = Tokens - spent' - m2
    BY <2>1, <2>2, <2>3, <2>4
  <2> QED BY Zenon, <2>5, <2>6 DEF n2, m2
<1> QED BY Zenon, <1>3, <1>4 DEF Balance

\* What it gives back is there again, less what it used, or what it used without
\* a reservation is booked: the clamps of give_back bite only in a pool that has
\* been overdrawn.
LEMMA GiveBalances ==
  ASSUME PoolType, Balance, NEW t \in Tasks, t \in Holding, Holding' = Holding \ {t},
         open' = [open EXCEPT ![t] = FALSE],
         NEW used \in Usage(t), Release(t, used)
  PROVE  Balance'
<1>1. Holding' \in SUBSET Tasks /\ t \notin Holding' /\ Holding = Holding' \cup {t}
  BY Zenon DEF Holding
<1>2. Leased(Need) = Leased(Need)' + Need[t] /\ Leased(Reserve) = Leased(Reserve)' + Reserve[t]
  BY Zenon, <1>1, UnitsAdd, TaskConfig DEF Leased
<1>3. Holding' = {x \in Tasks : open'[x]}
  BY Zenon DEF Balance, PoolType
<1>4. gpu' = Gpus - Leased(Need)' /\ (overdrawn' \/ tok' = Tokens - spent' - Leased(Reserve)')
  <2>1. Need[t] \in Nat /\ Reserve[t] \in Nat
    BY Zenon, TaskConfig
  <2> DEFINE n == Leased(Need)
             m == Leased(Reserve)
             n2 == Leased(Need)'
             m2 == Leased(Reserve)'
  <2>2. n \in Nat /\ m \in Nat /\ n2 \in Nat /\ m2 \in Nat /\ n = n2 + Need[t] /\ m = m2 + Reserve[t]
    BY Zenon, <1>2, LeasedNat
  <2>3. gpu = Gpus - n /\ (overdrawn \/ tok = Tokens - spent - m)
    BY Zenon DEF Balance
  <2> HIDE DEF n, m, n2, m2
  <2>4. gpu' = Gpus - n2
    BY <2>1, <2>2, <2>3, TaskConfig DEF PoolType, Release, AtMost
  <2>5. overdrawn' = (overdrawn \/ tok' < 0)
    BY Zenon DEF Release
  <2>6. CASE Reserve[t] > 0
    <3>1. used \in 0 .. Reserve[t]
      BY Zenon, <2>6 DEF Usage
    <3>2. /\ tok' = AtMost(tok + (Reserve[t] - used), Tokens)
          /\ spent' = AtMost(spent + used, Tokens)
      BY Zenon, <2>6 DEF Release
    <3>3. overdrawn' \/ tok' = Tokens - spent' - m2
      BY <2>1, <2>2, <2>3, <2>5, <3>1, <3>2, TaskConfig DEF PoolType, PoolsType, AtMost
    <3> QED BY Zenon, <2>4, <3>3 DEF n2, m2
  <2>7. CASE ~(Reserve[t] > 0)
    <3>1. used \in Nat
      BY <2>7, TaskConfig DEF Usage
    <3>2. tok' = tok - used /\ spent' = spent + used
      BY Zenon, <2>7 DEF Release
    <3>3. overdrawn' \/ tok' = Tokens - spent' - m2
      BY <2>1, <2>2, <2>3, <2>5, <2>7, <3>1, <3>2, TaskConfig DEF PoolType, PoolsType
    <3> QED BY Zenon, <2>4, <3>3 DEF n2, m2
  <2> QED BY Zenon, <2>6, <2>7
<1> QED BY Zenon, <1>3, <1>4 DEF Balance

\* Nothing moves.
LEMMA RestBalances ==
  ASSUME Balance, Holding' = Holding, UNCHANGED <<open, pools>>
  PROVE  Balance'
  BY Zenon DEF Balance, Leased, pools

\* The pools keep their type when nothing moves.
LEMMA PoolsRest ==
  PoolType /\ UNCHANGED pools => PoolsType'
<1>1. UNCHANGED pools => UNCHANGED <<gpu, tok, spent, overdrawn>>
  BY Zenon DEF pools
<1> QED BY <1>1 DEF PoolType, PoolsType

\* try_dispatch moves only waiting tasks, and only to wait elsewhere.
LEMMA PassLands ==
  ASSUME NEW st \in [Tasks -> Statuses], TryDispatch(st)
  PROVE  /\ status' \in [Tasks -> Statuses] /\ pass' \in SUBSET Tasks
         /\ \A x \in Tasks : status'[x] = st[x] \/ (st[x] \in Waiting /\ status'[x] \in Waiting)
         /\ Holding' = {x \in Tasks : st[x] \in Phases \cup {"stopping"}}
<1>1. \A x \in Tasks : status'[x] = IF st[x] \in Waiting THEN Landing(x) ELSE st[x]
  BY Zenon DEF TryDispatch
<1>2. \A x \in Tasks : Landing(x) \in Waiting
  BY Zenon DEF Landing, Waiting
<1>3. \A x \in Tasks : status'[x] = st[x] \/ (st[x] \in Waiting /\ status'[x] \in Waiting)
  BY Zenon, <1>1, <1>2
<1>4. status' \in [Tasks -> Statuses] /\ pass' \in SUBSET Tasks
  BY Zenon, <1>2 DEF TryDispatch, Statuses
<1>5. \A x \in Tasks : status'[x] \in Phases \cup {"stopping"} <=> st[x] \in Phases \cup {"stopping"}
  BY Zenon, <1>3 DEF Waiting, Phases
<1> QED BY Zenon, <1>3, <1>4, <1>5 DEF Holding

\* _release stays within the capacities, and a charge below zero is remembered.
LEMMA ReleaseType ==
  ASSUME PoolType, NEW t \in Tasks, NEW used \in Usage(t), Release(t, used)
  PROVE  PoolsType'
<1>1. Need[t] \in Nat /\ Reserve[t] \in Nat
  BY Zenon, TaskConfig
<1>2. gpu' \in 0 .. Gpus
  BY <1>1, TaskConfig DEF PoolType, PoolsType, Release, AtMost
<1>3. tok \in Int /\ tok <= Tokens /\ spent \in Nat /\ overdrawn \in BOOLEAN
  BY Zenon DEF PoolType, PoolsType
<1>4. CASE Reserve[t] > 0
  <2>1. used \in 0 .. Reserve[t]
    BY Zenon, <1>4 DEF Usage
  <2>2. /\ tok' = AtMost(tok + (Reserve[t] - used), Tokens)
        /\ spent' = AtMost(spent + used, Tokens)
    BY Zenon, <1>4 DEF Release
  <2>3. tok' \in Int /\ tok' <= Tokens /\ spent' \in Nat
    BY <1>1, <1>3, <2>1, <2>2, TaskConfig DEF AtMost
  <2> QED BY Zenon, <1>2, <2>3 DEF PoolsType, Release
<1>5. CASE ~(Reserve[t] > 0)
  <2>1. used \in Nat
    BY <1>5, TaskConfig DEF Usage
  <2>2. tok' = tok - used /\ spent' = spent + used
    BY Zenon, <1>5 DEF Release
  <2>3. tok' \in Int /\ tok' <= Tokens /\ spent' \in Nat
    BY <1>3, <2>1, <2>2, TaskConfig
  <2> QED BY Zenon, <1>2, <2>3 DEF PoolsType, Release
<1> QED BY Zenon, <1>4, <1>5

\* submit and resume_task take a task that holds nothing, and leave it waiting.
LEMMA WaitKeeps ==
  ASSUME PoolType, NEW t \in Tasks, status[t] \notin Phases \cup {"stopping"},
         TryDispatch([status EXCEPT ![t] = "waiting_handoff"]),
         UNCHANGED <<open, tries, pools>>
  PROVE  PoolType' /\ (Balance => Balance')
<1> DEFINE st == [status EXCEPT ![t] = "waiting_handoff"]
<1>1. st \in [Tasks -> Statuses]
  BY Zenon DEF PoolType, Statuses, Waiting
<1>2. \A x \in Tasks : st[x] = IF x = t THEN "waiting_handoff" ELSE status[x]
  BY Zenon DEF PoolType
<1>3. TryDispatch(st)
  BY Zenon
<1> HIDE DEF st
<1>4. /\ status' \in [Tasks -> Statuses] /\ pass' \in SUBSET Tasks
      /\ Holding' = {x \in Tasks : st[x] \in Phases \cup {"stopping"}}
  BY Zenon, <1>1, <1>3, PassLands
<1>5. Holding' = Holding
  BY Zenon, <1>2, <1>4 DEF Holding, Phases
<1>6. PoolType'
  BY Zenon, <1>4, PoolsRest DEF PoolType
<1> QED BY Zenon, <1>5, <1>6, RestBalances

\* on_task_done, and on_stopped after a stop that was acknowledged: the task is
\* closed and its leases come back.
LEMMA CloseKeeps ==
  ASSUME PoolType, NEW t \in Tasks, status[t] \in Phases, open[t],
         NEW s \in {"succeeded", "failed", "suspended"}, NEW used \in Usage(t),
         Release(t, used), open' = [open EXCEPT ![t] = FALSE],
         TryDispatch([status EXCEPT ![t] = s]), UNCHANGED tries
  PROVE  PoolType' /\ (Balance => Balance')
<1> DEFINE st == [status EXCEPT ![t] = s]
<1>1. st \in [Tasks -> Statuses]
  BY Zenon DEF PoolType, Statuses, Resumable
<1>2. \A x \in Tasks : st[x] = IF x = t THEN s ELSE status[x]
  BY Zenon DEF PoolType
<1>3. TryDispatch(st)
  BY Zenon
<1> HIDE DEF st
<1>4. /\ status' \in [Tasks -> Statuses] /\ pass' \in SUBSET Tasks
      /\ Holding' = {x \in Tasks : st[x] \in Phases \cup {"stopping"}}
  BY Zenon, <1>1, <1>3, PassLands
<1>5. t \in Holding /\ Holding' = Holding \ {t}
  BY Zenon, <1>2, <1>4 DEF Holding, Phases
<1>6. PoolsType'
  BY Zenon, ReleaseType
<1>7. open' \in [Tasks -> BOOLEAN]
  BY Zenon DEF PoolType
<1>8. PoolType'
  BY Zenon, <1>4, <1>6, <1>7 DEF PoolType
<1> QED BY Zenon, <1>5, <1>8, GiveBalances

\* A task whose status says it holds leases has an attempt to close.
LEMMA HoldersOpen ==
  ASSUME Balance, NEW t \in Tasks
  PROVE  open[t] <=> status[t] \in Phases \cup {"stopping"}
  BY Zenon DEF Balance, Holding

\* on_task_done keeps the balance: what it accepts it closes, and where nothing
\* raced it refuses no task that holds leases.
LEMMA DoneKeeps ==
  ASSUME PoolType, NEW t \in Tasks, NEW s \in {"succeeded", "failed"}, NEW used \in Usage(t),
         OnTaskDone(t, s, used)
  PROVE  PoolType' /\ (Balance => Balance')
<1>1. CASE Accepts(t)
  <2>1. /\ status[t] \in Phases /\ open[t] /\ Release(t, used)
        /\ open' = [open EXCEPT ![t] = FALSE] /\ TryDispatch([status EXCEPT ![t] = s])
        /\ UNCHANGED tries
    BY Zenon, <1>1 DEF OnTaskDone, Accepts
  <2>2. s \in {"succeeded", "failed", "suspended"}
    BY Zenon
  <2> QED BY Zenon, <2>1, <2>2, CloseKeeps
<1>2. CASE status[t] \in Phases /\ ~open[t]
  <2>1. Release(t, used) /\ UNCHANGED <<open, status, pass, tries>>
    BY Zenon, <1>2 DEF OnTaskDone, Accepts
  <2>2. PoolType'
    BY Zenon, <2>1, ReleaseType DEF PoolType
  <2>3. ~Balance
    BY Zenon, <1>2, HoldersOpen
  <2> QED BY Zenon, <2>2, <2>3
<1>3. CASE status[t] \notin Phases
  <2>1. UNCHANGED <<open, status, pass, tries, pools>>
    BY Zenon, <1>3 DEF OnTaskDone, Accepts
  <2>2. Holding' = Holding
    BY Zenon, <2>1 DEF Holding
  <2>3. PoolType'
    BY Zenon, <2>1, PoolsRest DEF PoolType
  <2> QED BY Zenon, <2>1, <2>2, <2>3, RestBalances
<1> QED BY Zenon, <1>1, <1>2, <1>3 DEF Accepts

\* stop keeps the balance, whether the runner acknowledges it or raises.
LEMMA StopKeeps ==
  ASSUME PoolType, NEW t \in Tasks, Stop(t) \/ StopRaises(t)
  PROVE  PoolType' /\ (Balance => Balance')
<1>1. CASE StopRaises(t)
  <2>1. /\ status[t] \in Phases /\ status' = [status EXCEPT ![t] = "stopping"]
        /\ UNCHANGED <<open, tries, pools, pass>>
    BY Zenon, <1>1 DEF StopRaises
  <2>2. Holding' = Holding
    BY Zenon, <2>1 DEF Holding, PoolType
  <2>3. PoolType'
    BY Zenon, <2>1, PoolsRest DEF PoolType, Statuses
  <2> QED BY Zenon, <2>1, <2>2, <2>3, RestBalances
<1>2. CASE Stop(t) /\ open[t]
  <2>1. /\ status[t] \in Phases /\ Release(t, Reserve[t])
        /\ open' = [open EXCEPT ![t] = FALSE] /\ TryDispatch([status EXCEPT ![t] = "suspended"])
        /\ UNCHANGED tries
    BY Zenon, <1>2 DEF Stop
  <2>2. Reserve[t] \in Usage(t)
    BY TaskConfig DEF Usage
  <2> QED BY Zenon, <1>2, <2>1, <2>2, CloseKeeps
<1>3. CASE Stop(t) /\ ~open[t]
  <2>1. /\ status[t] \in Phases /\ Release(t, Reserve[t])
        /\ status' = [status EXCEPT ![t] = "stopping"] /\ UNCHANGED <<open, pass, tries>>
    BY Zenon, <1>3 DEF Stop
  <2>2. Reserve[t] \in Usage(t)
    BY TaskConfig DEF Usage
  <2>3. PoolsType'
    BY Zenon, <2>1, <2>2, ReleaseType
  <2>4. status' \in [Tasks -> Statuses]
    BY Zenon, <2>1 DEF PoolType, Statuses
  <2>5. ~Balance
    BY Zenon, <1>3, <2>1, HoldersOpen
  <2> QED BY Zenon, <2>1, <2>3, <2>4, <2>5 DEF PoolType
<1> QED BY Zenon, <1>1, <1>2, <1>3

\* A look of the dispatch pass.
LEMMA LookKeeps ==
  ASSUME PoolType, NEW t \in Tasks, NEW pushed \in BOOLEAN,
         PassOver(t) \/ Demote(t) \/ Launch(t) \/ AbortLaunch(t, pushed)
  PROVE  PoolType' /\ (Balance => Balance')
<1>1. pass' \in SUBSET Tasks
  BY Zenon DEF PassOver, Demote, Launch, AbortLaunch, Look, PoolType
<1>2. CASE PassOver(t)
  <2>1. Holding' = Holding /\ UNCHANGED <<status, open, tries, pools>>
    BY Zenon, <1>2 DEF PassOver, Holding
  <2> QED BY Zenon, <1>1, <2>1, RestBalances, PoolsRest DEF PoolType
<1>3. CASE Demote(t)
  <2>1. /\ status[t] = "waiting_resource" /\ status' = [status EXCEPT ![t] = "waiting_handoff"]
        /\ UNCHANGED <<open, tries, pools>>
    BY Zenon, <1>3 DEF Demote
  <2>2. status' \in [Tasks -> Statuses] /\ Holding' = Holding
    BY Zenon, <2>1 DEF PoolType, Holding, Phases, Statuses, Waiting
  <2> QED BY Zenon, <1>1, <2>1, <2>2, RestBalances, PoolsRest DEF PoolType
<1>4. CASE Launch(t)
  <2>1. /\ status[t] = "waiting_resource" /\ status' = [status EXCEPT ![t] = "input_validating"]
        /\ open' = [open EXCEPT ![t] = TRUE] /\ tries' = [tries EXCEPT ![t] = @ + 1]
        /\ gpu' = gpu - Need[t] /\ tok' = tok - Reserve[t]
        /\ spent' = spent /\ overdrawn' = overdrawn
        /\ Need[t] <= gpu /\ (Reserve[t] > 0 => Reserve[t] <= tok)
    BY Zenon, <1>4 DEF Launch, Eligible, CanAfford
  <2>2. /\ status' \in [Tasks -> Statuses] /\ t \notin Holding /\ Holding' = Holding \cup {t}
    BY Zenon, <2>1 DEF PoolType, Holding, Phases, Statuses
  <2>3. PoolsType'
    <3>1. Need[t] \in Nat /\ Reserve[t] \in Nat
      BY Zenon, TaskConfig
    <3> QED BY <2>1, <3>1, TaskConfig DEF PoolType, PoolsType
  <2>4. tries' \in [Tasks -> Nat] /\ open' \in [Tasks -> BOOLEAN]
    BY <2>1 DEF PoolType
  <2>5. PoolType'
    BY Zenon, <1>1, <2>1, <2>2, <2>3, <2>4 DEF PoolType
  <2> QED BY Zenon, <2>1, <2>2, <2>5, TakeBalances
<1>5. CASE AbortLaunch(t, pushed)
  <2>1. /\ status[t] = "waiting_resource" /\ status' = [status EXCEPT ![t] = "failed"]
        /\ open' = [open EXCEPT ![t] = FALSE] /\ UNCHANGED <<gpu, tok, overdrawn>>
        /\ tries' = [tries EXCEPT ![t] = IF pushed THEN @ + 1 ELSE @]
        /\ spent' = IF Reserve[t] > 0 THEN AtMost(spent, Tokens) ELSE spent
    BY Zenon, <1>5 DEF AbortLaunch, Eligible
  <2>2. /\ status' \in [Tasks -> Statuses] /\ open' \in [Tasks -> BOOLEAN]
        /\ Holding' = Holding
    BY Zenon, <2>1 DEF PoolType, Holding, Phases, Statuses, Resumable
  <2>3. PoolsType'
    BY <2>1, TaskConfig DEF PoolType, PoolsType, AtMost
  <2>4. tries' \in [Tasks -> Nat]
    BY <2>1 DEF PoolType
  <2>5. PoolType'
    BY Zenon, <1>1, <2>2, <2>3, <2>4 DEF PoolType
  <2>6. ASSUME Balance PROVE Balance'
    <3>1. ~open[t]
      BY Zenon, <2>1, <2>6, HoldersOpen DEF Phases
    <3>2. open' = open
      BY Zenon, <2>1, <3>1 DEF PoolType
    <3>3. Leased(Need)' = Leased(Need) /\ Leased(Reserve)' = Leased(Reserve)
      BY Zenon, <2>2 DEF Leased
    <3> DEFINE n == Leased(Reserve)
    <3>4. n \in Nat /\ (overdrawn \/ tok = Tokens - spent - n)
      BY Zenon, <2>6, LeasedNat DEF Balance
    <3> HIDE DEF n
    <3>5. overdrawn' \/ tok' = Tokens - spent' - n
      BY <2>1, <3>4, TaskConfig DEF PoolType, PoolsType, AtMost
    <3> QED BY Zenon, <2>1, <2>2, <2>6, <3>2, <3>3, <3>5 DEF Balance, n
  <2> QED BY Zenon, <2>5, <2>6
<1> QED BY Zenon, <1>2, <1>3, <1>4, <1>5

\* resume_all: no lease survives, and none is remembered.  What is left of the
\* tokens is what was not spent, unless more was.
LEMMA ResumeKeeps ==
  ASSUME PoolType, Resume
  PROVE  PoolType' /\ (Balance => Balance')
<1> DEFINE st == [t \in Tasks |-> IF status[t] \in Phases THEN "waiting_resource"
                                  ELSE IF status[t] = "stopping" THEN "suspended" ELSE status[t]]
<1>1. st \in [Tasks -> Statuses]
  BY Zenon DEF PoolType, Statuses, Waiting, Resumable
<1>2. \A x \in Tasks : st[x] \notin Phases \cup {"stopping"}
  BY Zenon DEF PoolType, Phases
<1>3. TryDispatch(st)
  BY Zenon DEF Resume
<1> HIDE DEF st
<1>4. /\ status' \in [Tasks -> Statuses] /\ pass' \in SUBSET Tasks
      /\ Holding' = {x \in Tasks : st[x] \in Phases \cup {"stopping"}}
  BY Zenon, <1>1, <1>3, PassLands
<1>5. Holding' = {}
  BY Zenon, <1>2, <1>4
<1>6. Units(Need, {}) = {} /\ Units(Reserve, {}) = {}
  BY Zenon DEF Units
<1>7. Leased(Need)' = 0 /\ Leased(Reserve)' = 0
  BY Zenon, <1>5, <1>6, FS_EmptySet DEF Leased
<1>8. /\ open' = [t \in Tasks |-> FALSE] /\ gpu' = Gpus
      /\ tok' = (IF spent <= Tokens THEN Tokens - spent ELSE 0)
      /\ UNCHANGED <<tries, spent, overdrawn>>
  BY Zenon DEF Resume
<1>9. PoolsType'
  BY <1>8, TaskConfig DEF PoolType, PoolsType
<1>10. PoolType'
  BY Zenon, <1>4, <1>8, <1>9 DEF PoolType
<1>11. Holding' = {x \in Tasks : open'[x]}
  BY Zenon, <1>5, <1>8
<1>12. ASSUME Balance PROVE overdrawn' \/ tok' = Tokens - spent' - Leased(Reserve)'
  <2> DEFINE n == Leased(Reserve)
  <2>1. n \in Nat /\ (overdrawn \/ tok = Tokens - spent - n)
    BY Zenon, <1>12, LeasedNat DEF Balance
  <2> HIDE DEF n
  <2>2. overdrawn' \/ tok' = Tokens - spent' - 0
    BY <1>8, <2>1, TaskConfig DEF PoolType, PoolsType
  <2> QED BY Zenon, <1>7, <2>2
<1>13. gpu' = Gpus - Leased(Need)'
  BY <1>7, <1>8, TaskConfig
<1> QED BY Zenon, <1>10, <1>11, <1>12, <1>13 DEF Balance
-----------------------------------------------------------------------------
(* Types *)

\* The parts are the whole.
LEMMA TypesAreTypeOK == TypeOK <=> PoolType /\ RestType
  BY Zenon DEF TypeOK, SchedulerTypeOK, PoolType, PoolsType, RestType, ThreadType, FileType, MonitorType,
               CliType, WhyType, Moves

\* A note keeps the type of the history.
LEMMA NoteType ==
  ASSUME WhyType, NEW t \in Tasks, NEW reason \in Reasons, Note(t, reason)
  PROVE  WhyType' /\ Remembers
  BY Zenon DEF WhyType, Note, Remembers

\* So does no note.
LEMMA NoNoteType ==
  ASSUME WhyType, UNCHANGED why
  PROVE  WhyType' /\ Remembers
  BY Zenon DEF WhyType, Remembers

\* What is spent was there.
LEMMA SpendType ==
  ASSUME CliType, NEW what \in Bounded, Spend(what)
  PROVE  budget' \in [Bounded -> Nat]
<1>1. budget[what] \in Nat /\ budget[what] > 0
  BY Zenon DEF CliType, Spend
<1>2. budget[what] - 1 \in Nat
  BY <1>1
<1> QED BY Zenon, <1>2 DEF CliType, Spend

\* A thread goes to one of its places.
LEMMA GotoType ==
  ASSUME ThreadType, NEW a \in Attempts, NEW l \in Live \cup {"none"}, Goto(a, l)
  PROVE  pc' \in [Attempts -> Live \cup {"none"}]
  BY Zenon DEF ThreadType, Goto

\* halt sets flags.
LEMMA HaltType ==
  ASSUME ThreadType, NEW these, Halt(these)
  PROVE  halted' \in [Attempts -> BOOLEAN] /\ woken' \in [Attempts -> BOOLEAN]
  BY Zenon DEF ThreadType, Halt

\* A queue with one more record is a queue.
LEMMA AppendType ==
  ASSUME NEW S, NEW q \in Seq(S), NEW n \in S
  PROVE  Append(q, n) \in Seq(S)
  OBVIOUS

\* A record of an attempt is one the monitor can read.
LEMMA PlannedType ==
  ASSUME PoolType, RestType, NEW a \in Attempts, NEW next \in Live, ReportPlanned(a, next)
  PROVE  pc' \in [Attempts -> Live \cup {"none"}] /\ MonitorType' /\ WhyType' /\ Remembers
<1>1. a[1] \in Tasks /\ a[2] \in 1 .. MaxAttempts
  BY Zenon DEF Attempts
<1>2. status[a[1]] \in Statuses
  BY Zenon, <1>1 DEF PoolType
<1>3. WhyType' /\ Remembers
  BY Zenon, <1>1, NoteType, NoNoteType DEF ReportPlanned, RestType, Reasons
<1>4. "crash" \in Live
  BY Zenon DEF Live
<1>5. pc' \in [Attempts -> Live \cup {"none"}]
  BY Zenon, <1>4, GotoType DEF ReportPlanned, RestType
<1> DEFINE r == [kind |-> "phase_done", task |-> a[1], attempt |-> a[2], phase |-> status[a[1]]]
<1>6. r \in Records
  BY Zenon, <1>1, <1>2 DEF Records
<1>7. planned' = planned \/ planned' = Append(planned, r)
  BY Zenon DEF ReportPlanned
<1> HIDE DEF r
<1>8. planned' \in Seq(Records)
  BY <1>6, <1>7 DEF RestType, MonitorType
<1> QED BY Zenon, <1>3, <1>5, <1>8 DEF ReportPlanned, RestType, MonitorType

\* A refusal, and an exception, are steps to a place of the thread.
LEMMA RefusalType ==
  ASSUME RestType, NEW a \in Attempts, NEW next \in Live, ReportRefusal(a, next) \/ Raise(a)
  PROVE  /\ pc' \in [Attempts -> Live \cup {"none"}] /\ MonitorType' /\ WhyType' /\ Remembers
         /\ budget' \in [Bounded -> Nat]
<1>1. a[1] \in Tasks
  BY Zenon DEF Attempts
<1>2. WhyType' /\ Remembers
  BY Zenon, <1>1, NoteType, NoNoteType DEF ReportRefusal, Raise, RestType, Reasons
<1>3. "crash" \in Live /\ "refusals" \in Bounded
  BY Zenon DEF Live, Bounded
<1>4. pc' \in [Attempts -> Live \cup {"none"}]
  BY Zenon, <1>3, GotoType DEF ReportRefusal, Raise, RestType
<1>5. budget' \in [Bounded -> Nat]
  BY Zenon, <1>3, SpendType DEF ReportRefusal, Raise, RestType
<1> QED BY Zenon, <1>2, <1>4, <1>5 DEF ReportRefusal, Raise, RestType, MonitorType, monitor

\* Some of it is sealed, and the rest is left open for nobody.
Sealing(a, passed, S) ==
    /\ slot' = [h \in Slots |-> IF h \in S THEN Verdict(a, passed, h) ELSE slot[h]]
    /\ holds' = [holds EXCEPT ![a] = FALSE]
    /\ orphan' = orphan \cup {h \in Mine(a) \ S : slot[h] = "generating"}

\* _seal_model_versions, taken apart: all is sealed, or some of it.
LEMMA SealParts ==
  ASSUME NEW a, NEW passed, NEW next, NEW otherwise, SealAs(a, passed, next, otherwise)
  PROVE  /\ \E S \in SUBSET Mine(a) :
               /\ Sealing(a, passed, S)
               /\ (S = Mine(a) /\ Goto(a, next)) \/ Goto(a, otherwise)
         /\ UNCHANGED budget \/ Spend("refusals")
         /\ UNCHANGED <<scheduler, stored, sealed, current, halted, woken, monitor, todo>>
<1> DEFINE left == {h \in Mine(a) : slot[h] = "generating"}
<1>1. PICK S \in SUBSET left :
         /\ slot' = [h \in Slots |-> IF h \in S THEN Verdict(a, passed, h) ELSE slot[h]]
         /\ orphan' = orphan \cup (left \ S)
         /\ (S = Mine(a) /\ Goto(a, next) /\ UNCHANGED budget)
            \/ ((UNCHANGED budget \/ Spend("refusals")) /\ Goto(a, otherwise))
  BY Zenon DEF SealAs
<1>2. left \ S = {h \in Mine(a) \ S : slot[h] = "generating"} /\ S \in SUBSET Mine(a)
  BY Zenon
<1> HIDE DEF left
<1>3. holds' = [holds EXCEPT ![a] = FALSE]
  BY Zenon DEF SealAs
<1>4. Sealing(a, passed, S)
  BY Zenon, <1>1, <1>2, <1>3 DEF Sealing
<1>5. UNCHANGED <<scheduler, stored, sealed, current, halted, woken, monitor, todo>>
  BY Zenon DEF SealAs
<1> QED BY Zenon, <1>1, <1>2, <1>4, <1>5

\* The three that seal.
LEMMA Sealers ==
  ASSUME NEW a, Seal(a) \/ Reject(a) \/ Exit(a)
  PROVE  /\ \E p \in BOOLEAN, k, l \in {"done", "exit", "crash", "none"} : SealAs(a, p, k, l)
         /\ Note(a[1], "hollow") \/ UNCHANGED why
  BY Zenon DEF Seal, Reject, Exit

\* Sealing leaves statuses of slots.
LEMMA SealType ==
  ASSUME RestType, NEW a \in Attempts, Seal(a) \/ Reject(a) \/ Exit(a)
  PROVE  ThreadType' /\ FileType' /\ MonitorType' /\ CliType'
<1>1. PICK p \in BOOLEAN, k, l \in {"done", "exit", "crash", "none"} : SealAs(a, p, k, l)
  BY Zenon, Sealers
<1>2. PICK S \in SUBSET Mine(a) : Sealing(a, p, S) /\ (Goto(a, k) \/ Goto(a, l))
  BY Zenon, <1>1, SealParts
<1>3. /\ UNCHANGED budget \/ Spend("refusals")
      /\ UNCHANGED <<scheduler, stored, sealed, current, halted, woken, monitor, todo>>
  BY Zenon, <1>1, SealParts
<1>4. k \in Live \cup {"none"} /\ l \in Live \cup {"none"} /\ "refusals" \in Bounded
  BY Zenon DEF Live, Bounded
<1>5. pc' \in [Attempts -> Live \cup {"none"}]
  BY Zenon, <1>2, <1>4, GotoType DEF RestType
<1>6. budget' \in [Bounded -> Nat]
  BY Zenon, <1>3, <1>4, SpendType DEF RestType, CliType
<1>7. slot' \in [Slots -> SlotStatuses]
  BY Zenon, <1>2 DEF Sealing, Verdict, RestType, FileType, SlotStatuses
<1>8. holds' \in [Attempts -> BOOLEAN]
  BY Zenon, <1>2 DEF Sealing, RestType, ThreadType
<1>9. orphan' \in SUBSET Slots
  <2>1. Outputs[a[1]] \in SUBSET Slots
    BY Zenon, TaskConfig DEF Attempts
  <2> QED BY Zenon, <1>2, <2>1 DEF Sealing, Mine, RestType, CliType
<1> QED BY Zenon, <1>3, <1>5, <1>6, <1>7, <1>8, <1>9 DEF RestType, ThreadType, FileType,
                                                   MonitorType, CliType, monitor

\* A launch that fails leaves the attempt in the map that was there, or one that
\* it has pushed.
LEMMA FailedLaunch ==
  ASSUME PoolType, NEW t \in Tasks, LaunchFails(t)
  PROVE  /\ \E pushed \in BOOLEAN : AbortLaunch(t, pushed)
         /\ \/ current' = current
            \/ /\ current' = [current EXCEPT ![t] = tries[t] + 1]
               /\ tries' = [tries EXCEPT ![t] = @ + 1]
               /\ tries[t] + 1 \in 0 .. MaxAttempts
<1>1. PICK pushed \in BOOLEAN :
         /\ pushed => tries[t] < MaxAttempts
         /\ AbortLaunch(t, pushed)
         /\ UNCHANGED current \/ (pushed /\ current' = [current EXCEPT ![t] = tries'[t]])
  BY Zenon DEF LaunchFails
<1>2. CASE pushed /\ current' = [current EXCEPT ![t] = tries'[t]]
  <2>1. tries' = [tries EXCEPT ![t] = @ + 1]
    BY Zenon, <1>1, <1>2 DEF AbortLaunch
  <2>2. tries'[t] = tries[t] + 1
    BY Zenon, <2>1 DEF PoolType
  <2>3. tries[t] \in Nat /\ tries[t] < MaxAttempts
    BY Zenon, <1>1, <1>2 DEF PoolType
  <2>4. tries[t] + 1 \in 0 .. MaxAttempts
    BY <2>3, AttemptConfig
  <2> QED BY Zenon, <1>1, <1>2, <2>1, <2>2, <2>4
<1> QED BY Zenon, <1>1, <1>2

\* The steps of the scheduler.
LEMMA OperationType ==
  ASSUME PoolType, RestType, NEW t \in Tasks,
         \/ Start(t) \/ Skip(t) \/ LaunchAttempt(t) \/ LaunchFails(t)
         \/ StopTask(t) \/ FailTask(t) \/ RestartTask(t)
  PROVE  RestType' /\ Remembers
<1>1. CASE Start(t)
  <2>1. slot' \in [Slots -> SlotStatuses]
    BY Zenon, <1>1 DEF Start, Submit, RestType, FileType, SlotStatuses
  <2>2. todo' \in SUBSET Tasks
    BY Zenon, <1>1 DEF Start, RestType, CliType
  <2> QED BY Zenon, <1>1, <2>1, <2>2, NoNoteType DEF Start, RestType, ThreadType, FileType,
                                                     MonitorType,
                                                  CliType, attempt, monitor
<1>2. CASE Skip(t)
  BY Zenon, <1>2, NoNoteType DEF Skip, RestType, ThreadType, FileType, MonitorType, CliType,
                                 files, attempt, monitor, cli
<1>3. CASE LaunchAttempt(t)
  <2> DEFINE n == tries[t] + 1
  <2>1. n \in 1 .. MaxAttempts
    <3>1. tries[t] \in Nat /\ tries[t] < MaxAttempts
      BY Zenon, <1>3 DEF LaunchAttempt, PoolType
    <3> QED BY <3>1, AttemptConfig
  <2>2. current' = [current EXCEPT ![t] = n] /\ pc' = [pc EXCEPT ![<<t, n>>] = "loop"]
    BY Zenon, <1>3 DEF LaunchAttempt
  <2> HIDE DEF n
  <2>3. current' \in [Tasks -> 0 .. MaxAttempts]
    <3>1. n \in 0 .. MaxAttempts
      BY <2>1
    <3> QED BY Zenon, <2>2, <3>1 DEF RestType, ThreadType
  <2>4. pc' \in [Attempts -> Live \cup {"none"}]
    BY Zenon, <2>2 DEF RestType, ThreadType, Live
  <2>5. WhyType' /\ Remembers
    BY Zenon, <1>3 DEF LaunchAttempt, RestType, WhyType, Remembers, Reasons
  <2> QED BY Zenon, <1>3, <2>3, <2>4, <2>5 DEF LaunchAttempt, RestType, ThreadType, FileType,
                                               MonitorType, CliType, files, monitor, cli
<1>4. CASE LaunchFails(t) \/ RestartTask(t)
  <2>1. budget' \in [Bounded -> Nat]
    BY Zenon, <1>4, SpendType DEF LaunchFails, RestartTask, RestType, Bounded
  <2>2. CASE RestartTask(t)
    BY Zenon, <2>1, <2>2, NoNoteType DEF RestartTask, RestType, ThreadType,
                                FileType, MonitorType, CliType, files, attempt, monitor
  <2>3. CASE LaunchFails(t)
    <3>1. current' \in [Tasks -> 0 .. MaxAttempts]
      BY Zenon, <2>3, FailedLaunch DEF RestType, ThreadType
    <3> QED BY Zenon, <2>1, <2>3, <3>1, NoNoteType DEF LaunchFails, RestType, ThreadType,
                                FileType, MonitorType, CliType, files, monitor
  <2> QED BY Zenon, <1>4, <2>2, <2>3
<1>5. CASE StopTask(t) \/ FailTask(t)
  <2>1. budget' \in [Bounded -> Nat]
    BY Zenon, <1>5, SpendType DEF StopTask, FailTask, RestType, Bounded
  <2>2. WhyType' /\ Remembers
    BY Zenon, <1>5, NoteType DEF StopTask, FailTask, RestType, Reasons
  <2>3. CASE FailTask(t)
    BY Zenon, <2>1, <2>2, <2>3 DEF FailTask, RestType, ThreadType, FileType, MonitorType,
                                   CliType,
                                   files, attempt, monitor
  <2>4. CASE StopTask(t)
    <3>1. halted' \in [Attempts -> BOOLEAN] /\ woken' \in [Attempts -> BOOLEAN]
      BY Zenon, <2>4, HaltType DEF StopTask, RestType
    <3>2. current' \in [Tasks -> 0 .. MaxAttempts]
      <4>1. 0 \in 0 .. MaxAttempts
        BY AttemptConfig
      <4> QED BY Zenon, <2>4, <4>1 DEF StopTask, RestType, ThreadType
    <3> QED BY Zenon, <2>1, <2>2, <2>4, <3>1, <3>2 DEF StopTask, RestType, ThreadType, FileType,
                                                       MonitorType, CliType, files, monitor
  <2> QED BY Zenon, <1>5, <2>3, <2>4
<1> QED BY Zenon, <1>1, <1>2, <1>3, <1>4, <1>5

\* The steps of an attempt's thread.
LEMMA ThreadStepType ==
  ASSUME PoolType, RestType, NEW a \in Attempts, Thread(a)
  PROVE  RestType' /\ Remembers
<1>1. a[1] \in Tasks
  BY Zenon DEF Attempts
<1> USE DEF RestType, ThreadType, FileType, MonitorType, CliType
<1>2. CASE Loop(a)
  <2>1. \E l \in Live \cup {"none"} : Goto(a, l)
    BY <1>2 DEF Loop, Live, Phases
  <2>2. pc' \in [Attempts -> Live \cup {"none"}]
    BY Zenon, <2>1, GotoType
  <2> QED BY Zenon, <1>2, <2>2, NoNoteType DEF Loop, files, monitor, cli
<1>3. CASE Input(a) \/ Output(a)
  <2>1. {"park", "seal", "exit", "reject"} \subseteq Live
    BY Zenon DEF Live
  <2>2. /\ pc' \in [Attempts -> Live \cup {"none"}] /\ MonitorType' /\ WhyType' /\ Remembers
        /\ budget' \in [Bounded -> Nat]
    BY Zenon, <1>3, <2>1, PlannedType, RefusalType DEF Input, Output
  <2> QED BY Zenon, <1>3, <2>2 DEF Input, Output, files
<1>4. CASE MainReleases(a)
  <2>1. pc' \in [Attempts -> Live \cup {"none"}]
    BY Zenon, <1>4, GotoType DEF MainReleases, Live
  <2>2. halted' \in [Attempts -> BOOLEAN] /\ woken' \in [Attempts -> BOOLEAN]
    BY Zenon, <1>4 DEF MainReleases
  <2> QED BY Zenon, <1>4, <2>1, <2>2, NoNoteType DEF MainReleases, files, monitor, cli
<1>5. CASE MainOpens(a)
  <2>1. /\ slot' \in [Slots -> SlotStatuses] /\ holds' \in [Attempts -> BOOLEAN]
        /\ orphan' \in SUBSET Slots
    <3>1. Outputs[a[1]] \in SUBSET Slots
      BY Zenon, <1>1, TaskConfig
    <3> QED BY Zenon, <1>5, <3>1 DEF MainOpens, Opening, SlotStatuses
  <2>2. {"body", "crash"} \subseteq Live
    BY Zenon DEF Live
  <2>3. /\ Goto(a, "body") \/ Goto(a, "crash")
        /\ Note(a[1], "stale") \/ UNCHANGED why
        /\ UNCHANGED budget \/ Spend("refusals")
        /\ UNCHANGED monitor
    BY Zenon, <1>5 DEF MainOpens
  <2>4. /\ pc' \in [Attempts -> Live \cup {"none"}] /\ MonitorType' /\ WhyType' /\ Remembers
        /\ budget' \in [Bounded -> Nat]
    <3>1. WhyType' /\ Remembers
      BY Zenon, <1>1, <2>3, NoteType, NoNoteType DEF Reasons
    <3>2. pc' \in [Attempts -> Live \cup {"none"}]
      BY Zenon, <2>2, <2>3, GotoType
    <3>3. budget' \in [Bounded -> Nat]
      BY Zenon, <2>3, SpendType DEF Bounded
    <3> QED BY Zenon, <2>3, <3>1, <3>2, <3>3 DEF monitor
  <2> QED BY Zenon, <1>5, <2>1, <2>4 DEF MainOpens
<1>6. CASE Body(a)
  <2>1. {"park", "gate", "exit"} \subseteq Live
    BY Zenon DEF Live
  <2>2. stored' \in SUBSET Slots /\ sealed' \in [Attempts -> SUBSET Slots]
    <3>1. Outputs[a[1]] \in SUBSET Slots
      BY Zenon, <1>1, TaskConfig
    <3> QED BY Zenon, <1>6, <3>1 DEF Body
  <2>3. \/ ReportRefusal(a, "gate") \/ Raise(a)
        \/ ReportPlanned(a, "park") /\ (UNCHANGED budget \/ Spend("refusals"))
        \/ Goto(a, "exit") /\ UNCHANGED <<monitor, budget, why>>
    BY Zenon, <1>6 DEF Body
  <2>4. /\ pc' \in [Attempts -> Live \cup {"none"}] /\ MonitorType' /\ WhyType' /\ Remembers
        /\ budget' \in [Bounded -> Nat]
    <3>1. CASE ReportRefusal(a, "gate") \/ Raise(a)
      BY Zenon, <2>1, <3>1, RefusalType
    <3>2. CASE ReportPlanned(a, "park") /\ (UNCHANGED budget \/ Spend("refusals"))
      <4>1. budget' \in [Bounded -> Nat]
        BY Zenon, <3>2, SpendType DEF Bounded
      <4>2. "park" \in Live
        BY Zenon, <2>1
      <4> QED BY Zenon, <3>2, <4>1, <4>2, PlannedType
    <3>3. CASE Goto(a, "exit") /\ UNCHANGED <<monitor, budget, why>>
      BY Zenon, <2>1, <3>3, GotoType, NoNoteType DEF monitor
    <3> QED BY Zenon, <2>3, <3>1, <3>2, <3>3
  <2> QED BY Zenon, <1>6, <2>2, <2>4 DEF Body
<1>7. CASE Awake(a)
  <2>1. \E l \in Live \cup {"none"} : Goto(a, l)
    BY Zenon, <1>7 DEF Awake, Live
  <2>2. pc' \in [Attempts -> Live \cup {"none"}]
    BY Zenon, <2>1, GotoType
  <2>3. woken' \in [Attempts -> BOOLEAN]
    BY Zenon, <1>7 DEF Awake
  <2> QED BY Zenon, <1>7, <2>2, <2>3, NoNoteType DEF Awake, files, monitor, cli
<1>8. CASE Seal(a) \/ Reject(a) \/ Exit(a)
  <2>1. ThreadType' /\ FileType' /\ MonitorType' /\ CliType'
    BY Zenon, <1>8, SealType
  <2>2. Note(a[1], "hollow") \/ UNCHANGED why
    BY Zenon, <1>8, Sealers
  <2>3. WhyType' /\ Remembers
    BY Zenon, <1>1, <2>2, NoteType, NoNoteType DEF Reasons
  <2> QED BY Zenon, <2>1, <2>3
<1>9. CASE Done(a) \/ Crash(a)
  <2>1. \E l \in Live \cup {"none"} : Goto(a, l)
    BY Zenon, <1>9 DEF Done, Crash, Live
  <2>2. pc' \in [Attempts -> Live \cup {"none"}]
    BY Zenon, <2>1, GotoType
  <2>3. Note(a[1], "stale") \/ UNCHANGED why
    BY Zenon, <1>9 DEF Done, Crash
  <2>4. WhyType' /\ Remembers
    BY Zenon, <1>1, <2>3, NoteType, NoNoteType DEF Reasons
  <2> QED BY Zenon, <1>9, <2>2, <2>4 DEF Done, Crash, files, monitor, cli
<1> QED BY Zenon, <1>2, <1>3, <1>4, <1>5, <1>6, <1>7, <1>8, <1>9 DEF Thread

\* The steps of the monitor's thread.
LEMMA MonitorStepType ==
  ASSUME PoolType, RestType, Monitor
  PROVE  RestType' /\ Remembers
<1> USE DEF RestType, ThreadType, FileType, MonitorType, CliType
<1>1. Idle \notin Moves
  BY Zenon DEF Idle, Moves
<1>2. mon # Idle => mon \in Moves
  BY Zenon
<1>3. CASE Take
  <2> DEFINE r == Head(planned)
  <2>1. planned # <<>> /\ r \in Records
    BY <1>3 DEF Take
  <2>2. r.task \in Tasks /\ (r.kind = "phase_done" => r.attempt \in 1 .. MaxAttempts)
    BY Zenon, <2>1 DEF Records
  <2>3. \/ planned' = Tail(planned)
        \/ /\ Parent[r.task] # None
           /\ planned' = Append(Tail(planned), [kind |-> "subgraph_done", task |-> Parent[r.task],
                                                 early |-> Early(r)])
    BY Zenon, <1>3 DEF Take, Announces
  <2>4. planned' \in Seq(Records)
    <3>1. Tail(planned) \in Seq(Records)
      BY <2>1
    <3>2. Parent[r.task] # None => Parent[r.task] \in Tasks
      BY Zenon, <2>2, TaskConfig
    <3> DEFINE q == Tail(planned)
               n == [kind |-> "subgraph_done", task |-> Parent[r.task], early |-> Early(r)]
    <3>3. Parent[r.task] # None => n \in Records
      BY Zenon, <3>2 DEF Records, Early, Hurried
    <3>4. planned' = q \/ (n \in Records /\ planned' = Append(q, n))
      BY Zenon, <2>3, <3>3
    <3>5. q \in Seq(Records)
      BY Zenon, <3>1
    <3> HIDE DEF q, n
    <3>6. n \in Records => Append(q, n) \in Seq(Records)
      BY Zenon, <3>5, AppendType
    <3> QED BY Zenon, <3>4, <3>5, <3>6
  <2>5. mon' \in {Idle} \cup Moves
    <3>1. CASE mon' = Idle
      BY Zenon, <3>1
    <3>2. CASE mon' # Idle
      <4> DEFINE k == IF r.kind = "phase_done" THEN r.attempt
                      ELSE IF status[r.task] = "running" THEN current[r.task] ELSE 0
      <4>1. /\ status[r.task] \in {"input_validating", "running"}
            /\ mon' = [at |-> "move", task |-> r.task, from |-> status[r.task], todo |-> {},
                       attempt |-> k]
        BY Zenon, <1>3, <3>2 DEF Take
      <4>2. k \in 0 .. MaxAttempts
        <5>1. current[r.task] \in 0 .. MaxAttempts /\ 0 \in 0 .. MaxAttempts
          BY <2>2, AttemptConfig
        <5>2. \A x \in 1 .. MaxAttempts : x \in 0 .. MaxAttempts
          BY AttemptConfig
        <5> QED BY Zenon, <2>2, <5>1, <5>2
      <4>3. status[r.task] \in Phases
        BY Zenon, <4>1 DEF Phases
      <4> HIDE DEF k
      <4> QED BY Zenon, <2>2, <4>1, <4>2, <4>3 DEF Moves
    <3> QED BY Zenon, <3>1, <3>2
  <2>6. WhyType' /\ Remembers
    BY Zenon, <1>3, <2>2, NoteType, NoNoteType DEF Take, Reasons
  <2> QED BY Zenon, <1>3, <2>4, <2>5, <2>6 DEF Take, files, attempt, cli
<1>4. CASE Move
  <2>1. mon \in Moves
    BY <1>2, <1>4 DEF Move, Idle
  <2>2. mon.task \in Tasks
    BY Zenon, <2>1 DEF Moves
  <2>3. mon' \in Moves
    <3>1. Children(mon.task) \in SUBSET Tasks
      BY Zenon DEF Children
    <3>2. \/ mon' = [mon EXCEPT !.at = "unfold", !.todo = Children(mon.task)]
          \/ mon' = [mon EXCEPT !.at = "carry"]
      BY Zenon, <1>4 DEF Move
    <3> QED BY Zenon, <2>1, <3>1, <3>2 DEF Moves
  <2>4. WhyType' /\ Remembers
    BY Zenon, <1>4, <2>2, NoteType, NoNoteType DEF Move, Reasons
  <2> QED BY Zenon, <1>4, <2>3, <2>4 DEF Move, files, attempt, cli
<1>5. ASSUME NEW c \in Tasks, Unfold(c) PROVE RestType' /\ Remembers
  <2>1. mon \in Moves
    BY <1>2, <1>5 DEF Unfold, Idle
  <2>2. mon.todo \in SUBSET Tasks
    BY Zenon, <2>1 DEF Moves
  <2>3. mon' \in Moves
    <3>1. mon.todo \ {c} \in SUBSET Tasks
      BY Zenon, <2>2
    <3>2. \/ mon' = [mon EXCEPT !.todo = mon.todo \ {c}, !.at = "carry"]
          \/ mon' = [mon EXCEPT !.todo = mon.todo \ {c}, !.at = mon.at]
      BY Zenon, <1>5 DEF Unfold
    <3> QED BY Zenon, <2>1, <3>1, <3>2 DEF Moves
  <2>4. slot' \in [Slots -> SlotStatuses]
    BY Zenon, <1>5 DEF Unfold, Submit, SlotStatuses
  <2> QED BY Zenon, <1>5, <2>3, <2>4, NoNoteType DEF Unfold, attempt, cli
<1>6. CASE UnfoldRaises
  <2>1. mon \in Moves
    BY <1>2, <1>6 DEF UnfoldRaises, Idle
  <2>2. mon.task \in Tasks
    BY Zenon, <2>1 DEF Moves
  <2>3. WhyType' /\ Remembers
    BY Zenon, <1>6, <2>2, NoteType DEF UnfoldRaises, Reasons
  <2>4. budget' \in [Bounded -> Nat]
    BY Zenon, <1>6, SpendType DEF UnfoldRaises, Bounded
  <2> QED BY Zenon, <1>6, <2>3, <2>4 DEF UnfoldRaises, files, attempt
<1>7. CASE Carry
  <2>1. mon \in Moves
    BY <1>2, <1>7 DEF Carry, Idle
  <2>2. mon.task \in Tasks
    BY Zenon, <2>1 DEF Moves
  <2> DEFINE a == <<mon.task, current[mon.task]>>
  <2>3. a[1] = mon.task /\ a[2] = current[mon.task] /\ current[mon.task] \in 0 .. MaxAttempts
    BY Zenon, <2>2
  <2>4. CASE a[2] = 0
    <3>1. UNCHANGED <<pc, halted, woken, why>>
      BY Zenon, <1>7, <2>4 DEF Carry
    <3> QED BY Zenon, <1>7, <3>1, NoNoteType DEF Carry, files, cli
  <2>5. CASE a[2] # 0
    <3>1. a \in Attempts
      BY <2>2, <2>3, <2>5 DEF Attempts
    <3>2. /\ woken' \in [Attempts -> BOOLEAN] /\ halted' \in [Attempts -> BOOLEAN]
          /\ pc' \in [Attempts -> Live \cup {"none"}]
      <4>1. /\ UNCHANGED pc \/ Goto(a, "loop")
            /\ UNCHANGED halted \/ halted' = [halted EXCEPT ![a] = FALSE]
            /\ woken' = [woken EXCEPT ![a] = TRUE] \/ woken' = [woken EXCEPT ![a] = FALSE]
        BY Zenon, <1>7, <2>5 DEF Carry
      <4>2. pc' \in [Attempts -> Live \cup {"none"}]
        BY Zenon, <3>1, <4>1, GotoType DEF Live
      <4> QED BY Zenon, <3>1, <4>1, <4>2
    <3>3. Note(mon.task, "stale") \/ Note(mon.task, "missed") \/ UNCHANGED why
      BY Zenon, <1>7, <2>3, <2>5 DEF Carry
    <3>4. WhyType' /\ Remembers
      BY Zenon, <2>2, <3>3, NoteType, NoNoteType DEF Reasons
    <3> QED BY Zenon, <1>7, <3>2, <3>4 DEF Carry, files, cli
  <2> QED BY Zenon, <2>4, <2>5
<1> QED BY Zenon, <1>3, <1>4, <1>5, <1>6, <1>7 DEF Monitor

\* The end of a process, and the next one.
LEMMA ProcessStepType ==
  ASSUME PoolType, RestType, CloseMonitors \/ Shutdown \/ Restart
  PROVE  RestType' /\ Remembers
<1> USE DEF RestType, ThreadType, FileType, MonitorType, CliType
<1>1. CASE CloseMonitors
  <2>1. budget' \in [Bounded -> Nat]
    BY Zenon, <1>1, SpendType DEF CloseMonitors, Bounded
  <2> QED BY Zenon, <1>1, <2>1, NoNoteType DEF CloseMonitors, files, attempt
<1>2. 0 \in 0 .. MaxAttempts
  BY AttemptConfig
<1>3. CASE Shutdown
  <2>1. halted' \in [Attempts -> BOOLEAN] /\ woken' \in [Attempts -> BOOLEAN]
    BY Zenon, <1>3, HaltType DEF Shutdown
  <2>2. current' \in [Tasks -> 0 .. MaxAttempts]
    BY Zenon, <1>2, <1>3 DEF Shutdown
  <2> QED BY Zenon, <1>3, <2>1, <2>2, NoNoteType DEF Shutdown, files, monitor, cli
<1>4. CASE Restart
  <2>1. budget' \in [Bounded -> Nat]
    BY Zenon, <1>4, SpendType DEF Restart, Bounded
  <2>2. orphan' \in SUBSET Slots /\ slot' = slot
    BY Zenon, <1>4 DEF Restart, Resume
  <2>3. /\ current' \in [Tasks -> 0 .. MaxAttempts] /\ pc' \in [Attempts -> Live \cup {"none"}]
        /\ halted' \in [Attempts -> BOOLEAN] /\ woken' \in [Attempts -> BOOLEAN]
        /\ holds' \in [Attempts -> BOOLEAN] /\ sealed' \in [Attempts -> SUBSET Slots]
    BY Zenon, <1>2, <1>4 DEF Restart
  <2>4. planned' \in Seq(Records)
    BY <1>4 DEF Restart
  <2> QED BY Zenon, <1>4, <2>1, <2>2, <2>3, <2>4, NoNoteType DEF Restart
<1> QED BY Zenon, <1>1, <1>3, <1>4
-----------------------------------------------------------------------------
(* Every step keeps the balance, but for enter_phase over another status. *)

\* enter_phase keeps the balance where the status is the one it read: a phase
\* follows a phase.
LEMMA MoveKeeps ==
  ASSUME PoolType, RestType, Move
  PROVE  PoolType' /\ (Balance /\ ~Raced' => Balance')
<1>1. mon \in Moves
  BY DEF Move, RestType, MonitorType, Idle
<1>2. mon.task \in Tasks /\ mon.from \in Phases
  BY Zenon, <1>1 DEF Moves
<1> DEFINE t == mon.task
<1>3. /\ status' = [status EXCEPT ![t] = Successor(mon.from)]
      /\ UNCHANGED <<open, tries, pools, pass>>
  BY Zenon DEF Move
<1>4. Successor(mon.from) \in Phases
  BY Zenon DEF Successor, Phases
<1> HIDE DEF t
<1>5. PoolType'
  <2>1. Successor(mon.from) \in Statuses
    BY Zenon, <1>4 DEF Statuses
  <2> QED BY Zenon, <1>3, <2>1, PoolsRest DEF PoolType
<1>6. ASSUME status[t] = mon.from PROVE Holding' = Holding
  <2>1. status[t] \in Phases
    BY Zenon, <1>2, <1>6
  <2>2. \A x \in Tasks : status'[x] = IF x = t THEN Successor(mon.from) ELSE status[x]
    BY Zenon, <1>3 DEF PoolType
  <2> QED BY Zenon, <1>4, <2>1, <2>2 DEF Holding
<1>7. ASSUME status[t] # mon.from PROVE Raced'
  <2>1. Note(t, "raced")
    BY Zenon, <1>7 DEF Move, t
  <2>2. why'[t] = "raced" /\ t \in Tasks
    BY Zenon, <1>2, <2>1 DEF Note, RestType, WhyType, t
  <2> QED BY Zenon, <2>2 DEF Raced
<1> QED BY Zenon, <1>3, <1>5, <1>6, <1>7, RestBalances

\* Every step keeps the scheduler's types, and the balance or the exception.
LEMMA NextPools ==
  ASSUME PoolType, RestType, [Next]_vars
  PROVE  PoolType' /\ (Balance /\ ~Raced' => Balance')
<1>1. ASSUME UNCHANGED scheduler PROVE PoolType' /\ (Balance => Balance')
  <2>1. PoolType'
    BY Zenon, <1>1, PoolsRest DEF PoolType, scheduler
  <2>2. Holding' = Holding /\ UNCHANGED <<open, pools>>
    BY Zenon, <1>1 DEF Holding, scheduler
  <2> QED BY Zenon, <2>1, <2>2, RestBalances
<1>2. ASSUME NEW t \in Tasks, Submit(t) PROVE PoolType' /\ (Balance => Balance')
  <2>1. status[t] \notin Phases \cup {"stopping"}
    BY Zenon, <1>2 DEF Submit, Phases
  <2> QED BY Zenon, <1>2, <2>1, WaitKeeps DEF Submit
<1>3. ASSUME NEW t \in Tasks, Start(t) PROVE PoolType' /\ (Balance => Balance')
  BY Zenon, <1>2, <1>3 DEF Start
<1>4. CASE Dispatch
  <2>1. PICK t \in Tasks : Skip(t) \/ LaunchAttempt(t) \/ LaunchFails(t)
    BY Zenon, <1>4 DEF Dispatch
  <2>2. \E p \in BOOLEAN : PassOver(t) \/ Demote(t) \/ Launch(t) \/ AbortLaunch(t, p)
    BY Zenon, <2>1, FailedLaunch DEF Skip, LaunchAttempt
  <2> QED BY Zenon, <2>2, LookKeeps
<1>5. ASSUME NEW a \in Attempts, Thread(a) PROVE PoolType' /\ (Balance => Balance')
  <2>1. a[1] \in Tasks
    BY Zenon DEF Attempts
  <2>2. CASE Done(a) \/ Crash(a)
    BY Zenon, <2>1, <2>2, DoneKeeps DEF Done, Crash
  <2>3. CASE ~(Done(a) \/ Crash(a))
    BY Zenon, <1>1, <1>5, <2>3 DEF Thread, Loop, Input, MainReleases, MainOpens, Body, Awake,
                                   Output,
                                   Seal, Reject, SealAs, Exit
  <2> QED BY Zenon, <2>2, <2>3
<1>6. CASE Monitor
  <2>1. ASSUME NEW c \in Tasks, Unfold(c) PROVE PoolType' /\ (Balance => Balance')
    BY Zenon, <1>2, <2>1 DEF Unfold
  <2>2. CASE Take \/ UnfoldRaises \/ Carry
    BY Zenon, <1>1, <2>2 DEF Take, UnfoldRaises, Carry
  <2> QED BY Zenon, <1>6, <2>1, <2>2, MoveKeeps DEF Monitor
<1>7. CASE Operator
  <2>1. PICK t \in Tasks : StopTask(t) \/ FailTask(t) \/ RestartTask(t)
    BY Zenon, <1>7 DEF Operator
  <2>2. CASE StopTask(t)
    BY Zenon, <2>2, StopKeeps DEF StopTask
  <2>3. CASE FailTask(t)
    <3>1. Reserve[t] \in Usage(t) /\ "failed" \in {"succeeded", "failed"}
      BY TaskConfig DEF Usage
    <3> QED BY Zenon, <2>3, <3>1, DoneKeeps DEF FailTask
  <2>4. CASE RestartTask(t)
    <3>1. /\ status[t] \in Resumable /\ TryDispatch([status EXCEPT ![t] = "waiting_handoff"])
          /\ UNCHANGED <<open, tries, pools>>
      BY Zenon, <2>4 DEF RestartTask, ResumeTask
    <3>2. status[t] \notin Phases \cup {"stopping"}
      BY Zenon, <3>1 DEF Resumable, Phases
    <3> QED BY Zenon, <3>1, <3>2, WaitKeeps
  <2> QED BY Zenon, <2>1, <2>2, <2>3, <2>4
<1>8. CASE CloseMonitors \/ Shutdown \/ UNCHANGED vars
  BY Zenon, <1>1, <1>8 DEF CloseMonitors, Shutdown, vars
<1>9. CASE Restart
  BY Zenon, <1>9, ResumeKeeps DEF Restart
<1> QED BY Zenon, <1>3, <1>4, <1>5, <1>6, <1>7, <1>8, <1>9 DEF Next

\* Every step keeps the types.
LEMMA NextType ==
  ASSUME PoolType, RestType, [Next]_vars
  PROVE  RestType' /\ Remembers
<1>1. CASE UNCHANGED vars
  BY Zenon, <1>1, NoNoteType DEF vars, files, attempt, monitor, cli, RestType, ThreadType,
                                 FileType,
                                 MonitorType, CliType
<1>2. CASE Next
  BY Zenon, <1>2, OperationType, ThreadStepType, MonitorStepType, ProcessStepType
     DEF Next, Dispatch, Operator
<1> QED BY Zenon, <1>1, <1>2
-----------------------------------------------------------------------------
(* Who writes a slot. *)

\* An open slot stays open for whom it was.
LEMMA SameWriters ==
  ASSUME RestType, Written, UNCHANGED <<holds, orphan>>,
         \A h \in Slots : (slot'[h] = "generating") <=> (slot[h] = "generating")
  PROVE  Written'
<1>1. \A h \in Slots : Writers(h)' = Writers(h)
  BY Zenon DEF Writers
<1> QED BY Zenon, <1>1 DEF Written

\* submit declares slots, and opens none.
LEMMA SubmitWritten ==
  ASSUME RestType, Written, NEW t \in Tasks, Submit(t), UNCHANGED <<holds, orphan>>
  PROVE  Written'
<1>1. \A h \in Slots : (slot'[h] = "generating") <=> (slot[h] = "generating")
  BY Zenon DEF Submit, RestType, FileType
<1> QED BY Zenon, <1>1, SameWriters

\* open_next takes a slot that nobody has.
LEMMA OpenWritten ==
  ASSUME RestType, Written, NEW a \in Attempts, ~IsOpen(a[1]),
         slot' = Opening(Outputs[a[1]]), holds' = [holds EXCEPT ![a] = TRUE], UNCHANGED orphan
  PROVE  Written'
<1> SUFFICES ASSUME NEW h \in Slots
             PROVE  /\ h \in orphan => slot'[h] = "generating" /\ Writers(h)' = {}
                    /\ slot'[h] = "generating" /\ h \notin orphan =>
                         \E b \in Attempts : Writers(h)' = {b}
                    /\ slot'[h] # "generating" => Writers(h)' = {}
  BY Zenon DEF Written
<1>1. CASE h \in Outputs[a[1]]
  <2>1. slot[h] # "generating" /\ slot'[h] = "generating"
    BY Zenon, <1>1 DEF IsOpen, Opening
  <2>2. Writers(h) = {} /\ h \notin orphan
    BY Zenon, <2>1 DEF Written
  <2>3. Writers(h)' = {a}
    BY Zenon, <1>1, <2>2 DEF Writers, RestType, ThreadType
  <2> QED BY Zenon, <2>1, <2>2, <2>3
<1>2. CASE h \notin Outputs[a[1]]
  <2>1. slot'[h] = slot[h]
    BY Zenon, <1>2 DEF Opening
  <2>2. Writers(h)' = Writers(h)
    BY Zenon, <1>2 DEF Writers, RestType, ThreadType
  <2> QED BY Zenon, <2>1, <2>2 DEF Written
<1> QED BY Zenon, <1>1, <1>2

\* What is opened before something raises is left open for nobody.
LEMMA AbandonWritten ==
  ASSUME RestType, Written, NEW S \in SUBSET Slots, \A h \in S : slot[h] # "generating",
         slot' = Opening(S), orphan' = orphan \cup S, UNCHANGED holds
  PROVE  Written'
<1> SUFFICES ASSUME NEW h \in Slots
             PROVE  /\ h \in orphan' => slot'[h] = "generating" /\ Writers(h)' = {}
                    /\ slot'[h] = "generating" /\ h \notin orphan' =>
                         \E b \in Attempts : Writers(h)' = {b}
                    /\ slot'[h] # "generating" => Writers(h)' = {}
  BY Zenon DEF Written
<1>1. Writers(h)' = Writers(h)
  BY Zenon DEF Writers
<1>2. CASE h \in S
  <2>1. Writers(h) = {} /\ slot'[h] = "generating" /\ h \in orphan'
    BY Zenon, <1>2 DEF Written, Opening
  <2> QED BY Zenon, <1>1, <2>1
<1>3. CASE h \notin S
  <2>1. slot'[h] = slot[h] /\ (h \in orphan' <=> h \in orphan)
    BY Zenon, <1>3 DEF Opening
  <2> QED BY Zenon, <1>1, <2>1 DEF Written
<1> QED BY Zenon, <1>2, <1>3

\* What an attempt has, it has open.
LEMMA MineOpen ==
  ASSUME Written, NEW a \in Attempts, NEW h \in Slots, holds[a], h \in Outputs[a[1]]
  PROVE  slot[h] = "generating"
<1>1. a \in Writers(h)
  BY Zenon DEF Writers
<1> QED BY Zenon, <1>1 DEF Written

\* Who has a slot closes it, or leaves it open for nobody, and lets go of it.
LEMMA CloseWritten ==
  ASSUME RestType, Written, NEW a \in Attempts, NEW passed, NEW S \in SUBSET Mine(a),
         Sealing(a, passed, S)
  PROVE  Written'
<1>0. Mine(a) \in SUBSET Slots
  BY Zenon, TaskConfig DEF Attempts, Mine
<1> SUFFICES ASSUME NEW h \in Slots
             PROVE  /\ h \in orphan' => slot'[h] = "generating" /\ Writers(h)' = {}
                    /\ slot'[h] = "generating" /\ h \notin orphan' =>
                         \E b \in Attempts : Writers(h)' = {b}
                    /\ slot'[h] # "generating" => Writers(h)' = {}
  BY Zenon DEF Written
<1>1. slot'[h] = IF h \in S THEN Verdict(a, passed, h) ELSE slot[h]
  BY Zenon DEF Sealing
<1>2. orphan' = orphan \cup {g \in Mine(a) \ S : slot[g] = "generating"}
  BY Zenon DEF Sealing
<1>3. CASE h \in Mine(a)
  <2>1. holds[a] /\ h \in Outputs[a[1]]
    BY Zenon, <1>3 DEF Mine
  <2>2. a \in Writers(h) /\ slot[h] = "generating"
    BY Zenon, <2>1, MineOpen DEF Writers
  <2>3. h \notin orphan /\ Writers(h) = {a}
    BY Zenon, <2>2 DEF Written
  <2>4. Writers(h)' = {}
    BY Zenon, <2>3 DEF Writers, Sealing, RestType, ThreadType
  <2>5. CASE h \in S
    <3>1. slot'[h] # "generating"
      BY Zenon, <1>1, <2>5 DEF Verdict
    <3>2. h \notin orphan'
      BY Zenon, <1>2, <2>3, <2>5
    <3> QED BY Zenon, <2>4, <3>1, <3>2
  <2>6. CASE h \notin S
    <3>1. slot'[h] = "generating" /\ h \in orphan'
      BY Zenon, <1>1, <1>2, <1>3, <2>2, <2>6
    <3> QED BY Zenon, <2>4, <3>1
  <2> QED BY Zenon, <2>5, <2>6
<1>4. CASE h \notin Mine(a)
  <2>1. slot'[h] = slot[h] /\ (h \in orphan' <=> h \in orphan)
    BY Zenon, <1>1, <1>2, <1>4
  <2>2. Writers(h)' = Writers(h)
    BY Zenon, <1>4 DEF Writers, Sealing, Mine, RestType, ThreadType
  <2> QED BY Zenon, <2>1, <2>2 DEF Written
<1> QED BY Zenon, <1>3, <1>4

\* Every step keeps one writer for every open slot.
LEMMA NextWritten ==
  ASSUME PoolType, RestType, Written, [Next]_vars
  PROVE  Written'
<1>1. ASSUME UNCHANGED <<holds, slot, orphan>> PROVE Written'
  BY Zenon, <1>1, SameWriters
<1>2. ASSUME NEW t \in Tasks, \/ Start(t) \/ Skip(t) \/ LaunchAttempt(t) \/ LaunchFails(t)
                              \/ StopTask(t) \/ FailTask(t) \/ RestartTask(t)
      PROVE  Written'
  <2>1. CASE Start(t)
    BY Zenon, <2>1, SubmitWritten DEF Start, attempt
  <2> QED BY Zenon, <1>1, <1>2, <2>1 DEF Skip, LaunchAttempt, LaunchFails, StopTask, FailTask,
                                         RestartTask,
                                         files, attempt, cli
<1>3. ASSUME NEW a \in Attempts, Thread(a) PROVE Written'
  <2>1. CASE MainOpens(a)
    <3>1. Outputs[a[1]] \in SUBSET Slots
      BY Zenon, TaskConfig DEF Attempts
    <3>2. CASE /\ ~IsOpen(a[1]) /\ slot' = Opening(Outputs[a[1]])
               /\ holds' = [holds EXCEPT ![a] = TRUE] /\ UNCHANGED orphan
      BY Zenon, <3>2, OpenWritten
    <3>3. CASE /\ UNCHANGED holds
               /\ \E S \in SUBSET {h \in Outputs[a[1]] : slot[h] # "generating"} :
                     slot' = Opening(S) /\ orphan' = orphan \cup S
      BY Zenon, <3>1, <3>3, AbandonWritten
    <3> QED BY Zenon, <2>1, <3>2, <3>3 DEF MainOpens
  <2>2. CASE Seal(a) \/ Reject(a) \/ Exit(a)
    <3>1. \E p \in BOOLEAN, S \in SUBSET Mine(a) : Sealing(a, p, S)
      BY Zenon, <2>2, Sealers, SealParts
    <3> QED BY Zenon, <3>1, CloseWritten
  <2> QED BY Zenon, <1>1, <1>3, <2>1, <2>2 DEF Thread, Loop, Input, MainReleases, Body,
                                                     Awake,
                                                     Output, Done, Crash, files, cli
<1>4. CASE Monitor
  <2>1. ASSUME NEW c \in Tasks, Unfold(c) PROVE Written'
    BY Zenon, <2>1, SubmitWritten DEF Unfold, attempt, cli
  <2>2. CASE Take \/ Move \/ UnfoldRaises \/ Carry
    BY Zenon, <1>1, <2>2 DEF Take, Move, UnfoldRaises, Carry, files, attempt, cli
  <2> QED BY Zenon, <1>4, <2>1, <2>2 DEF Monitor
<1>5. CASE CloseMonitors \/ Shutdown \/ UNCHANGED vars
  BY Zenon, <1>1, <1>5 DEF CloseMonitors, Shutdown, vars, files, attempt, cli
<1>6. CASE Restart
  <2>1. /\ slot' = slot /\ orphan' = {h \in Slots : slot[h] = "generating"}
        /\ holds' = [a \in Attempts |-> FALSE]
    BY Zenon, <1>6 DEF Restart, Resume
  <2>2. \A h \in Slots : Writers(h)' = {}
    BY Zenon, <2>1 DEF Writers
  <2> QED BY Zenon, <2>1, <2>2 DEF Written
<1> QED BY Zenon, <1>2, <1>3, <1>4, <1>5, <1>6 DEF Next, Dispatch, Operator
-----------------------------------------------------------------------------

\* It holds before anything is submitted,
LEMMA InitIInv == Init => IInv
<1> SUFFICES ASSUME Init PROVE IInv
  BY Zenon
<1>0. /\ status = [t \in Tasks |-> "absent"] /\ open = [t \in Tasks |-> FALSE]
      /\ tries = [t \in Tasks |-> 0] /\ gpu = Gpus /\ tok = Tokens /\ spent = 0 /\ pass = {}
      /\ overdrawn = FALSE
  BY Zenon DEF Init, SchedulerInit
<1>1. PoolType
  <2>1. Gpus \in Nat /\ Tokens \in Nat
    BY Zenon, TaskConfig
  <2>2. PoolsType
    <3>1. gpu \in 0 .. Gpus /\ tok \in Int /\ tok <= Tokens /\ spent \in Nat /\ ~(tok < 0)
      BY <1>0, <2>1
    <3> QED BY Zenon, <1>0, <3>1 DEF PoolsType
  <2>3. tries \in [Tasks -> Nat]
    BY <1>0
  <2> QED BY Zenon, <1>0, <2>2, <2>3 DEF PoolType, Statuses
<1>2. RestType
  <2>1. 0 \in 0 .. MaxAttempts
    BY AttemptConfig
  <2>2. ThreadType
    BY Zenon, <2>1 DEF Init, ThreadType
  <2>3. FileType
    BY Zenon DEF Init, SchedulerInit, FileType, SlotStatuses
  <2>4. MonitorType
    <3>1. planned = <<>> /\ mon = Idle /\ closing = FALSE
      BY Zenon DEF Init
    <3>2. planned \in Seq(Records)
      BY <3>1
    <3> QED BY Zenon, <3>1, <3>2 DEF MonitorType
  <2>5. CliType
    BY Zenon, AttemptConfig DEF Init, CliType
  <2>6. WhyType
    BY Zenon DEF Init, WhyType, Reasons
  <2> QED BY Zenon, <2>2, <2>3, <2>4, <2>5, <2>6 DEF RestType
<1>3. Written
  <2>1. \A h \in Slots : slot[h] # "generating" /\ h \notin orphan
    BY Zenon DEF Init, SchedulerInit
  <2>2. \A h \in Slots : Writers(h) = {}
    BY Zenon DEF Init, Writers
  <2> QED BY Zenon, <2>1, <2>2 DEF Written
<1>4. Balance
  <2>1. Holding = {}
    BY Zenon DEF Init, SchedulerInit, Holding, Phases
  <2>2. Units(Need, {}) = {} /\ Units(Reserve, {}) = {}
    BY Zenon DEF Units
  <2>3. Leased(Need) = 0 /\ Leased(Reserve) = 0
    BY Zenon, <2>1, <2>2, FS_EmptySet DEF Leased
  <2>4. Holding = {x \in Tasks : open[x]}
    BY Zenon, <2>1 DEF Init, SchedulerInit
  <2>5. Gpus = Gpus - 0 /\ Tokens = Tokens - 0 - 0
    BY TaskConfig
  <2> QED BY Zenon, <1>0, <2>3, <2>4, <2>5 DEF Balance
<1> QED BY Zenon, <1>1, <1>2, <1>3, <1>4 DEF IInv

\* every step keeps it,
LEMMA NextIInv == IInv /\ [Next]_vars => IInv'
<1> SUFFICES ASSUME IInv, [Next]_vars PROVE IInv'
  BY Zenon
<1>1. PoolType /\ RestType /\ Written
  BY Zenon DEF IInv
<1>2. PoolType' /\ (Balance /\ ~Raced' => Balance')
  BY Zenon, <1>1, NextPools
<1>3. RestType' /\ Remembers
  BY Zenon, <1>1, NextType
<1>4. Raced => Raced'
  BY Zenon, <1>3 DEF Raced, Remembers
<1> QED BY Zenon, <1>1, <1>2, <1>3, <1>4, NextWritten DEF IInv

\* and so it always holds.
LEMMA Invariant == Spec => []IInv
  BY InitIInv, NextIInv, PTL DEF Spec

\* Every variable keeps its type, whatever launches, stops, late completions and
\* restarts do: no pool rises above its capacity, the GPUs never fall below zero,
\* and the tokens only by what charge books without a reservation.
THEOREM TypeCorrect == Spec => []TypeOK
<1>1. IInv => TypeOK
  BY Zenon, TypesAreTypeOK DEF IInv
<1> QED BY <1>1, Invariant, PTL

\* For every graph, pool and number of attempts, no lease is lost or returned
\* twice in a run in which no status is written over another: what _dispatch_pass
\* took and _release has not given back is what the tasks in a phase hold.  Of
\* the tokens it is said until charge has overdrawn them.
THEOREM LeasesBalanced == Spec => []LeasesBalance
<1>1. IInv => LeasesBalance
  BY Zenon DEF IInv, Balance, Leased, LeasesBalance
<1> QED BY <1>1, Invariant, PTL

\* For every graph, and tasks with any number of outputs, a slot that is open has
\* exactly one attempt that will seal it, or is one that a process left open when
\* it died or an attempt when it raised between opening or sealing two outputs:
\* open_next, _seal_model_versions and _close_model_slot give no slot two writers.
THEOREM EverySlotOneWriter == Spec => []OneWriter
<1>1. IInv => OneWriter
  <2>1. ASSUME NEW a PROVE Cardinality({a}) = 1
    BY Zenon, FS_Singleton
  <2> QED BY Zenon, <2>1 DEF IInv, Written, OneWriter
<1> QED BY <1>1, Invariant, PTL
=============================================================================
