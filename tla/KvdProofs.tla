------------------------------ MODULE KvdProofs ------------------------------
(***************************************************************************)
(* Proofs about Kvd for every set of blocks, slots and clients: the slots  *)
(* of the arena have one owner each, the rows of the store point at the    *)
(* slots of their keys, a single read gets its own block, and the store is *)
(* billed for the rows that hold their bytes.                              *)
(***************************************************************************)
EXTENDS Kvd, TLAPS

ArenaTypeOK ==
    /\ index \in [Keys -> Slots \union {None}]
    /\ free \subseteq Slots
    /\ lease \in [Clients -> Lease \union {None}]

\* What the arena's own operations preserve.
ArenaInv == ArenaTypeOK /\ OneOwner

-----------------------------------------------------------------------------
(* The operations of the arena                                             *)

\* What a grant is: a free slot, or the slot of the key that loses it.
LEMMA GrantIs ==
    ASSUME ArenaInv, NEW g \in Grants
    PROVE  /\ g.slot \in Slots
           /\ \/ g.from = None /\ g.slot \in free
              \/ g.from \in Keys /\ index[g.from] = g.slot
BY KvdConfig DEF Grants, ArenaInv, ArenaTypeOK

\* put() gives the slot to the key and takes it from the free list or from
\* the key that had it.
LEMMA PutKeepsArena ==
    ASSUME ArenaInv, NEW k \in Keys, NEW g \in GrantsFor(k), Take(g),
           index' = [Without(g.from) EXCEPT ![k] = g.slot], UNCHANGED lease
    PROVE  ArenaInv' /\ g.slot \in Slots /\ index'[k] = g.slot
<1>1. CASE index[k] # None
  <2>1. g.slot = index[k] /\ g.from = None BY <1>1 DEF GrantsFor
  <2>2. index' = index BY Zenon, <2>1 DEF Without, ArenaInv, ArenaTypeOK
  <2>3. g.slot \in Slots BY Zenon, <2>1, <1>1 DEF ArenaInv, ArenaTypeOK
  <2>4. g.slot \notin free BY Zenon, <2>1, <2>3 DEF ArenaInv, OneOwner
  <2>5. free' = free BY Zenon, <2>4 DEF Take
  <2>6. ArenaTypeOK' BY Zenon, <2>2, <2>5 DEF ArenaInv, ArenaTypeOK
  <2>7. OneOwner' BY ZenonT(30), <2>2, <2>5 DEF ArenaInv, OneOwner, Leased
  <2>. QED BY Zenon, <2>1, <2>2, <2>3, <2>6, <2>7 DEF ArenaInv
<1>2. CASE index[k] = None
  <2>1. g \in Grants BY Zenon, <1>2 DEF GrantsFor
  <2>2. /\ g.slot \in Slots
        /\ \/ g.from = None /\ g.slot \in free
           \/ g.from \in Keys /\ index[g.from] = g.slot
    BY Zenon, <2>1, GrantIs
  <2>3. Without(g.from) = [j \in Keys |-> IF j = g.from THEN None ELSE index[j]]
    BY Zenon, <2>2, KvdConfig DEF Without, ArenaInv, ArenaTypeOK
  <2>4. index' = [j \in Keys |-> IF j = k THEN g.slot ELSE IF j = g.from THEN None ELSE index[j]]
    BY Zenon, <2>3
  <2>5. free' = free \ {g.slot} BY Zenon DEF Take
  <2>6. ArenaTypeOK' BY Zenon, <2>2, <2>4, <2>5 DEF ArenaInv, ArenaTypeOK, Lease
  <2>7. OneOwner'
    BY <1>2, <2>2, <2>4, <2>5, KvdConfig DEF ArenaInv, ArenaTypeOK, OneOwner, Leased, Lease
  <2>. QED BY Zenon, <2>2, <2>4, <2>6, <2>7 DEF ArenaInv
<1>. QED BY Zenon, <1>1, <1>2

\* reserve() gives the slot to a lease.
LEMMA ReserveKeepsArena ==
    ASSUME ArenaInv, NEW cl \in Clients, lease[cl] = None, NEW g \in Grants, Take(g),
           index' = Without(g.from),
           lease' = [lease EXCEPT ![cl] = [slot |-> g.slot, block |-> None]]
    PROVE  ArenaInv' /\ g.slot \in Slots
<1>1. /\ g.slot \in Slots
      /\ \/ g.from = None /\ g.slot \in free
         \/ g.from \in Keys /\ index[g.from] = g.slot
  BY Zenon, GrantIs
<1>2. index' = [j \in Keys |-> IF j = g.from THEN None ELSE index[j]]
  <2>1. index = [j \in Keys |-> index[j]]
    BY Zenon DEF ArenaInv, ArenaTypeOK
  <2>2. CASE g.from = None
    <3>1. \A j \in Keys : j # g.from
      BY Zenon, <2>2, KvdConfig
    <3>2. index' = index
      BY Zenon, <2>2 DEF Without
    <3> QED BY Zenon, <2>1, <3>1, <3>2
  <2>3. CASE g.from # None
    BY Zenon, <2>1, <2>3 DEF Without, ArenaInv, ArenaTypeOK
  <2> QED BY Zenon, <2>2, <2>3
<1>3. free' = free \ {g.slot} BY Zenon DEF Take
<1>4. ArenaTypeOK' BY Zenon, <1>1, <1>2, <1>3 DEF ArenaInv, ArenaTypeOK, Lease
<1>5. \A d \in Clients : \A s \in Slots :
        Leased(d, s)' <=> IF d = cl THEN s = g.slot ELSE Leased(d, s)
  BY KvdConfig DEF ArenaInv, ArenaTypeOK, Leased, Lease
<1>6. OneOwner'
  BY <1>1, <1>2, <1>3, <1>5, KvdConfig DEF ArenaInv, ArenaTypeOK, OneOwner, Leased, Lease
<1>. QED BY Zenon, <1>1, <1>4, <1>6 DEF ArenaInv

\* evict_key() moves slots from keys to the free list.
LEMMA EvictKeepsArena ==
    ASSUME ArenaInv, NEW K \in SUBSET Keys, Evict(K), UNCHANGED lease
    PROVE  ArenaInv'
<1>1. ArenaTypeOK' BY Zenon DEF Evict, ArenaInv, ArenaTypeOK
<1>2. OneOwner' BY KvdConfig DEF Evict, ArenaInv, ArenaTypeOK, OneOwner, Leased, Lease
<1>. QED BY Zenon, <1>1, <1>2 DEF ArenaInv

\* cancel_reservation() and the end of a connection free the leased slot.
LEMMA ReleaseKeepsArena ==
    ASSUME ArenaInv, NEW cl \in Clients, Release(cl), UNCHANGED index
    PROVE  ArenaInv'
<1>0. lease[cl] # None => lease[cl].slot \in Slots BY Zenon DEF ArenaInv, ArenaTypeOK, Lease
<1>1. ArenaTypeOK' BY Zenon, <1>0 DEF Release, ArenaInv, ArenaTypeOK
<1>2. \A d \in Clients : \A s \in Slots : Leased(d, s)' <=> d # cl /\ Leased(d, s)
  BY Zenon, KvdConfig DEF ArenaInv, ArenaTypeOK, Leased, Lease, Release
<1>3. OneOwner'
  BY <1>2, KvdConfig DEF Release, ArenaInv, ArenaTypeOK, OneOwner, Leased, Lease
<1>. QED BY Zenon, <1>1, <1>3 DEF ArenaInv

\* commit_reservation() frees the slot the key had and gives it the leased one.
LEMMA CommitKeepsArena ==
    ASSUME ArenaInv, NEW cl \in Clients, lease[cl] # None, NEW k \in Keys,
           free' = free \union ({index[k]} \ {None}),
           index' = [index EXCEPT ![k] = lease[cl].slot],
           lease' = [lease EXCEPT ![cl] = None]
    PROVE  ArenaInv'
<1>1. ArenaTypeOK' BY Zenon DEF ArenaInv, ArenaTypeOK, Lease
<1>2. lease[cl].slot \in Slots BY Zenon DEF ArenaInv, ArenaTypeOK, Lease
<1>3. \A d \in Clients : \A s \in Slots : Leased(d, s)' <=> d # cl /\ Leased(d, s)
  BY Zenon, KvdConfig DEF ArenaInv, ArenaTypeOK, Leased, Lease
<1>4. OneOwner'
  BY <1>2, <1>3, KvdConfig DEF ArenaInv, ArenaTypeOK, OneOwner, Leased, Lease
<1>. QED BY Zenon, <1>1, <1>4 DEF ArenaInv

\* An engine that fills its slot keeps the slot.
LEMMA FillKeepsArena ==
    ASSUME ArenaInv, NEW cl \in Clients, NEW c \in Composites, Fill(cl, c)
    PROVE  /\ ArenaInv'
           /\ lease' = [lease EXCEPT ![cl] = [slot |-> lease[cl].slot, block |-> c]]
<1>1. lease[cl] \in Lease BY Zenon DEF Fill, ArenaInv, ArenaTypeOK
<1>2. [lease[cl] EXCEPT !.block = c] = [slot |-> lease[cl].slot, block |-> c]
  BY <1>1 DEF Lease
<1>3. lease' = [lease EXCEPT ![cl] = [slot |-> lease[cl].slot, block |-> c]]
  BY Zenon, <1>2 DEF Fill
<1>4. [slot |-> lease[cl].slot, block |-> c] \in Lease BY Zenon, <1>1 DEF Lease
<1>5. ArenaTypeOK' BY Zenon, <1>3, <1>4 DEF Fill, ArenaInv, ArenaTypeOK
<1>6. \A d \in Clients : \A s \in Slots : Leased(d, s)' <=> Leased(d, s)
  BY <1>1, <1>3, KvdConfig DEF ArenaInv, ArenaTypeOK, Leased, Lease
<1>7. OneOwner' BY Zenon, <1>6 DEF Fill, ArenaInv, OneOwner
<1>. QED BY Zenon, <1>3, <1>5, <1>7 DEF ArenaInv

-----------------------------------------------------------------------------
(* Every step                                                              *)

\* What the arena is told to evict are keys.
LEMMA BackedAreKeys == ASSUME NEW C \in SUBSET Composites PROVE Backed(C) \in SUBSET Keys
BY Zenon DEF Backed, Keys

\* What set() may evict are rows of the store.
LEMMA VictimsAreBlocks == ASSUME NEW ret PROVE Victims(ret) \in SUBSET Composites
BY Zenon DEF Victims

\* HostStore.set leaves each slot with one owner, by each of its ways.
LEMMA StoreKeepsArena ==
    ASSUME ArenaInv, NEW j, NEW c \in Composites, NEW what, NEW ret, Store(j, c, what, ret)
    PROVE  ArenaInv'
<1>1. CASE StoreInArena(j, c, what, ret)
  <2>1. Key(c) \in Keys BY Zenon DEF Keys
  <2>2. PICK g \in GrantsFor(Key(c)) :
          Take(g) /\ index' = [Without(g.from) EXCEPT ![Key(c)] = g.slot]
    BY Zenon, <1>1 DEF StoreInArena
  <2>. QED BY Zenon, <1>1, <2>1, <2>2, PutKeepsArena DEF StoreInArena
<1>2. CASE StoreRaises(j, c, what, ret)
  BY <1>2 DEF StoreRaises, arena, ArenaInv, ArenaTypeOK, OneOwner, Leased
<1>3. CASE StoreInline(j, c, what, ret)
  <2>1. PICK E \in SUBSET Composites : Evict(Backed(E))
    BY Zenon, <1>3, VictimsAreBlocks DEF StoreInline
  <2>. QED BY Zenon, <1>3, <2>1, BackedAreKeys, EvictKeepsArena DEF StoreInline
<1>4. CASE StoreRefused(j, c, what, ret)
  BY Zenon, <1>4, VictimsAreBlocks, BackedAreKeys, EvictKeepsArena DEF StoreRefused
<1>. QED BY Zenon, <1>1, <1>2, <1>3, <1>4 DEF Store

\* No step of the daemon or of an engine breaks the ownership of the slots.
LEMMA ArenaStep == ArenaInv /\ [Next]_vars => ArenaInv'
<1>. SUFFICES ASSUME ArenaInv, [Next]_vars PROVE ArenaInv'
  BY Zenon
<1>0. ASSUME UNCHANGED <<index, free, lease>> PROVE ArenaInv'
  BY <1>0 DEF ArenaInv, ArenaTypeOK, OneOwner, Leased
<1>1. CASE UNCHANGED vars BY Zenon, <1>0, <1>1 DEF vars
<1>2. CASE Written \/ Reply BY Zenon, <1>0, <1>2 DEF Written, Reply, arena
<1>3. CASE Promote BY Zenon, <1>3, StoreKeepsArena DEF Promote
<1>4. CASE Restart
  BY Zenon, <1>4, KvdConfig DEF Restart, ArenaInv, ArenaTypeOK, OneOwner, Leased
<1>5. ASSUME NEW C \in SUBSET Composites, Clear(C) PROVE ArenaInv'
  BY Zenon, <1>5, BackedAreKeys, EvictKeepsArena DEF Clear
<1>6. ASSUME NEW c \in Composites, Warm(c) PROVE ArenaInv'
  BY Zenon, <1>6, StoreKeepsArena DEF Warm
<1>7. ASSUME NEW c \in Composites, Lapse(c) PROVE ArenaInv'
  BY Zenon, <1>7, BackedAreKeys, EvictKeepsArena DEF Lapse
<1>8. ASSUME NEW c \in Composites, RegionDrops(c) PROVE ArenaInv'
  BY Zenon, <1>0, <1>8 DEF RegionDrops, arena
<1>9. ASSUME NEW c \in Composites, NEW ret \in Retentions, Set(c, ret) PROVE ArenaInv'
  BY Zenon, <1>9, StoreKeepsArena DEF Set
<1>10. ASSUME NEW cl \in Clients, Reserve(cl) PROVE ArenaInv'
  BY Zenon, <1>10, ReserveKeepsArena DEF Reserve
<1>11. ASSUME NEW cl \in Clients, Cancel(cl) \/ Disconnect(cl) PROVE ArenaInv'
  BY Zenon, <1>11, ReleaseKeepsArena DEF Cancel, Disconnect
<1>12. ASSUME NEW cl \in Clients, NEW c \in Composites, Fill(cl, c) PROVE ArenaInv'
  BY Zenon, <1>12, FillKeepsArena
<1>13. ASSUME NEW cl \in Clients, NEW c \in Composites, Check(cl, c) \/ Copy(cl, c)
       PROVE  ArenaInv'
  BY Zenon, <1>0, <1>13 DEF Check, Copy, arena
<1>14. ASSUME NEW cl \in Clients, NEW ret \in Retentions, Commit(cl, ret) PROVE ArenaInv'
  <2>1. lease[cl].block \in Composites BY Zenon, <1>14 DEF Commit, ArenaInv, ArenaTypeOK, Lease
  <2>2. Key(lease[cl].block) \in Keys BY Zenon, <2>1 DEF Keys
  <2>. QED BY Zenon, <1>14, <2>2, CommitKeepsArena DEF Commit
<1>15. ASSUME NEW cl \in Clients, NEW C, Get(cl, C) PROVE ArenaInv'
  BY Zenon, <1>0, <1>15 DEF Get, arena
<1>. QED
  BY Zenon, <1>1, <1>2, <1>3, <1>4, <1>5, <1>6, <1>7, <1>8, <1>9, <1>10, <1>11, <1>12, <1>13,
     <1>14, <1>15 DEF Next

\* Every slot of the arena is free, or of one key, or of one lease, whatever
\* puts, leases, commits, cancellations, expiries and clears came before.
THEOREM SlotsHaveOneOwner == Spec => []OneOwner
<1>1. Init => ArenaInv
  BY KvdConfig DEF Init, ArenaInv, ArenaTypeOK, OneOwner, Leased
<1>2. ArenaInv => OneOwner BY Zenon DEF ArenaInv
<1>. QED BY <1>1, <1>2, ArenaStep, PTL DEF Spec

-----------------------------------------------------------------------------
(* Rows, versions and readers                                              *)

\* A row says where the bytes of its block are: inline, or in a slot that
\* holds them or is marked as being written (v and b are the memory).
RowOK(r, c, v, b) ==
    r # None => /\ r.slot \in Slots \union {Inline}
                /\ r.slot = Inline => r.what \in {c, Empty}
                /\ r.slot # Inline /\ v[r.slot] % 2 = 0 => b[r.slot] \in {c, Empty}

MemoryOK == ver \in [Slots -> Nat] /\ bytes = [s \in Slots |-> bytes[s]]

\* A leased slot is marked, and holds what its engine filled it with.
LeasesOK ==
    \A cl \in Clients : lease[cl] # None =>
        /\ ver[lease[cl].slot] % 2 = 1
        /\ lease[cl].block # None => bytes[lease[cl].slot] = lease[cl].block

RowsOK ==
    /\ rows = [c \in Composites |-> rows[c]]
    /\ \A c \in Kept : RowOK(rows[c], c, ver, bytes)

TiersOK ==
    /\ long = [c \in Composites |-> long[c]] /\ spill = [c \in Composites |-> spill[c]]
    /\ \A c \in Kept : long[c] \in {None, c, Empty} /\ spill[c] \in {None, c, Empty}

\* A put under way has marked the slot of its key.
PutOK ==
    job # None => (job.put # None =>
        /\ job.put.c \in Composites /\ job.put.slot \in Slots
        /\ index[Key(job.put.c)] = job.put.slot
        /\ ver[job.put.slot] % 2 = 1
        /\ job.put.c \in Kept => job.put.what \in {job.put.c, Empty})

\* A single load holds a row that is still good, or none while it promotes.
HeldOK ==
    job # None => (job.client # None /\ job.alone =>
        /\ job.held = [c \in Composites |-> job.held[c]]
        /\ \A c \in Kept : RowOK(job.held[c], c, ver, bytes)
        /\ job.want # {} => \A c \in Composites : job.held[c] = None
        /\ \A b, c \in job.want : b = c
        /\ job.put # None => job.put.c \in job.want)

\* The answer to a single load carries a version its slot had, and has its
\* own block for as long as the slot has it.
AnswerOK(a, c) ==
    a # None => (a.alone =>
        /\ Own(a, c)
        /\ a.st = "viewing" => a.ver % 2 = 0
        /\ a.st # "got" => a.slot \in Slots /\ a.ver \in Nat /\ a.ver <= ver[a.slot])

ViewsOK ==
    /\ view = [cl \in Clients |-> [c \in Composites |-> view[cl][c]]]
    /\ \A cl \in Clients, c \in Kept : AnswerOK(view[cl][c], c)

KvdInv ==
    /\ ArenaInv /\ RowsPointHome
    /\ MemoryOK /\ LeasesOK /\ RowsOK /\ TiersOK /\ PutOK /\ HeldOK /\ ViewsOK

\* What every step does to the memory of a slot: a version never returns, and
\* bytes change under the same version only while it is odd.
Moves ==
    \A s \in Slots :
        \/ ver'[s] = ver[s] /\ (bytes'[s] = bytes[s] \/ ver[s] % 2 = 1)
        \/ ver'[s] > ver[s]

\* What every step but the end of a write does: nothing new is shown.
Hides ==
    \A s \in Slots :
        \/ ver'[s] = ver[s] /\ (bytes'[s] = bytes[s] \/ ver[s] % 2 = 1)
        \/ ver'[s] % 2 = 1

\* A key that has rolled off the log stays so.
LEMMA KeptShrinks ==
    /\ Kept \subseteq Composites
    /\ rolled \subseteq rolled' => Kept' \subseteq Kept
    /\ rolled' = rolled => Kept' = Kept
BY Zenon DEF Kept

\* A key that loses its slot is logged, and what the log lets go of is rolled.
LEMMA TakeLogs ==
    ASSUME NEW g, Take(g)
    PROVE  /\ rolled \subseteq rolled' /\ pending \subseteq pending' \union rolled'
           /\ g.from # None => g.from \in pending'
BY Zenon DEF Take, Logged

\* The version put() and reserve() give a slot is odd and new.
LEMMA NextOddIsNew ==
    ASSUME NEW v \in Nat PROVE NextOdd(v) \in Nat /\ NextOdd(v) > v /\ NextOdd(v) % 2 = 1
BY DEF NextOdd

\* Where the versions only move on, the answers that are out stay good.
LEMMA ViewsSurvive ==
    ASSUME MemoryOK, MemoryOK', ViewsOK, Moves, UNCHANGED view, rolled \subseteq rolled'
    PROVE  ViewsOK'
<1>0. Kept' \subseteq Kept BY Zenon, KeptShrinks
<1>. SUFFICES ASSUME NEW cl \in Clients, NEW c \in Kept,
                     view[cl][c] # None, view[cl][c].alone
     PROVE  AnswerOK(view[cl][c], c)'
  BY Zenon, <1>0 DEF ViewsOK, AnswerOK
<1>1. AnswerOK(view[cl][c], c) BY Zenon DEF ViewsOK
<1>2. CASE view[cl][c].st = "got" BY Zenon, <1>1, <1>2 DEF AnswerOK, Own
<1>3. CASE view[cl][c].st # "got"
  <2>. DEFINE s == view[cl][c].slot  n == view[cl][c].ver
  <2>1. s \in Slots /\ n \in Nat /\ n <= ver[s] BY Zenon, <1>1, <1>3 DEF AnswerOK
  <2>2. ver[s] \in Nat /\ ver'[s] \in Nat BY Zenon, <2>1 DEF MemoryOK
  <2>3. \/ ver'[s] = ver[s] /\ (bytes'[s] = bytes[s] \/ ver[s] % 2 = 1)
        \/ ver'[s] > ver[s]
    BY Zenon, <2>1 DEF Moves
  <2>4. n <= ver'[s] BY <2>1, <2>2, <2>3
  <2>5. n % 2 = 0 /\ ver'[s] = n => ver[s] = n /\ bytes'[s] = bytes[s]
    BY <2>1, <2>2, <2>3
  <2>6. Own(view[cl][c], c)' BY Zenon, <1>1, <1>3, <2>5 DEF AnswerOK, Own
  <2>. QED BY Zenon, <1>1, <2>1, <2>4, <2>6 DEF AnswerOK
<1>. QED BY Zenon, <1>2, <1>3

\* Where nothing new is shown, a row that was good stays good.
LEMMA RowSurvives ==
    ASSUME NEW r, NEW c, RowOK(r, c, ver, bytes), Hides, MemoryOK
    PROVE  RowOK(r, c, ver', bytes')
<1>. SUFFICES ASSUME r # None, r.slot \in Slots, r.slot # Inline, ver'[r.slot] % 2 = 0
     PROVE  bytes'[r.slot] \in {c, Empty}
  BY Zenon DEF RowOK
<1>1. ver'[r.slot] = ver[r.slot] /\ bytes'[r.slot] = bytes[r.slot]
  BY DEF Hides, MemoryOK
<1>. QED BY Zenon, <1>1 DEF RowOK

\* What a handler holds before its answer survives a write elsewhere.
LEMMA HeldSurvives ==
    ASSUME HeldOK, Hides, MemoryOK, UNCHANGED <<job, rolled>> PROVE HeldOK'
BY Zenon, KeptShrinks, RowSurvives DEF HeldOK

\* A single load that has stored its block holds the row it was given.
LEMMA ProceedKeepsHeld ==
    ASSUME HeldOK, NEW j, NEW c \in Composites, NEW row, Proceed(j, c, row),
           c \in Kept' => RowOK(row, c, ver', bytes'),
           j.client # None => j = job /\ job # None /\ (job.alone => c \in job.want)
    PROVE  HeldOK' /\ PutOK'
<1>1. CASE j.client = None BY Zenon, <1>1 DEF Proceed, HeldOK, PutOK
<1>2. CASE j.client # None
  <2>1. /\ job'.client = job.client /\ job'.want = job.want \ {c} /\ job'.alone = job.alone
        /\ job'.held = [job.held EXCEPT ![c] = row] /\ job'.put = None
    BY Zenon, <1>2 DEF Proceed, Handler
  <2>2. PutOK' BY Zenon, <2>1 DEF PutOK
  <2>3. ASSUME job.alone PROVE HeldOK'
    <3>1. /\ job.held = [b \in Composites |-> job.held[b]]
          /\ \A b \in Composites : job.held[b] = None
          /\ job.want \ {c} = {}
      BY <1>2, <2>3 DEF HeldOK
    <3>2. job'.held = [b \in Composites |-> IF b = c THEN row ELSE None]
      BY Zenon, <2>1, <3>1
    <3>3. \A b \in Kept' : RowOK(job'.held[b], b, ver', bytes')
      BY Zenon, <3>2 DEF RowOK, Kept
    <3>. QED BY Zenon, <2>1, <3>1, <3>2, <3>3 DEF HeldOK
  <2>4. ~job.alone => HeldOK' BY Zenon, <2>1 DEF HeldOK
  <2>. QED BY Zenon, <2>2, <2>3, <2>4
<1>. QED BY Zenon, <1>1, <1>2

\* The handler a store runs for: a save, or the load in progress.
RunsFor(j, c) ==
    \/ Idle /\ j.client = None
    \/ job # None /\ j = job /\ job.put = None /\ c \in job.want

\* Up to the mark of put(): the slot is taken and nothing is shown.
LEMMA StoreInArenaKeeps ==
    ASSUME KeysApart, KvdInv, NEW c \in Composites, NEW what, NEW ret, NEW j,
           c \in Kept => what \in {c, Empty},
           RunsFor(j, c), StoreInArena(j, c, what, ret)
    PROVE  KvdInv'
<1>. USE DEF KvdInv
<1>0. Key(c) \in Keys BY Zenon DEF Keys
<1>1. PICK g \in GrantsFor(Key(c)) :
        /\ Take(g)
        /\ index' = [Without(g.from) EXCEPT ![Key(c)] = g.slot]
        /\ bytes' = [bytes EXCEPT ![g.slot] = Torn]
        /\ job' = Handler(j.client, j.want, j.alone, j.held,
                          [c |-> c, slot |-> g.slot, what |-> what, ret |-> ret])
  BY Zenon DEF StoreInArena
<1>2. UNCHANGED <<lease, rows, used, long, spill, view>> BY Zenon DEF StoreInArena
<1>3. ArenaInv' /\ g.slot \in Slots /\ index'[Key(c)] = g.slot
  BY Zenon, <1>0, <1>1, <1>2, PutKeepsArena
<1>4. /\ ver' = [ver EXCEPT ![g.slot] = NextOdd(ver[g.slot])]
      /\ NextOdd(ver[g.slot]) \in Nat /\ NextOdd(ver[g.slot]) > ver[g.slot]
      /\ NextOdd(ver[g.slot]) % 2 = 1
  BY Zenon, <1>1, <1>3, NextOddIsNew DEF Take, MemoryOK
<1>5. MemoryOK' BY Zenon, <1>1, <1>3, <1>4 DEF MemoryOK
<1>6. Moves /\ Hides BY Zenon, <1>1, <1>3, <1>4 DEF MemoryOK, Moves, Hides
<1>15. rolled \subseteq rolled' /\ Kept' \subseteq Kept BY Zenon, <1>1, TakeLogs, KeptShrinks
<1>7. ViewsOK' BY Zenon, <1>2, <1>5, <1>6, <1>15, ViewsSurvive
<1>8. RowsOK' BY Zenon, <1>2, <1>6, <1>15, RowSurvives DEF RowsOK
<1>9. TiersOK' BY Zenon, <1>2, <1>15 DEF TiersOK
<1>10. LeasesOK'
  <2>1. \A cl \in Clients : lease[cl] # None => lease[cl].slot \in Slots \ {g.slot}
    BY <1>0, <1>2, <1>3 DEF ArenaInv, ArenaTypeOK, OneOwner, Leased, Lease
  <2>2. \A s \in Slots \ {g.slot} : ver'[s] = ver[s] /\ bytes'[s] = bytes[s]
    BY Zenon, <1>1, <1>4 DEF MemoryOK
  <2>. QED BY Zenon, <1>2, <2>1, <2>2 DEF LeasesOK
<1>11. /\ job'.client = j.client /\ job'.want = j.want /\ job'.alone = j.alone
       /\ job'.held = j.held /\ job'.put.c = c /\ job'.put.slot = g.slot
       /\ job'.put.what = what
  BY Zenon, <1>1 DEF Handler
<1>12. PutOK' BY Zenon, <1>3, <1>4, <1>11, <1>15 DEF PutOK, MemoryOK
<1>13. HeldOK'
  <2>1. CASE j.client = None BY Zenon, <2>1, <1>11 DEF HeldOK
  <2>2. CASE j.client # None
    <3>1. job # None /\ j = job /\ c \in job.want BY Zenon, <2>2 DEF RunsFor
    <3>2. ASSUME job.alone, NEW b \in Kept' PROVE RowOK(job'.held[b], b, ver', bytes')
      <4>1. b \in Composites BY Zenon, <1>15 DEF Kept
      <4>. QED BY Zenon, <2>2, <3>1, <3>2, <4>1, <1>11 DEF HeldOK, RowOK
    <3>. QED BY Zenon, <2>2, <3>1, <3>2, <1>11 DEF HeldOK
  <2>. QED BY Zenon, <2>1, <2>2
<1>14. RowsPointHome'
  <2>1. \A k \in Keys : index'[k] = index[k] \/ k \in pending' \/ index[k] = None
    <3>1. CASE index[Key(c)] # None
      BY <1>1, <3>1 DEF GrantsFor, Without, ArenaInv, ArenaTypeOK
    <3>2. CASE index[Key(c)] = None
      <4>1. g \in Grants BY Zenon, <3>2 DEF GrantsFor
      <4>2. g.from = None \/ g.from \in Keys BY Zenon, <4>1, GrantIs
      <4>3. g.from = None => Without(g.from) = index BY Zenon DEF Without
      <4>4. g.from # None => /\ Without(g.from) = [index EXCEPT ![g.from] = None]
                             /\ g.from \in pending'
        BY Zenon, <1>1, TakeLogs DEF Without
      <4>. QED BY Zenon, <1>0, <1>1, <3>2, <4>2, <4>3, <4>4 DEF ArenaInv, ArenaTypeOK
    <3>. QED BY Zenon, <3>1, <3>2
  <2>2. \A b \in Kept' : Key(b) \in pending => Key(b) \in pending'
    BY Zenon, <1>1, TakeLogs DEF Kept
  <2>3. \A b \in Kept : rows[b] # None => rows[b].slot # None
    BY Zenon, KvdConfig DEF RowsOK, RowOK
  <2>4. \A b \in Kept : Key(b) \in Keys BY Zenon DEF Keys, Kept
  <2>. QED BY Zenon, <1>2, <1>15, <2>1, <2>2, <2>3, <2>4 DEF RowsPointHome
<1>. QED BY Zenon, <1>3, <1>5, <1>7, <1>8, <1>9, <1>10, <1>12, <1>13, <1>14

\* What a good row resolves to is its block, or nothing.
LEMMA ResolveIsOwn ==
    ASSUME NEW c, NEW r, r # None, RowOK(r, c, ver, bytes) PROVE Resolve(r) \in {c, Empty}
BY Zenon DEF Resolve, RowOK

\* The rows that stay when a set of rows gives back its slots keep theirs.
LEMMA EvictKeepsHome ==
    ASSUME KeysApart, KvdInv, NEW E \in SUBSET Composites, Evict(Backed(E)),
           NEW c \in Kept \ E, rows[c] # None
    PROVE  rows[c].slot \in {Inline, index'[Key(c)]} \/ Key(c) \in pending
<1>0. c \in Composites BY Zenon DEF Kept
<1>1. Key(c) \in Keys BY Zenon, <1>0 DEF Keys
<1>2. Key(c) \notin Backed(E) BY Zenon, <1>0 DEF Backed, KeysApart
<1>3. index'[Key(c)] = index[Key(c)] BY Zenon, <1>1, <1>2 DEF Evict
<1>. QED BY Zenon, <1>3 DEF KvdInv, RowsPointHome

\* The parts of the invariant that are about the memory of the slots hold
\* after a step that leaves it alone.
LEMMA MemoryRests ==
    ASSUME KvdInv, UNCHANGED <<lease, rolled, memory, view>>
    PROVE  MemoryOK' /\ LeasesOK' /\ ViewsOK' /\ Hides
<1>1. ver' = ver /\ bytes' = bytes BY Zenon DEF memory
<1>2. Hides /\ Moves BY Zenon, <1>1 DEF Hides, Moves
<1>3. MemoryOK' BY Zenon, <1>1 DEF KvdInv, MemoryOK
<1>4. LeasesOK' BY Zenon, <1>1 DEF KvdInv, LeasesOK
<1>5. ViewsOK' BY Zenon, <1>2, <1>3, ViewsSurvive DEF KvdInv
<1>. QED BY Zenon, <1>2, <1>3, <1>4, <1>5

\* An inline store takes its victims' rows with their slots.
LEMMA StoreInlineKeeps ==
    ASSUME KeysApart, KvdInv, NEW c \in Composites, NEW what, NEW ret, NEW j,
           c \in Kept => what \in {c, Empty},
           RunsFor(j, c), StoreInline(j, c, what, ret)
    PROVE  KvdInv'
<1>. USE DEF KvdInv
<1>. DEFINE row == [slot |-> Inline, what |-> what, ret |-> ret]
<1>1. PICK E \in SUBSET Composites :
        /\ E \subseteq Victims(ret)
        /\ Evict(Backed(E)) /\ spill' = Spilled(E)
        /\ rows' = Dropped([Dropped(rows, E) EXCEPT ![c] = row], Evicted)
        /\ WriteThrough(c, ret, what) /\ Proceed(j, c, rows'[c])
  BY Zenon, VictimsAreBlocks DEF StoreInline, Drain
<1>2. pending' = {} /\ UNCHANGED <<lease, rolled, memory, view>> BY Zenon DEF StoreInline
<1>11. Kept' = Kept /\ Kept \subseteq Composites BY Zenon, <1>2, KeptShrinks
<1>3. ArenaInv' BY Zenon, <1>1, <1>2, BackedAreKeys, EvictKeepsArena
<1>4. MemoryOK' /\ LeasesOK' /\ ViewsOK' /\ ver' = ver /\ bytes' = bytes
  BY Zenon, <1>2, MemoryRests DEF memory
<1>5. rows' = [b \in Composites |-> IF b \in Evicted THEN None ELSE IF b = c THEN row
                                   ELSE IF b \in E THEN None ELSE rows[b]]
  BY Zenon, <1>1 DEF Dropped
<1>6. RowsOK'
  <2>1. ASSUME NEW b \in Kept PROVE RowOK(rows'[b], b, ver, bytes)
    BY Zenon, <1>5, <1>11 DEF RowOK, RowsOK
  <2>. QED BY Zenon, <1>4, <1>5, <1>11, <2>1 DEF RowsOK
<1>7. RowsPointHome'
  <2>. SUFFICES ASSUME NEW b \in Kept, rows'[b] # None
       PROVE  rows'[b].slot \in {Inline, index'[Key(b)]}
    BY Zenon, <1>11 DEF RowsPointHome
  <2>0. b \in Composites BY Zenon, <1>11
  <2>1. Key(b) \notin pending BY Zenon, <1>5, <2>0 DEF Evicted
  <2>2. CASE b = c BY Zenon, <1>5, <2>0, <2>2
  <2>3. CASE b # c
    <3>1. b \notin E /\ rows'[b] = rows[b] BY Zenon, <1>5, <2>0, <2>3
    <3>. QED BY Zenon, <1>1, <2>1, <3>1, EvictKeepsHome
  <2>. QED BY Zenon, <2>2, <2>3
<1>8. TiersOK'
  <2>1. \A b \in Kept : spill'[b] \in {None, b, Empty}
    BY Zenon, <1>1, <1>11, ResolveIsOwn DEF Spilled, TiersOK, RowsOK, Victims
  <2>2. spill' = [b \in Composites |-> spill'[b]] BY Zenon, <1>1 DEF Spilled
  <2>3. long' = [b \in Composites |-> long'[b]] /\ \A b \in Kept : long'[b] \in {None, b, Empty}
    BY Zenon, <1>1, <1>11 DEF WriteThrough, TiersOK
  <2>. QED BY Zenon, <1>11, <2>1, <2>2, <2>3 DEF TiersOK
<1>9. c \in Kept' => RowOK(rows'[c], c, ver', bytes') BY Zenon, <1>6 DEF RowsOK
<1>10. HeldOK' /\ PutOK' BY Zenon, <1>1, <1>9, ProceedKeepsHeld DEF RunsFor
<1>. QED BY Zenon, <1>3, <1>4, <1>6, <1>7, <1>8, <1>10

\* A refused store has taken its victims all the same.
LEMMA StoreRefusedKeeps ==
    ASSUME KeysApart, KvdInv, NEW c \in Composites, NEW what, NEW ret, NEW j,
           c \in Kept => what \in {c, Empty},
           RunsFor(j, c), StoreRefused(j, c, what, ret)
    PROVE  KvdInv'
<1>. USE DEF KvdInv
<1>. DEFINE E == Victims(ret)  row == [slot |-> Inline, what |-> what, ret |-> ret]
<1>1. /\ E \in SUBSET Composites /\ Evict(Backed(E)) /\ rows' = Dropped(rows, E)
      /\ Proceed(j, c, row) /\ UNCHANGED <<lease, pending, rolled, memory, ssd, view>>
  BY Zenon, VictimsAreBlocks DEF StoreRefused, log
<1>10. Kept' = Kept /\ Kept \subseteq Composites BY Zenon, <1>1, KeptShrinks
<1>2. ArenaInv' BY Zenon, <1>1, BackedAreKeys, EvictKeepsArena
<1>3. MemoryOK' /\ LeasesOK' /\ ViewsOK' /\ ver' = ver /\ bytes' = bytes
  BY Zenon, <1>1, MemoryRests DEF memory
<1>4. rows' = [b \in Composites |-> IF b \in E THEN None ELSE rows[b]] BY Zenon, <1>1
                                                                          DEF Dropped
<1>5. RowsOK' BY Zenon, <1>3, <1>4, <1>10 DEF RowsOK, RowOK
<1>6. RowsPointHome' BY Zenon, <1>1, <1>4, <1>10, EvictKeepsHome DEF RowsPointHome
<1>7. TiersOK' BY Zenon, <1>1, <1>10 DEF TiersOK, ssd
<1>8. c \in Kept' => RowOK(row, c, ver', bytes') BY Zenon, <1>10 DEF RowOK
<1>9. HeldOK' /\ PutOK' BY Zenon, <1>1, <1>8, ProceedKeepsHeld DEF RunsFor
<1>. QED BY Zenon, <1>2, <1>3, <1>5, <1>6, <1>7, <1>9

\* set() keeps the invariant whichever way it stores the block.
LEMMA StoreKeeps ==
    ASSUME KeysApart, KvdInv, NEW c \in Composites, NEW what, NEW ret, NEW j,
           c \in Kept => what \in {c, Empty},
           RunsFor(j, c), Store(j, c, what, ret)
    PROVE  KvdInv'
<1>1. CASE StoreRaises(j, c, what, ret)
  <2>1. /\ UNCHANGED <<index, free, lease, pending, rolled, memory, rows, long, spill, view>>
        /\ job' = None
    BY Zenon, <1>1 DEF StoreRaises, arena, log, store, ssd
  <2>5. Kept' = Kept BY Zenon, <2>1, KeptShrinks
  <2>2. MemoryOK' /\ LeasesOK' /\ ViewsOK' BY Zenon, <2>1, MemoryRests
  <2>3. ArenaInv' BY <2>1 DEF KvdInv, ArenaInv, ArenaTypeOK, OneOwner, Leased
  <2>4. RowsOK' /\ RowsPointHome' /\ TiersOK'
    BY Zenon, <2>1, <2>5 DEF KvdInv, RowsOK, RowsPointHome, TiersOK, memory
  <2>. QED BY Zenon, <2>1, <2>2, <2>3, <2>4 DEF KvdInv, PutOK, HeldOK
<1>. QED BY Zenon, <1>1, StoreInArenaKeeps, StoreInlineKeeps, StoreRefusedKeeps DEF Store

\* The end of put(): the rows that show the slot are those of its block.
LEMMA WrittenKeeps == ASSUME KeysApart, KvdInv, Written PROVE KvdInv'
<1>. USE DEF KvdInv
<1>. DEFINE p == job.put  row == [slot |-> p.slot, what |-> Empty, ret |-> p.ret]
<1>1. /\ job # None /\ p # None
      /\ bytes' = [bytes EXCEPT ![p.slot] = p.what]
      /\ ver' = [ver EXCEPT ![p.slot] = @ + 1]
      /\ rows' = Dropped([rows EXCEPT ![p.c] = row], Evicted)
      /\ pending' = {} /\ WriteThrough(p.c, p.ret, p.what) /\ Proceed(job, p.c, rows'[p.c])
      /\ UNCHANGED <<index, free, lease, rolled, spill, budget, view>>
  BY Zenon DEF Written, Drain
<1>17. Kept' = Kept /\ Kept \subseteq Composites BY Zenon, <1>1, KeptShrinks
<1>2. /\ p.c \in Composites /\ p.slot \in Slots /\ index[Key(p.c)] = p.slot
      /\ ver[p.slot] % 2 = 1 /\ (p.c \in Kept => p.what \in {p.c, Empty})
  BY Zenon, <1>1 DEF PutOK
<1>3. \A b \in Composites : Key(b) \in Keys BY Zenon DEF Keys
<1>4. ArenaInv' BY <1>1 DEF ArenaInv, ArenaTypeOK, OneOwner, Leased
<1>5. MemoryOK' BY SMTT(30), <1>1, <1>2 DEF MemoryOK
<1>6. Moves BY <1>1, <1>2 DEF Moves, MemoryOK
<1>7. ViewsOK' BY Zenon, <1>1, <1>5, <1>6, ViewsSurvive
<1>8. LeasesOK'
  <2>1. \A cl \in Clients : lease[cl] # None => lease[cl].slot \in Slots \ {p.slot}
    BY <1>2, <1>3 DEF ArenaInv, ArenaTypeOK, OneOwner, Leased, Lease
  <2>2. \A s \in Slots \ {p.slot} : ver'[s] = ver[s] /\ bytes'[s] = bytes[s]
    BY Zenon, <1>1 DEF MemoryOK
  <2>3. ASSUME NEW cl \in Clients, lease[cl] # None
        PROVE  /\ ver'[lease[cl].slot] % 2 = 1
               /\ lease[cl].block # None => bytes'[lease[cl].slot] = lease[cl].block
    <3>1. /\ ver'[lease[cl].slot] = ver[lease[cl].slot]
          /\ bytes'[lease[cl].slot] = bytes[lease[cl].slot]
      BY Zenon, <2>1, <2>2, <2>3
    <3>2. /\ ver[lease[cl].slot] % 2 = 1
          /\ lease[cl].block # None => bytes[lease[cl].slot] = lease[cl].block
      BY Zenon, <2>3 DEF LeasesOK
    <3>. QED BY Zenon, <3>1, <3>2
  <2>4. lease' = lease BY Zenon, <1>1
  <2>. HIDE DEF KvdInv, p, row
  <2>. QED BY Zenon, <2>3, <2>4 DEF LeasesOK
<1>9. rows' = [b \in Composites |-> IF b \in Evicted THEN None ELSE IF b = p.c THEN row ELSE rows[b]]
  BY Zenon, <1>1 DEF Dropped, RowsOK
<1>10. ASSUME NEW b \in Kept, rows'[b] # None
       PROVE  /\ rows'[b].slot \in {Inline, index[Key(b)]}
              /\ b # p.c => rows'[b] = rows[b] /\ rows[b].slot # p.slot
  <2>0. b \in Composites BY Zenon, <1>17
  <2>1. Key(b) \notin pending BY Zenon, <1>9, <1>10, <2>0 DEF Evicted
  <2>2. CASE b = p.c BY Zenon, <1>2, <1>9, <1>10, <2>2
  <2>3. CASE b # p.c
    <3>1. rows'[b] = rows[b] BY Zenon, <1>9, <1>10, <2>0, <2>3
    <3>2. rows[b].slot \in {Inline, index[Key(b)]} BY Zenon, <1>10, <2>1, <3>1 DEF RowsPointHome
    <3>3. index[Key(b)] # p.slot
      BY <1>2, <1>3, <2>0, <2>3 DEF KeysApart, ArenaInv, OneOwner
    <3>4. Inline # p.slot BY <1>2, KvdConfig DEF Inline
    <3>. QED BY Zenon, <2>3, <3>1, <3>2, <3>3, <3>4
  <2>. QED BY Zenon, <2>2, <2>3
<1>11. RowsPointHome' BY Zenon, <1>1, <1>10, <1>17 DEF RowsPointHome
<1>12. RowsOK'
  <2>1. ASSUME NEW b \in Kept PROVE RowOK(rows'[b], b, ver', bytes')
    <3>1. CASE rows'[b] = None BY Zenon, <3>1 DEF RowOK
    <3>2. CASE rows'[b] # None /\ b = p.c
      <4>1. rows'[b] = row BY Zenon, <1>2, <1>9, <3>2
      <4>2. p.slot # Inline BY <1>2, KvdConfig DEF Inline
      <4>3. bytes'[p.slot] \in {b, Empty} BY Zenon, <1>1, <1>2, <3>2 DEF MemoryOK
      <4>4. rows'[b].slot = p.slot BY <4>1
      <4>. QED BY Zenon, <1>2, <4>2, <4>3, <4>4 DEF RowOK
    <3>3. CASE rows'[b] # None /\ b # p.c
      <4>1. rows'[b] = rows[b] /\ rows[b].slot # p.slot BY Zenon, <1>10, <3>3
      <4>2. RowOK(rows[b], b, ver, bytes) BY Zenon DEF RowsOK
      <4>. QED BY Zenon, <1>1, <4>1, <4>2 DEF RowOK, MemoryOK
    <3>. QED BY Zenon, <3>1, <3>2, <3>3
  <2>. QED BY Zenon, <1>9, <1>17, <2>1 DEF RowsOK
<1>13. TiersOK' BY Zenon, <1>1, <1>2, <1>17 DEF WriteThrough, TiersOK
<1>14. p.c \in Kept' => RowOK(rows'[p.c], p.c, ver', bytes') BY Zenon, <1>12 DEF RowsOK
<1>15. job.client # None => (job.alone => p.c \in job.want) BY Zenon, <1>1 DEF HeldOK
<1>16. HeldOK' /\ PutOK' BY Zenon, <1>1, <1>2, <1>14, <1>15, ProceedKeepsHeld
<1>. QED BY Zenon, <1>4, <1>5, <1>7, <1>8, <1>11, <1>12, <1>13, <1>16

\* A commit shows its slot to the row of its block alone: the rows that had
\* the slot before it was leased are in the log it drains.
LEMMA CommitKeeps ==
    ASSUME KeysApart, KvdInv, NEW cl \in Clients, NEW ret, Commit(cl, ret) PROVE KvdInv'
<1>. USE DEF KvdInv
<1>. DEFINE c == lease[cl].block  k == Key(c)  s == lease[cl].slot
            over == IF index[k] # None THEN {b \in Composites : Key(b) = k} ELSE {}
            row == [slot |-> SlotOrInline(s), what |-> Empty, ret |-> ret]
<1>1. /\ Idle /\ lease[cl] # None /\ c # None
      /\ free' = free \union ({index[k]} \ {None}) /\ index' = [index EXCEPT ![k] = s]
      /\ lease' = [lease EXCEPT ![cl] = None] /\ ver' = [ver EXCEPT ![s] = @ + 1]
      /\ rows' = Dropped([Dropped(rows, over) EXCEPT ![c] = row], Evicted)
      /\ pending' = {} /\ UNCHANGED <<rolled, bytes, ssd, job, budget, view>>
  BY Zenon DEF Commit, Drain
<1>17. Kept' = Kept /\ Kept \subseteq Composites BY Zenon, <1>1, KeptShrinks
<1>2. c \in Composites /\ s \in Slots BY Zenon, <1>1 DEF ArenaInv, ArenaTypeOK, Lease
<1>3. \A b \in Composites : Key(b) \in Keys BY Zenon DEF Keys
<1>4. ArenaInv' BY Zenon, <1>1, <1>2, <1>3, CommitKeepsArena
<1>5. ver[s] % 2 = 1 /\ bytes[s] = c BY Zenon, <1>1 DEF LeasesOK
<1>6. MemoryOK' BY <1>1, <1>2 DEF MemoryOK
<1>7. Moves BY <1>1, <1>2 DEF Moves, MemoryOK
<1>8. ViewsOK' BY Zenon, <1>1, <1>6, <1>7, ViewsSurvive
<1>9. LeasesOK'
  <2>1. \A d \in Clients : d # cl /\ lease[d] # None => lease[d].slot \in Slots \ {s}
    BY Zenon, <1>1, <1>2 DEF ArenaInv, ArenaTypeOK, OneOwner, Leased, Lease
  <2>2. \A t \in Slots \ {s} : ver'[t] = ver[t] BY Zenon, <1>1 DEF MemoryOK
  <2>. QED BY <1>1, <2>1, <2>2 DEF LeasesOK, ArenaInv, ArenaTypeOK
<1>10. rows' = [b \in Composites |-> IF b \in Evicted THEN None ELSE IF b = c THEN row
                                    ELSE IF b \in over THEN None ELSE rows[b]]
  BY Zenon, <1>1 DEF Dropped
<1>11. ASSUME NEW b \in Kept, rows'[b] # None, b # c
       PROVE  /\ rows'[b] = rows[b] /\ rows[b].slot # s
              /\ rows[b].slot \in {Inline, index'[Key(b)]}
  <2>0. b \in Composites BY Zenon, <1>17
  <2>1. Key(b) \notin pending /\ rows'[b] = rows[b] BY Zenon, <1>10, <1>11, <2>0 DEF Evicted
  <2>2. rows[b].slot \in {Inline, index[Key(b)]} BY Zenon, <1>11, <2>1 DEF RowsPointHome
  <2>3. Key(b) # k BY Zenon, <1>2, <1>11, <2>0 DEF KeysApart
  <2>4. index'[Key(b)] = index[Key(b)] BY Zenon, <1>1, <1>3, <2>0, <2>3
                                          DEF ArenaInv, ArenaTypeOK
  <2>5. index[Key(b)] # s BY Zenon, <1>1, <1>2, <1>3, <2>0 DEF ArenaInv, OneOwner, Leased
  <2>6. Inline # s BY <1>2, KvdConfig DEF Inline
  <2>. QED BY Zenon, <2>1, <2>2, <2>4, <2>5, <2>6
<1>12. rows'[c] # None => rows'[c] = row BY Zenon, <1>2, <1>10
<1>13. RowsPointHome'
  <2>1. index'[k] = s BY Zenon, <1>1, <1>2, <1>3 DEF ArenaInv, ArenaTypeOK
  <2>2. row.slot \in {Inline, s} BY Zenon DEF SlotOrInline
  <2>. QED BY Zenon, <1>11, <1>12, <1>17, <2>1, <2>2 DEF RowsPointHome
<1>14. RowsOK'
  <2>1. ASSUME NEW b \in Kept PROVE RowOK(rows'[b], b, ver', bytes')
    <3>1. CASE rows'[b] = None BY Zenon, <3>1 DEF RowOK
    <3>2. CASE rows'[b] # None /\ b = c
      <4>1. row.slot \in {Inline, s} /\ row.what = Empty BY Zenon DEF SlotOrInline
      <4>. QED BY Zenon, <1>1, <1>2, <1>5, <1>12, <3>2, <4>1 DEF RowOK
    <3>3. CASE rows'[b] # None /\ b # c
      <4>1. rows'[b] = rows[b] /\ rows[b].slot # s BY Zenon, <1>11, <3>3
      <4>2. RowOK(rows[b], b, ver, bytes) BY Zenon DEF RowsOK
      <4>. QED BY Zenon, <1>1, <4>1, <4>2 DEF RowOK, MemoryOK
    <3>. QED BY Zenon, <3>1, <3>2, <3>3
  <2>. QED BY Zenon, <1>10, <1>17, <2>1 DEF RowsOK
<1>15. TiersOK' BY Zenon, <1>1, <1>17 DEF TiersOK, ssd
<1>16. HeldOK' /\ PutOK' BY Zenon, <1>1 DEF Idle, HeldOK, PutOK
<1>. QED BY Zenon, <1>4, <1>6, <1>8, <1>9, <1>13, <1>14, <1>15, <1>16

\* reserve() marks the slot and logs the key that loses it.
LEMMA ReserveKeeps == ASSUME KvdInv, NEW cl \in Clients, Reserve(cl) PROVE KvdInv'
<1>. USE DEF KvdInv
<1>1. PICK g \in Grants :
        /\ Take(g) /\ index' = Without(g.from)
        /\ lease' = [lease EXCEPT ![cl] = [slot |-> g.slot, block |-> None]]
  BY Zenon DEF Reserve
<1>2. /\ Idle /\ lease[cl] = None
      /\ UNCHANGED <<bytes, rows, long, spill, job, view>>
  BY Zenon DEF Reserve, store, ssd
<1>3. ArenaInv' /\ g.slot \in Slots BY Zenon, <1>1, <1>2, ReserveKeepsArena
<1>4. /\ ver' = [ver EXCEPT ![g.slot] = NextOdd(ver[g.slot])]
      /\ NextOdd(ver[g.slot]) \in Nat /\ NextOdd(ver[g.slot]) > ver[g.slot]
      /\ NextOdd(ver[g.slot]) % 2 = 1
  BY Zenon, <1>1, <1>3, NextOddIsNew DEF Take, MemoryOK
<1>5. MemoryOK' BY Zenon, <1>2, <1>3, <1>4 DEF MemoryOK
<1>6. Moves /\ Hides BY Zenon, <1>2, <1>3, <1>4 DEF MemoryOK, Moves, Hides
<1>13. rolled \subseteq rolled' /\ Kept' \subseteq Kept BY Zenon, <1>1, TakeLogs, KeptShrinks
<1>7. ViewsOK' BY Zenon, <1>2, <1>5, <1>6, <1>13, ViewsSurvive
<1>8. RowsOK' BY Zenon, <1>2, <1>6, <1>13, RowSurvives DEF RowsOK
<1>9. TiersOK' BY Zenon, <1>2, <1>13 DEF TiersOK
<1>10. HeldOK' /\ PutOK' BY Zenon, <1>2 DEF Idle, HeldOK, PutOK
<1>11. LeasesOK'
  <2>1. \A d \in Clients : d # cl => lease'[d] = lease[d]
    BY Zenon, <1>1 DEF ArenaInv, ArenaTypeOK
  <2>2. lease'[cl].slot = g.slot /\ lease'[cl].block = None
    BY Zenon, <1>1 DEF ArenaInv, ArenaTypeOK
  <2>3. \A d \in Clients : d # cl /\ lease[d] # None => lease[d].slot \in Slots
    BY Zenon DEF ArenaInv, ArenaTypeOK, Lease
  <2>4. \A d \in Clients : d # cl /\ lease[d] # None =>
          ver'[lease[d].slot] % 2 = 1 /\ bytes'[lease[d].slot] = bytes[lease[d].slot]
    BY Zenon, <1>2, <1>3, <1>4, <2>3 DEF LeasesOK, MemoryOK
  <2>5. ver'[g.slot] % 2 = 1 BY Zenon, <1>3, <1>4 DEF MemoryOK
  <2>. QED BY <2>1, <2>2, <2>4, <2>5 DEF LeasesOK
<1>12. RowsPointHome'
  <2>1. g.from = None => index' = index BY Zenon, <1>1 DEF Without
  <2>2. g.from # None => index' = [index EXCEPT ![g.from] = None] /\ g.from \in pending'
    BY Zenon, <1>1, TakeLogs DEF Without
  <2>3. \A b \in Kept' : Key(b) \in pending => Key(b) \in pending'
    BY Zenon, <1>1, TakeLogs DEF Kept
  <2>4. \A k \in Keys : index'[k] = index[k] \/ k \in pending'
    BY Zenon, <2>1, <2>2 DEF ArenaInv, ArenaTypeOK
  <2>5. \A b \in Kept : Key(b) \in Keys BY Zenon DEF Keys, Kept
  <2>. QED BY Zenon, <1>2, <1>13, <2>3, <2>4, <2>5 DEF RowsPointHome
<1>. QED BY Zenon, <1>3, <1>5, <1>7, <1>8, <1>9, <1>10, <1>11, <1>12

\* An engine writes only the slot it has leased, which is marked.
LEMMA FillKeeps ==
    ASSUME KvdInv, NEW cl \in Clients, NEW c \in Composites, Fill(cl, c) PROVE KvdInv'
<1>. USE DEF KvdInv
<1>. DEFINE s == lease[cl].slot
<1>1. /\ lease[cl] # None /\ bytes' = [bytes EXCEPT ![s] = c]
      /\ UNCHANGED <<index, free, pending, rolled, ver, rows, long, spill, job, view>>
  BY Zenon DEF Fill, log, store, ssd
<1>11. Kept' = Kept BY Zenon, <1>1, KeptShrinks
<1>2. ArenaInv' /\ lease' = [lease EXCEPT ![cl] = [slot |-> s, block |-> c]]
  BY Zenon, FillKeepsArena
<1>3. s \in Slots /\ ver[s] % 2 = 1 BY Zenon, <1>1 DEF LeasesOK, ArenaInv, ArenaTypeOK, Lease
<1>4. MemoryOK' BY Zenon, <1>1 DEF MemoryOK
<1>5. Moves /\ Hides BY Zenon, <1>1, <1>3 DEF MemoryOK, Moves, Hides
<1>6. ViewsOK' BY Zenon, <1>1, <1>4, <1>5, ViewsSurvive
<1>7. RowsOK' BY Zenon, <1>1, <1>5, <1>11, RowSurvives DEF RowsOK
<1>8. TiersOK' /\ RowsPointHome' /\ PutOK'
  BY Zenon, <1>1, <1>11 DEF TiersOK, RowsPointHome, PutOK
<1>9. HeldOK' BY Zenon, <1>1, <1>5, HeldSurvives
<1>10. LeasesOK'
  <2>1. \A d \in Clients : d # cl => lease'[d] = lease[d]
    BY Zenon, <1>2 DEF ArenaInv, ArenaTypeOK
  <2>2. lease'[cl].slot = s /\ lease'[cl].block = c
    BY Zenon, <1>2 DEF ArenaInv, ArenaTypeOK
  <2>3. \A d \in Clients : d # cl /\ lease[d] # None => lease[d].slot \in Slots \ {s}
    BY Zenon, <1>1, <1>3 DEF ArenaInv, ArenaTypeOK, OneOwner, Leased, Lease
  <2>4. \A t \in Slots \ {s} : bytes'[t] = bytes[t] BY Zenon, <1>1 DEF MemoryOK
  <2>5. bytes'[s] = c BY Zenon, <1>1, <1>3 DEF MemoryOK
  <2>. QED BY <1>1, <1>3, <2>1, <2>2, <2>3, <2>4, <2>5 DEF LeasesOK
<1>. QED BY Zenon, <1>2, <1>4, <1>6, <1>7, <1>8, <1>9, <1>10

\* Expiry and clear() drop rows with their slots.
LEMMA DropKeeps ==
    ASSUME KeysApart, KvdInv, NEW E \in SUBSET Composites, Idle, rows' = Dropped(rows, E),
           Evict(Backed(E)), TiersOK', UNCHANGED <<lease, log, memory, job, view>>
    PROVE  KvdInv'
<1>. USE DEF KvdInv
<1>1. ArenaInv' BY Zenon, BackedAreKeys, EvictKeepsArena
<1>7. UNCHANGED <<pending, rolled>> BY Zenon DEF log
<1>8. Kept' = Kept /\ Kept \subseteq Composites BY Zenon, <1>7, KeptShrinks
<1>2. MemoryOK' /\ LeasesOK' /\ ViewsOK' /\ ver' = ver /\ bytes' = bytes
  BY Zenon, <1>7, MemoryRests DEF memory
<1>3. rows' = [b \in Composites |-> IF b \in E THEN None ELSE rows[b]] BY Zenon DEF Dropped
<1>4. RowsOK' BY Zenon, <1>2, <1>3, <1>8 DEF RowsOK, RowOK
<1>5. RowsPointHome' BY Zenon, <1>3, <1>7, <1>8, EvictKeepsHome DEF RowsPointHome
<1>6. HeldOK' /\ PutOK' BY Zenon DEF Idle, HeldOK, PutOK
<1>. QED BY Zenon, <1>1, <1>2, <1>4, <1>5, <1>6

\* A lease that is given up leaves its slot marked.
LEMMA ReleaseKeeps ==
    ASSUME KvdInv, NEW cl \in Clients, Release(cl), ViewsOK',
           UNCHANGED <<index, log, memory, store, ssd, job>>
    PROVE  KvdInv'
<1>. USE DEF KvdInv
<1>1. UNCHANGED <<pending, rolled, ver, bytes, rows, long, spill>>
  BY Zenon DEF log, memory, store, ssd
<1>7. Kept' = Kept BY Zenon, <1>1, KeptShrinks
<1>2. ArenaInv' BY Zenon, ReleaseKeepsArena
<1>3. LeasesOK' BY Zenon, <1>1 DEF Release, LeasesOK, ArenaInv, ArenaTypeOK
<1>4. MemoryOK' /\ RowsOK' /\ TiersOK' BY Zenon, <1>1, <1>7 DEF MemoryOK, RowsOK, TiersOK
<1>5. RowsPointHome' /\ PutOK' BY Zenon, <1>1, <1>7 DEF RowsPointHome, PutOK
<1>6. HeldOK' BY Zenon, <1>1, <1>7 DEF HeldOK
<1>. QED BY Zenon, <1>2, <1>3, <1>4, <1>5, <1>6

\* A step that leaves the arena, the memory and the store alone.
LEMMA QuietKeeps ==
    ASSUME KvdInv, UNCHANGED <<arena, memory, rows>>, TiersOK', PutOK', HeldOK', ViewsOK'
    PROVE  KvdInv'
<1>1. UNCHANGED <<index, free, lease, pending, rolled, ver, bytes, rows>>
  BY Zenon DEF arena, log, memory
<1>4. Kept' = Kept BY Zenon, <1>1, KeptShrinks
<1>2. ArenaInv' BY <1>1 DEF KvdInv, ArenaInv, ArenaTypeOK, OneOwner, Leased
<1>3. RowsPointHome' /\ MemoryOK' /\ LeasesOK' /\ RowsOK'
  BY Zenon, <1>1, <1>4 DEF KvdInv, RowsPointHome, MemoryOK, LeasesOK, RowsOK
<1>. QED BY Zenon, <1>2, <1>3 DEF KvdInv

\* Where the memory does not change, the views are as good as their answers.
LEMMA ViewsOfAnswers ==
    ASSUME ver' = ver, bytes' = bytes, Kept' = Kept,
           view' = [e \in Clients |-> [c \in Composites |-> view'[e][c]]],
           \A e \in Clients, c \in Kept : AnswerOK(view'[e][c], c)
    PROVE  ViewsOK'
BY DEF ViewsOK, AnswerOK, Own

\* A load begins with the rows of its blocks; a single one has one to wait for.
LEMMA GetKeeps ==
    ASSUME KvdInv, NEW cl \in Clients, NEW C \in SUBSET Composites, Get(cl, C) PROVE KvdInv'
<1>. USE DEF KvdInv
<1>. DEFINE held == [c \in Composites |-> IF c \in C THEN rows[c] ELSE None]
            want == {c \in C : rows[c] = None}
<1>1. /\ job' = Handler(cl, want, \E c \in C : C = {c}, held, None)
      /\ view' = [view EXCEPT ![cl] = Nothing]
      /\ UNCHANGED <<arena, memory, store, ssd>>
  BY Zenon DEF Get
<1>2. /\ job'.client = cl /\ job'.want = want /\ job'.held = held /\ job'.put = None
      /\ job'.alone = (\E c \in C : C = {c})
  BY Zenon, <1>1 DEF Handler
<1>3. PutOK' BY Zenon, <1>2 DEF PutOK
<1>7. Kept' = Kept /\ Kept \subseteq Composites BY Zenon, <1>1, KeptShrinks DEF arena, log
<1>4. HeldOK'
  <2>1. \A c \in Kept : RowOK(held[c], c, ver, bytes) BY Zenon, <1>7 DEF RowsOK, RowOK
  <2>2. \A c \in Kept' : RowOK(job'.held[c], c, ver', bytes')
    BY Zenon, <1>1, <1>2, <1>7, <2>1 DEF memory
  <2>3. job'.held = [c \in Composites |-> job'.held[c]] BY Zenon, <1>2
  <2>4. ASSUME job'.alone
        PROVE  /\ job'.want # {} => \A c \in Composites : job'.held[c] = None
               /\ \A b, c \in job'.want : b = c
    <3>1. PICK d \in C : C = {d} BY Zenon, <1>2, <2>4
    <3>. QED BY <1>2, <3>1
  <2>. QED BY Zenon, <1>2, <2>2, <2>3, <2>4 DEF HeldOK
<1>5. TiersOK' /\ UNCHANGED rows BY Zenon, <1>1, <1>7 DEF TiersOK, ssd, store
<1>6. ViewsOK'
  <2>1. view' = [e \in Clients |-> IF e = cl THEN Nothing ELSE [c \in Composites |-> view[e][c]]]
    BY Zenon, <1>1 DEF ViewsOK
  <2>2. view' = [e \in Clients |-> [c \in Composites |-> view'[e][c]]]
    BY Zenon, <2>1 DEF Nothing
  <2>3. \A e \in Clients, c \in Composites : view'[e][c] # None => view'[e][c] = view[e][c]
    BY Zenon, <2>1 DEF Nothing
  <2>4. ver' = ver /\ bytes' = bytes BY Zenon, <1>1 DEF memory
  <2>5. ASSUME NEW e \in Clients, NEW c \in Kept PROVE AnswerOK(view'[e][c], c)
    <3>1. CASE view'[e][c] = None BY Zenon, <3>1 DEF AnswerOK
    <3>2. CASE view'[e][c] # None
      <4>1. view'[e][c] = view[e][c] BY Zenon, <1>7, <2>3, <3>2
      <4>. QED BY Zenon, <4>1 DEF ViewsOK
    <3>. QED BY Zenon, <3>1, <3>2
  <2>. QED BY Zenon, <1>7, <2>2, <2>4, <2>5, ViewsOfAnswers
<1>. QED BY Zenon, <1>1, <1>3, <1>4, <1>5, <1>6, QuietKeeps

\* What is answered about a block is good for as long as its version stands.
LEMMA AnswerIsOwn ==
    ASSUME KvdInv, job # None, NEW cl \in Clients, NEW c \in Composites, NEW r, NEW a,
           a = AnswerFor(cl, r), a # None, job.alone, RowOK(r, c, ver, bytes)
    PROVE  AnswerOK(a, c)
<1>1. r # None BY Zenon DEF AnswerFor
<1>2. CASE cl \in Sharing /\ r.slot # Inline
  <2>1. a = [st |-> "answered", slot |-> r.slot, ver |-> ver[r.slot], alone |-> job.alone]
    BY Zenon, <1>1, <1>2 DEF AnswerFor
  <2>2. a.st = "answered" /\ a.slot = r.slot /\ a.ver = ver[r.slot]
    BY <2>1
  <2>3. r.slot \in Slots /\ ver[r.slot] \in Nat BY Zenon, <1>1, <1>2 DEF KvdInv, MemoryOK, RowOK
  <2>. QED BY <1>1, <1>2, <2>2, <2>3 DEF AnswerOK, Own, RowOK
<1>3. CASE ~(cl \in Sharing /\ r.slot # Inline)
  <2>1. a = [st |-> "got", what |-> Resolve(r), sound |-> TRUE, alone |-> job.alone]
    BY Zenon, <1>1, <1>3 DEF AnswerFor
  <2>2. a.st = "got" /\ a.what = Resolve(r) BY <2>1
  <2>. QED BY Zenon, <1>1, <2>2, ResolveIsOwn DEF AnswerOK, Own
<1>. QED BY Zenon, <1>2, <1>3

\* An answer says whether its load was a single one.
LEMMA AnswerIsAlone ==
    ASSUME NEW cl, NEW r, AnswerFor(cl, r) # None PROVE AnswerFor(cl, r).alone = job.alone
<1>1. r # None BY Zenon DEF AnswerFor
<1>2. CASE cl \in Sharing /\ r.slot # Inline
  <2>1. AnswerFor(cl, r) = [st |-> "answered", slot |-> r.slot, ver |-> ver[r.slot], alone |-> job.alone]
    BY Zenon, <1>1, <1>2 DEF AnswerFor
  <2>. QED BY <2>1
<1>3. CASE ~(cl \in Sharing /\ r.slot # Inline)
  <2>1. AnswerFor(cl, r) = [st |-> "got", what |-> Resolve(r), sound |-> TRUE, alone |-> job.alone]
    BY Zenon, <1>1, <1>3 DEF AnswerFor
  <2>. QED BY <2>1
<1>. QED BY Zenon, <1>2, <1>3

\* The answer of a get names the slot of the block that was asked for.
LEMMA ReplyKeeps == ASSUME KvdInv, Reply PROVE KvdInv'
<1>. USE DEF KvdInv
<1>. DEFINE answer == [c \in Composites |-> AnswerFor(job.client, job.held[c])]
<1>1. /\ job # None /\ job.client # None /\ job' = None
      /\ view' = [view EXCEPT ![job.client] = answer]
      /\ UNCHANGED <<arena, memory, store, ssd>>
  BY Zenon DEF Reply
<1>2. PutOK' /\ HeldOK' BY Zenon, <1>1 DEF PutOK, HeldOK
<1>9. Kept' = Kept /\ Kept \subseteq Composites BY Zenon, <1>1, KeptShrinks DEF arena, log
<1>3. TiersOK' /\ UNCHANGED rows BY Zenon, <1>1, <1>9 DEF TiersOK, ssd, store
<1>4. ver' = ver /\ bytes' = bytes BY Zenon, <1>1 DEF memory
<1>5. view' = [e \in Clients |-> IF e = job.client THEN answer ELSE [c \in Composites |-> view[e][c]]]
  BY Zenon, <1>1 DEF ViewsOK
<1>6. view' = [e \in Clients |-> [c \in Composites |-> view'[e][c]]] BY Zenon, <1>5
<1>7. ASSUME NEW e \in Clients, NEW c \in Kept, view'[e][c] # None, view'[e][c].alone
      PROVE  AnswerOK(view'[e][c], c)
  <2>0. c \in Composites BY Zenon, <1>9
  <2>1. CASE e # job.client
    <3>1. view'[e][c] = view[e][c] BY Zenon, <1>5, <2>0, <2>1
    <3>. QED BY Zenon, <1>7, <3>1 DEF ViewsOK
  <2>2. CASE e = job.client
    <3>1. view'[e][c] = AnswerFor(e, job.held[c]) BY Zenon, <1>5, <2>0, <2>2
    <3>2. job.alone BY Zenon, <1>7, <3>1, AnswerIsAlone
    <3>3. RowOK(job.held[c], c, ver, bytes) BY Zenon, <1>1, <3>2 DEF HeldOK
    <3>. QED BY Zenon, <1>1, <1>7, <2>0, <3>1, <3>2, <3>3, AnswerIsOwn
  <2>. QED BY Zenon, <2>1, <2>2
<1>8. ViewsOK'
  <2>1. \A e \in Clients, c \in Kept : AnswerOK(view'[e][c], c)
    BY Zenon, <1>7 DEF AnswerOK
  <2>. HIDE DEF KvdInv
  <2>. QED BY Zenon, <1>4, <1>6, <1>9, <2>1, ViewsOfAnswers
<1>. QED BY Zenon, <1>1, <1>2, <1>3, <1>8, QuietKeeps

\* An engine checks the version it was given, then copies the bytes.
LEMMA ReadKeeps ==
    ASSUME KvdInv, NEW cl \in Clients, NEW c \in Composites, Check(cl, c) \/ Copy(cl, c)
    PROVE  KvdInv'
<1>. USE DEF KvdInv
<1>. DEFINE a == view[cl][c]
            checked == IF a.ver % 2 = 0 /\ ver[a.slot] = a.ver
                       THEN [st |-> "viewing", slot |-> a.slot, ver |-> a.ver, alone |-> a.alone]
                       ELSE None
            copied == [st |-> "got", what |-> bytes[a.slot], sound |-> ver[a.slot] = a.ver,
                       alone |-> a.alone]
<1>1. UNCHANGED <<arena, memory, store, ssd, job>> BY Zenon DEF Check, Copy
<1>2. PICK x : /\ view' = [view EXCEPT ![cl][c] = x] /\ a # None
               /\ \/ a.st = "answered" /\ x = checked
                  \/ a.st = "viewing" /\ x = copied
  BY Zenon DEF Check, Copy, Holds
<1>0. Kept' = Kept /\ Kept \subseteq Composites BY Zenon, <1>1, KeptShrinks DEF arena, log
<1>3. PutOK' /\ HeldOK' /\ TiersOK' /\ UNCHANGED rows
  BY Zenon, <1>0, <1>1 DEF PutOK, HeldOK, TiersOK, arena, memory, store, ssd
<1>4. ver' = ver /\ bytes' = bytes BY Zenon, <1>1 DEF memory
<1>5. view' = [e \in Clients |-> [b \in Composites |-> IF e = cl /\ b = c THEN x ELSE view[e][b]]]
  BY Zenon, <1>2 DEF ViewsOK
<1>6. ASSUME c \in Kept PROVE AnswerOK(x, c)
  <2>1. AnswerOK(a, c) BY Zenon, <1>6 DEF ViewsOK
  <2>2. CASE a.st = "answered" /\ x = checked
    BY Zenon, <1>2, <2>1, <2>2 DEF AnswerOK, Own
  <2>3. CASE a.st = "viewing" /\ x = copied
    BY Zenon, <1>2, <2>1, <2>3 DEF AnswerOK, Own
  <2>. QED BY Zenon, <1>2, <2>2, <2>3
<1>7. view' = [e \in Clients |-> [b \in Composites |-> view'[e][b]]] BY Zenon, <1>5
<1>8. \A e \in Clients, b \in Kept : AnswerOK(view'[e][b], b)
  BY Zenon, <1>0, <1>5, <1>6 DEF ViewsOK
<1>9. ViewsOK' BY Zenon, <1>0, <1>4, <1>7, <1>8, ViewsOfAnswers
<1>. QED BY Zenon, <1>1, <1>3, <1>9, QuietKeeps

\* A restart empties the memory and leaves the tiers, which are by block.
LEMMA RestartKeeps == ASSUME KvdInv, Restart PROVE KvdInv'
<1>1. ArenaInv' BY Zenon, KvdConfig DEF Restart, ArenaInv, ArenaTypeOK, OneOwner, Leased
<1>2. MemoryOK' /\ LeasesOK' BY Zenon DEF Restart, MemoryOK, LeasesOK
<1>0. Kept' = Kept /\ Kept \subseteq Composites BY Zenon, KeptShrinks DEF Restart
<1>3. RowsPointHome' /\ RowsOK'
  BY Zenon, <1>0 DEF Restart, Nothing, RowsPointHome, RowsOK, RowOK
<1>4. TiersOK' BY Zenon, <1>0 DEF Restart, Nothing, KvdInv, TiersOK
<1>5. PutOK' /\ HeldOK' BY Zenon DEF Restart, PutOK, HeldOK
<1>6. ViewsOK' BY Zenon, <1>0 DEF Restart, Nothing, ViewsOK, AnswerOK
<1>. QED BY Zenon, <1>1, <1>2, <1>3, <1>4, <1>5, <1>6 DEF KvdInv

\* The bytes a region has for a block are those of the block.
LEMMA TierIsOwn ==
    ASSUME TiersOK, NEW c \in Kept, InTier(c) PROVE TierOf(c).what \in {c, Empty}
BY Zenon DEF TiersOK, InTier, TierOf

\* No step of the daemon or of an engine breaks the invariant.
LEMMA KvdStep == ASSUME KeysApart PROVE KvdInv /\ [Next]_vars => KvdInv'
<1>. SUFFICES ASSUME KvdInv, [Next]_vars PROVE KvdInv'
  BY Zenon
<1>1. CASE UNCHANGED vars
  <2>1. UNCHANGED <<index, free, lease, pending, rolled, ver, bytes, rows, long, spill, job, view>>
    BY Zenon, <1>1 DEF vars
  <2>4. Kept' = Kept BY Zenon, <2>1, KeptShrinks
  <2>2. TiersOK' /\ PutOK' /\ HeldOK' BY Zenon, <2>1, <2>4 DEF KvdInv, TiersOK, PutOK, HeldOK
  <2>3. ViewsOK' BY Zenon, <2>1, <2>4, ViewsOfAnswers DEF KvdInv, ViewsOK
  <2>. QED BY Zenon, <2>1, <2>2, <2>3, QuietKeeps DEF arena, log, memory
<1>2. CASE Written BY Zenon, <1>2, WrittenKeeps
<1>3. CASE Reply BY Zenon, <1>3, ReplyKeeps
<1>4. CASE Promote
  <2>1. PICK c \in Composites : /\ c \in job.want /\ InTier(c)
                                /\ Store(job, c, TierOf(c).what, TierOf(c).ret)
    BY Zenon, <1>4 DEF Promote
  <2>2. RunsFor(job, c) BY Zenon, <1>4, <2>1 DEF Promote, RunsFor
  <2>3. c \in Kept => TierOf(c).what \in {c, Empty} BY Zenon, <2>1, TierIsOwn DEF KvdInv
  <2>. QED BY Zenon, <2>1, <2>2, <2>3, StoreKeeps
<1>5. CASE Restart BY Zenon, <1>5, RestartKeeps
<1>6. ASSUME NEW C \in SUBSET Composites, Clear(C) PROVE KvdInv'
  <2>2. Kept' = Kept /\ Kept \subseteq Composites BY Zenon, <1>6, KeptShrinks DEF Clear, log
  <2>1. TiersOK' BY Zenon, <1>6, <2>2 DEF Clear, Dropped, KvdInv, TiersOK
  <2>. QED BY Zenon, <1>6, <2>1, DropKeeps DEF Clear
<1>7. ASSUME NEW c \in Composites, Warm(c) PROVE KvdInv'
  <2>1. RunsFor(Alone, c) BY Zenon, <1>7 DEF Warm, RunsFor, Alone, Handler
  <2>2. c \in Kept => TierOf(c).what \in {c, Empty} BY Zenon, <1>7, TierIsOwn DEF Warm, KvdInv
  <2>. QED BY Zenon, <1>7, <2>1, <2>2, StoreKeeps DEF Warm
<1>8. ASSUME NEW c \in Composites, Lapse(c) PROVE KvdInv'
  <2>2. Kept' = Kept BY Zenon, <1>8, KeptShrinks DEF Lapse, log
  <2>1. TiersOK' BY Zenon, <1>8, <2>2 DEF Lapse, KvdInv, TiersOK, ssd
  <2>. QED BY Zenon, <1>8, <2>1, DropKeeps DEF Lapse
<1>9. ASSUME NEW c \in Composites, RegionDrops(c) PROVE KvdInv'
  <2>2. UNCHANGED <<arena, memory, rows, job, view>> BY Zenon, <1>9 DEF RegionDrops, store
  <2>5. Kept' = Kept /\ Kept \subseteq Composites BY Zenon, <2>2, KeptShrinks DEF arena, log
  <2>1. TiersOK' BY Zenon, <1>9, <2>5 DEF RegionDrops, KvdInv, TiersOK
  <2>3. PutOK' /\ HeldOK' BY Zenon, <2>2, <2>5 DEF arena, memory, KvdInv, PutOK, HeldOK
  <2>4. ViewsOK' BY Zenon, <2>2, <2>5, ViewsOfAnswers DEF memory, KvdInv, ViewsOK
  <2>. QED BY Zenon, <2>1, <2>2, <2>3, <2>4, QuietKeeps
<1>10. ASSUME NEW c \in Composites, NEW ret \in Retentions, Set(c, ret) PROVE KvdInv'
  <2>1. RunsFor(Alone, c) BY Zenon, <1>10 DEF Set, RunsFor, Alone, Handler
  <2>. QED BY Zenon, <1>10, <2>1, StoreKeeps DEF Set
<1>11. ASSUME NEW cl \in Clients, Reserve(cl) PROVE KvdInv' BY Zenon, <1>11, ReserveKeeps
<1>12. ASSUME NEW cl \in Clients, Cancel(cl) PROVE KvdInv'
  <2>1. UNCHANGED <<memory, view>> BY Zenon, <1>12 DEF Cancel
  <2>3. Kept' = Kept BY Zenon, <1>12, KeptShrinks DEF Cancel, log
  <2>2. ViewsOK' BY Zenon, <2>1, <2>3, ViewsOfAnswers DEF memory, KvdInv, ViewsOK
  <2>. QED BY Zenon, <1>12, <2>2, ReleaseKeeps DEF Cancel
<1>13. ASSUME NEW cl \in Clients, Disconnect(cl) PROVE KvdInv'
  <2>1. UNCHANGED memory /\ view' = [view EXCEPT ![cl] = Nothing] BY Zenon, <1>13 DEF Disconnect
  <2>2. view' = [e \in Clients |-> IF e = cl THEN Nothing ELSE [c \in Composites |-> view[e][c]]]
    BY Zenon, <2>1 DEF KvdInv, ViewsOK
  <2>3. view' = [e \in Clients |-> [c \in Composites |-> view'[e][c]]] BY Zenon, <2>2
                                                                          DEF Nothing
  <2>4. \A e \in Clients, c \in Composites : view'[e][c] # None => view'[e][c] = view[e][c]
    BY Zenon, <2>2 DEF Nothing
  <2>8. Kept' = Kept /\ Kept \subseteq Composites
    BY Zenon, <1>13, KeptShrinks DEF Disconnect, log
  <2>5. ASSUME NEW e \in Clients, NEW c \in Kept PROVE AnswerOK(view'[e][c], c)
    <3>1. CASE view'[e][c] = None BY Zenon, <3>1 DEF AnswerOK
    <3>2. CASE view'[e][c] # None
      <4>1. view'[e][c] = view[e][c] BY Zenon, <2>4, <2>8, <3>2
      <4>. QED BY Zenon, <4>1 DEF KvdInv, ViewsOK
    <3>. QED BY Zenon, <3>1, <3>2
  <2>6. ver' = ver /\ bytes' = bytes BY Zenon, <2>1 DEF memory
  <2>7. ViewsOK' BY Zenon, <2>3, <2>5, <2>6, <2>8, ViewsOfAnswers
  <2>. QED BY Zenon, <1>13, <2>7, ReleaseKeeps DEF Disconnect
<1>14. ASSUME NEW cl \in Clients, NEW c \in Composites, Fill(cl, c) PROVE KvdInv'
  BY Zenon, <1>14, FillKeeps
<1>15. ASSUME NEW cl \in Clients, NEW c \in Composites, Check(cl, c) \/ Copy(cl, c)
       PROVE  KvdInv'
  BY Zenon, <1>15, ReadKeeps
<1>16. ASSUME NEW cl \in Clients, NEW ret \in Retentions, Commit(cl, ret) PROVE KvdInv'
  BY Zenon, <1>16, CommitKeeps
<1>17. ASSUME NEW cl \in Clients, NEW C \in SUBSET Composites, Get(cl, C) PROVE KvdInv'
  BY Zenon, <1>17, GetKeeps
<1>. QED
  BY Zenon, <1>1, <1>2, <1>3, <1>4, <1>5, <1>6, <1>7, <1>8, <1>9, <1>10, <1>11, <1>12, <1>13,
     <1>14, <1>15, <1>16, <1>17 DEF Next

\* The invariant holds in every reachable state.
LEMMA KvdInvAlways == ASSUME KeysApart PROVE Spec => []KvdInv
<1>1. Init => KvdInv
  <2>. SUFFICES ASSUME Init PROVE KvdInv
    BY Zenon
  <2>1. ArenaInv BY Zenon, KvdConfig DEF Init, ArenaInv, ArenaTypeOK, OneOwner, Leased
  <2>2. MemoryOK /\ LeasesOK BY Zenon DEF Init, MemoryOK, LeasesOK
  <2>6. Kept \subseteq Composites BY Zenon, KeptShrinks
  <2>3. RowsPointHome /\ RowsOK
    BY Zenon, <2>6 DEF Init, Nothing, RowsPointHome, RowsOK, RowOK
  <2>4. TiersOK /\ PutOK /\ HeldOK BY Zenon, <2>6 DEF Init, Nothing, TiersOK, PutOK, HeldOK
  <2>5. ViewsOK BY Zenon, <2>6 DEF Init, Nothing, ViewsOK, AnswerOK
  <2>. QED BY Zenon, <2>1, <2>2, <2>3, <2>4, <2>5 DEF KvdInv
<1>2. KvdInv /\ [Next]_vars => KvdInv' BY Zenon, KvdStep
<1>. QED BY <1>1, <1>2, PTL DEF Spec

\* With no key in two namespaces, a row of the store has the slot the arena
\* keeps for its key, or is in the log the next set or commit drains.
THEOREM RowsPointAtTheirSlots == ASSUME KeysApart PROVE Spec => []RowsPointHome
<1>1. KvdInv => RowsPointHome BY Zenon DEF KvdInv
<1>. QED BY <1>1, KvdInvAlways, PTL

\* With no key in two namespaces, a single read through the mapped arena gets
\* the block it asked for or nothing, whatever put, lease, eviction or reuse
\* of the slot comes between the answer and the copy.
THEOREM ReadsAreOfTheirOwnBlock == ASSUME KeysApart PROVE Spec => []ReadsOwnBlock
<1>1. KvdInv => ReadsOwnBlock BY Zenon DEF KvdInv, ViewsOK, AnswerOK, ReadsOwnBlock
<1>. QED BY <1>1, KvdInvAlways, PTL

-----------------------------------------------------------------------------
(* The bill of the store                                                   *)

INSTANCE FiniteSetTheorems

\* The store's rows are a function of the block.
RowsTable(rs) == rs = [c \in Composites |-> rs[c]]

\* What the memory of a block may hold.
Bytes == Composites \union {Empty, Torn}

\* A put under way is of some bytes of a block, into a slot.
PutTypeOK ==
    job # None => (job.put # None =>
        /\ job.put.c \in Composites /\ job.put.slot \in Slots
        /\ job.put.what \in Bytes /\ job.put.ret \in Retentions)

\* The rows, the slots and the regions hold bytes.
StoreTypeOK ==
    /\ bytes \in [Slots -> Bytes] /\ rows \in [Composites -> Entry \union {None}]
    /\ long \in [Composites -> Bytes \union {None}]
    /\ spill \in [Composites -> Bytes \union {None}]

\* What BilledForInline needs to be inductive.
BillInv == ArenaInv /\ PutTypeOK /\ StoreTypeOK /\ BilledForInline

\* A row is billed for one block or for none.
LEMMA BillIsBit == \A r : Bill(r) = 0 \/ Bill(r) = 1
BY Zenon DEF Bill

\* The bill of any part of the store is a number.
LEMMA BillsIsNat ==
    ASSUME NEW rs, NEW C \in SUBSET Composites
    PROVE  IsFiniteSet({c \in C : Bill(rs[c]) = 1}) /\ Bills(rs, C) \in Nat
<1>. DEFINE B == {c \in C : Bill(rs[c]) = 1}
<1>1. B \in SUBSET Composites BY Zenon
<1>2. IsFiniteSet(B) BY Zenon, <1>1, KvdConfig, FS_Subset
<1>. QED BY Zenon, <1>2, FS_CardinalityType DEF Bills

\* A store without rows is billed for nothing.
LEMMA NothingIsFree == Bills(Nothing, Composites) = 0
<1>1. 0 # 1 OBVIOUS
<1>2. {c \in Composites : Bill(Nothing[c]) = 1} = {} BY Zenon, <1>1 DEF Bill, Nothing
<1>. QED BY Zenon, <1>2, FS_EmptySet DEF Bills

\* The bill of one block is that of its row.
LEMMA OneBill == ASSUME NEW c PROVE Bills(rows, {c}) = Bill(rows[c])
<1>. DEFINE B == {b \in {c} : Bill(rows[b]) = 1}
<1>1. CASE Bill(rows[c]) = 1
  <2>1. B = {c} BY Zenon, <1>1
  <2>. QED BY Zenon, <1>1, <2>1, FS_Singleton DEF Bills
<1>2. CASE Bill(rows[c]) = 0
  <2>1. 0 # 1 OBVIOUS
  <2>2. B = {} BY Zenon, <1>2, <2>1
  <2>. QED BY Zenon, <1>2, <2>2, FS_EmptySet DEF Bills
<1>. QED BY Zenon, <1>1, <1>2, BillIsBit

\* The rows that are dropped take their part of the bill with them.
LEMMA DropBills ==
    ASSUME NEW rs, NEW C \in SUBSET Composites
    PROVE  /\ RowsTable(Dropped(rs, C))
           /\ Bills(Dropped(rs, C), Composites) = Bills(rs, Composites) - Bills(rs, C)
<1>. DEFINE d == Dropped(rs, C)
            B == {c \in Composites : Bill(rs[c]) = 1}
<1>1. \A c \in Composites : d[c] = IF c \in C THEN None ELSE rs[c] BY Zenon DEF Dropped
<1>2. Bill(None) = 0 /\ 0 # 1 BY DEF Bill
<1>3. {c \in Composites : Bill(d[c]) = 1} = B \ C
  <2>. HIDE DEF d
  <2>1. ASSUME NEW c \in Composites PROVE Bill(d[c]) = 1 <=> Bill(rs[c]) = 1 /\ c \notin C
    BY Zenon, <1>1, <1>2
  <2>. QED BY Zenon, <2>1
<1>4. {c \in C : Bill(rs[c]) = 1} = B \cap C BY Zenon
<1>5. IsFiniteSet(B) BY Zenon, BillsIsNat
<1>6. Cardinality(B \ C) = Cardinality(B) - Cardinality(B \cap C)
  BY Zenon, <1>5, FS_Difference
<1>7. RowsTable(d) BY Zenon DEF RowsTable, Dropped
<1>. QED BY Zenon, <1>3, <1>4, <1>6, <1>7 DEF Bills

\* A row put in place of another is billed in its place.
LEMMA PutBills ==
    ASSUME NEW rs, RowsTable(rs), NEW c \in Composites, NEW row
    PROVE  /\ RowsTable([rs EXCEPT ![c] = row])
           /\ Bills([rs EXCEPT ![c] = row], Composites) =
                  Bills(rs, Composites) - Bill(rs[c]) + Bill(row)
<1>. DEFINE p == [rs EXCEPT ![c] = row]
            B == {b \in Composites : Bill(rs[b]) = 1}
            P == {b \in Composites : Bill(p[b]) = 1}
<1>1. p = [b \in Composites |-> IF b = c THEN row ELSE rs[b]] BY Zenon DEF RowsTable
<1>2. RowsTable(p) BY Zenon, <1>1 DEF RowsTable
<1>3. \A b \in Composites : p[b] = IF b = c THEN row ELSE rs[b] BY Zenon, <1>1
<1>. HIDE DEF p
<1>4. IsFiniteSet(B) /\ Cardinality(B) \in Nat BY Zenon, BillsIsNat DEF Bills
<1>5. IsFiniteSet(B \ {c}) /\ c \notin B \ {c} BY Zenon, <1>4, FS_RemoveElement
<1>6. Cardinality(B \ {c}) = Cardinality(B) - Bill(rs[c]) /\ Cardinality(B \ {c}) \in Nat
  <2>1. c \in B <=> Bill(rs[c]) = 1 BY Zenon
  <2>2. Cardinality(B \ {c}) = IF c \in B THEN Cardinality(B) - 1 ELSE Cardinality(B)
    BY Zenon, <1>4, FS_RemoveElement
  <2>3. Cardinality(B \ {c}) \in Nat BY Zenon, <1>5, FS_CardinalityType
  <2>4. Bill(rs[c]) = 0 \/ Bill(rs[c]) = 1 BY Zenon, BillIsBit
  <2>. HIDE DEF B
  <2>. QED BY <1>4, <2>1, <2>2, <2>3, <2>4
<1>7. Cardinality(P) = Cardinality(B \ {c}) + Bill(row)
  <2>1. CASE Bill(row) = 1
    <3>1. P = (B \ {c}) \cup {c} BY <1>3, <2>1
    <3>2. Cardinality((B \ {c}) \cup {c}) = Cardinality(B \ {c}) + 1
      BY Zenon, <1>5, FS_AddElement
    <3>. QED BY Zenon, <2>1, <3>1, <3>2
  <2>2. CASE Bill(row) = 0
    <3>1. P = B \ {c} BY <1>3, <2>2
    <3>2. Cardinality(B \ {c}) + 0 = Cardinality(B \ {c}) BY <1>6
    <3>. QED BY Zenon, <2>2, <3>1, <3>2
  <2>. QED BY Zenon, <2>1, <2>2, BillIsBit
<1>. QED BY Zenon, <1>2, <1>6, <1>7 DEF Bills, p

\* The drain of the eviction log takes the rows and their bill.
LEMMA DrainBills ==
    ASSUME NEW rs, Drain(rs, Bills(rs, Composites)), rs \in [Composites -> Entry \union {None}]
    PROVE  rows' \in [Composites -> Entry \union {None}] /\ BilledForInline'
<1>1. Evicted \in SUBSET Composites BY Zenon DEF Evicted
<1>2. rows' = Dropped(rs, Evicted) /\ used' = Bills(rs, Composites) - Bills(rs, Evicted)
  BY Zenon DEF Drain
<1>3. Bills(Dropped(rs, Evicted), Composites) = Bills(rs, Composites) - Bills(rs, Evicted)
  BY Zenon, <1>1, DropBills
<1>4. Dropped(rs, Evicted) \in [Composites -> Entry \union {None}] BY Zenon DEF Dropped
<1>. QED BY Zenon, <1>2, <1>3, <1>4 DEF BilledForInline, Bills

\* The end of set() and of commit_arena_lease: rows are dropped, the row is put
\* in place of what is left of the old one, and the log is drained.
LEMMA ReplaceBills ==
    ASSUME StoreTypeOK, BilledForInline, NEW E \in SUBSET Composites, NEW c \in Composites,
           NEW row \in Entry, NEW u,
           u = used - Bills(rows, E) - Bill(Dropped(rows, E)[c]) + Bill(row),
           Drain([Dropped(rows, E) EXCEPT ![c] = row], u)
    PROVE  rows' \in [Composites -> Entry \union {None}] /\ BilledForInline'
<1>. DEFINE kept == Dropped(rows, E)
            rs == [kept EXCEPT ![c] = row]
<1>1. RowsTable(kept) /\ Bills(kept, Composites) = used - Bills(rows, E)
  BY Zenon, DropBills DEF BilledForInline
<1>2. kept \in [Composites -> Entry \union {None}] BY Zenon DEF Dropped, StoreTypeOK
<1>. HIDE DEF kept
<1>3. Bills(rs, Composites) = Bills(kept, Composites) - Bill(kept[c]) + Bill(row)
  BY Zenon, <1>1, PutBills
<1>4. rs \in [Composites -> Entry \union {None}] BY Zenon, <1>2
<1>5. u = Bills(rs, Composites) BY Zenon, <1>1, <1>3 DEF kept
<1>. HIDE DEF rs
<1>6. Drain(rs, Bills(rs, Composites)) BY Zenon, <1>5 DEF rs, kept
<1>. QED BY Zenon, <1>4, <1>6, DrainBills

\* Rows that are dropped leave the store with their bill.
LEMMA LossBills ==
    ASSUME StoreTypeOK, BilledForInline, NEW C \in SUBSET Composites,
           rows' = Dropped(rows, C), used' = used - Bills(rows, C)
    PROVE  rows' \in [Composites -> Entry \union {None}] /\ BilledForInline'
<1>1. Bills(Dropped(rows, C), Composites) = used - Bills(rows, C)
  BY Zenon, DropBills DEF BilledForInline
<1>2. rows' \in [Composites -> Entry \union {None}] BY Zenon DEF Dropped, StoreTypeOK
<1>. QED BY Zenon, <1>1, <1>2 DEF BilledForInline, Bills

\* After set() the handler has no put under way.
LEMMA ProceedTypes == ASSUME NEW j, NEW c, NEW row, Proceed(j, c, row) PROVE PutTypeOK'
<1>1. job' # None => job'.put = None BY Zenon DEF Proceed, Handler
<1>. QED BY Zenon, <1>1 DEF PutTypeOK

\* What the victims of a store leave in the spillover region.
LEMMA SpilledTypes ==
    ASSUME StoreTypeOK, NEW ret, NEW E \in SUBSET Victims(ret)
    PROVE  Spilled(E) \in [Composites -> Bytes \union {None}]
<1>1. ASSUME NEW c \in E PROVE Resolve(rows[c]) \in Bytes
  <2>1. rows[c] \in Entry BY Zenon, <1>1 DEF Victims, StoreTypeOK
  <2>2. rows[c].slot \in Slots \union {Inline} /\ rows[c].what \in Bytes
    BY Zenon, <2>1 DEF Entry, Bytes
  <2>3. Empty \in Bytes BY Zenon DEF Bytes
  <2>. QED BY Zenon, <2>2, <2>3 DEF Resolve, StoreTypeOK
<1>. QED BY Zenon, <1>1 DEF Spilled, StoreTypeOK

\* The write-through leaves bytes in the long region.
LEMMA WriteThroughTypes ==
    ASSUME StoreTypeOK, NEW c, NEW ret, NEW what \in Bytes, WriteThrough(c, ret, what)
    PROVE  long' \in [Composites -> Bytes \union {None}]
BY Zenon DEF WriteThrough, StoreTypeOK

\* HostStore.set keeps the bill, by each of its ways.
LEMMA StoreBills ==
    ASSUME BillInv, NEW j, NEW c \in Composites, NEW what \in Bytes, NEW ret \in Retentions,
           Store(j, c, what, ret)
    PROVE  BillInv'
<1>0. ArenaInv /\ PutTypeOK /\ StoreTypeOK /\ BilledForInline BY Zenon DEF BillInv
<1>1. ArenaInv' BY Zenon, <1>0, StoreKeepsArena
<1>2. ASSUME UNCHANGED store PROVE BilledForInline'
  BY Zenon, <1>0, <1>2 DEF store, BilledForInline, Bills
<1>3. CASE StoreInArena(j, c, what, ret)
  <2>. DEFINE p(g) == [c |-> c, slot |-> g.slot, what |-> what, ret |-> ret]
  <2>1. PICK g \in GrantsFor(Key(c)) :
          /\ Take(g) /\ index' = [Without(g.from) EXCEPT ![Key(c)] = g.slot]
          /\ bytes' = [bytes EXCEPT ![g.slot] = Torn]
          /\ job' = Handler(j.client, j.want, j.alone, j.held, p(g))
    BY Zenon, <1>3 DEF StoreInArena
  <2>2. UNCHANGED <<lease, rows, used, long, spill>> BY Zenon, <1>3 DEF StoreInArena
  <2>3. Key(c) \in Keys BY Zenon DEF Keys
  <2>4. g.slot \in Slots BY Zenon, <1>0, <2>1, <2>2, <2>3, PutKeepsArena
  <2>5. /\ job'.put.c = c /\ job'.put.slot = g.slot
        /\ job'.put.what = what /\ job'.put.ret = ret
    BY Zenon, <2>1 DEF Handler
  <2>6. PutTypeOK' BY Zenon, <2>4, <2>5 DEF PutTypeOK
  <2>7. StoreTypeOK' BY Zenon, <1>0, <2>1, <2>2 DEF StoreTypeOK, Bytes
  <2>. QED BY Zenon, <1>1, <1>2, <2>2, <2>6, <2>7 DEF BillInv, store
<1>4. CASE StoreRaises(j, c, what, ret)
  <2>1. job' = None /\ UNCHANGED <<memory, store, ssd>> BY Zenon, <1>4 DEF StoreRaises
  <2>2. StoreTypeOK' BY Zenon, <1>0, <2>1 DEF StoreTypeOK, memory, store, ssd
  <2>. QED BY Zenon, <1>1, <1>2, <2>1, <2>2 DEF BillInv, PutTypeOK
<1>5. CASE StoreInline(j, c, what, ret)
  <2>. DEFINE row == [slot |-> Inline, what |-> what, ret |-> ret]
  <2>1. PICK E \in IF rows[c] # None THEN {{}}
                   ELSE {E \in SUBSET Victims(ret) : MakesRoom(E, ret)} :
          /\ spill' = Spilled(E)
          /\ Drain([Dropped(rows, E) EXCEPT ![c] = row],
                   used - Bills(rows, E) - Bill(rows[c]) + 1)
          /\ WriteThrough(c, ret, what) /\ Proceed(j, c, rows'[c])
    BY Zenon, <1>5 DEF StoreInline
  <2>2. E \in SUBSET Victims(ret) /\ E \in SUBSET Composites BY Zenon, <2>1, VictimsAreBlocks
  <2>3. Dropped(rows, E)[c] = rows[c]
    <3>1. Dropped(rows, E)[c] = IF c \in E THEN None ELSE rows[c] BY Zenon DEF Dropped
    <3>2. rows[c] # None => c \notin E BY Zenon, <2>1
    <3>. QED BY Zenon, <3>1, <3>2
  <2>4. row \in Entry BY Zenon DEF Entry, Bytes
  <2>5. Bill(row) = 1
    <3>1. row.slot = Inline /\ row.what = what BY Zenon
    <3>2. what # Empty BY Zenon, <1>5 DEF StoreInline, Fits
    <3>3. row # None BY Zenon, <2>4, KvdConfig
    <3>. HIDE DEF row
    <3>. QED BY Zenon, <3>1, <3>2, <3>3 DEF Bill
  <2>. HIDE DEF row
  <2>6. rows' \in [Composites -> Entry \union {None}] /\ BilledForInline'
    BY Zenon, <1>0, <2>1, <2>2, <2>3, <2>4, <2>5, ReplaceBills
  <2>7. UNCHANGED bytes BY Zenon, <1>5 DEF StoreInline, memory
  <2>8. StoreTypeOK'
    BY Zenon, <1>0, <2>1, <2>2, <2>6, <2>7, SpilledTypes, WriteThroughTypes DEF StoreTypeOK
  <2>9. PutTypeOK' BY Zenon, <2>1, ProceedTypes
  <2>. QED BY Zenon, <1>1, <2>6, <2>8, <2>9 DEF BillInv
<1>6. CASE StoreRefused(j, c, what, ret)
  <2>1. /\ rows' = Dropped(rows, Victims(ret)) /\ used' = used - Bills(rows, Victims(ret))
        /\ Proceed(j, c, [slot |-> Inline, what |-> what, ret |-> ret])
        /\ UNCHANGED <<memory, ssd>>
    BY Zenon, <1>6 DEF StoreRefused
  <2>2. rows' \in [Composites -> Entry \union {None}] /\ BilledForInline'
    BY Zenon, <1>0, <2>1, VictimsAreBlocks, LossBills
  <2>3. StoreTypeOK' BY Zenon, <1>0, <2>1, <2>2 DEF StoreTypeOK, memory, ssd
  <2>4. PutTypeOK' BY Zenon, <2>1, ProceedTypes
  <2>. QED BY Zenon, <1>1, <2>2, <2>3, <2>4 DEF BillInv
<1>. QED BY Zenon, <1>3, <1>4, <1>5, <1>6 DEF Store

\* A region has bytes of a block that it is asked for.
LEMMA TierTypes ==
    ASSUME StoreTypeOK, NEW c \in Composites, InTier(c)
    PROVE  TierOf(c).what \in Bytes /\ TierOf(c).ret \in Retentions
<1>1. CASE long[c] # None
  <2>1. TierOf(c).what = long[c] /\ TierOf(c).ret = "long" BY Zenon, <1>1 DEF TierOf
  <2>. QED BY Zenon, <1>1, <2>1 DEF StoreTypeOK, Retentions
<1>2. CASE long[c] = None
  <2>1. TierOf(c).what = spill[c] /\ TierOf(c).ret = "short" BY Zenon, <1>2 DEF TierOf
  <2>. QED BY Zenon, <1>2, <2>1 DEF StoreTypeOK, Retentions, InTier
<1>. QED BY Zenon, <1>1, <1>2

\* The end of put(): the old row leaves the bill, the new one has a slot.
LEMMA WrittenBills == ASSUME BillInv, Written PROVE StoreTypeOK' /\ PutTypeOK' /\ BilledForInline'
<1>0. PutTypeOK /\ StoreTypeOK /\ BilledForInline BY Zenon DEF BillInv
<1>. DEFINE p == job.put  row == [slot |-> p.slot, what |-> Empty, ret |-> p.ret]
<1>1. /\ job # None /\ p # None
      /\ bytes' = [bytes EXCEPT ![p.slot] = p.what]
      /\ Drain([rows EXCEPT ![p.c] = row], used - Bill(rows[p.c]))
      /\ WriteThrough(p.c, p.ret, p.what) /\ Proceed(job, p.c, rows'[p.c]) /\ UNCHANGED spill
  BY Zenon DEF Written
<1>2. p.c \in Composites /\ p.slot \in Slots /\ p.what \in Bytes /\ p.ret \in Retentions
  BY Zenon, <1>0, <1>1 DEF PutTypeOK
<1>. HIDE DEF p
<1>3. row \in Entry BY Zenon, <1>2 DEF Entry
<1>4. Bill(row) = 0
  <2>1. row.what = Empty BY Zenon
  <2>. HIDE DEF row
  <2>. QED BY Zenon, <2>1 DEF Bill
<1>. HIDE DEF row
<1>5. RowsTable(rows) BY Zenon, <1>0 DEF StoreTypeOK, RowsTable
<1>6. [rows EXCEPT ![p.c] = row] \in [Composites -> Entry \union {None}]
  BY Zenon, <1>0, <1>3 DEF StoreTypeOK
<1>7. Bills([rows EXCEPT ![p.c] = row], Composites) = Bills(rows, Composites) - Bill(rows[p.c]) + 0
  BY Zenon, <1>2, <1>4, <1>5, PutBills
<1>8. Bills(rows, Composites) \in Nat /\ Bills(rows, Composites) = used
  BY Zenon, <1>0, BillsIsNat DEF BilledForInline
<1>9. Bill(rows[p.c]) = 0 \/ Bill(rows[p.c]) = 1 BY Zenon, BillIsBit
<1>10. Bills([rows EXCEPT ![p.c] = row], Composites) = used - Bill(rows[p.c])
  BY <1>7, <1>8, <1>9
<1>11. rows' \in [Composites -> Entry \union {None}] /\ BilledForInline'
  BY Zenon, <1>1, <1>6, <1>10, DrainBills
<1>12. StoreTypeOK'
  BY Zenon, <1>0, <1>1, <1>2, <1>11, WriteThroughTypes DEF StoreTypeOK
<1>. QED BY Zenon, <1>1, <1>11, <1>12, ProceedTypes

\* commit_arena_lease: a slot the key had takes its rows along, and what is
\* left of the old row leaves the bill.
LEMMA CommitBills ==
    ASSUME BillInv, NEW cl \in Clients, NEW ret \in Retentions, Commit(cl, ret)
    PROVE  StoreTypeOK' /\ PutTypeOK' /\ BilledForInline'
<1>0. ArenaInv /\ PutTypeOK /\ StoreTypeOK /\ BilledForInline BY Zenon DEF BillInv
<1>. DEFINE c == lease[cl].block
            s == lease[cl].slot
            over == IF index[Key(c)] # None THEN {b \in Composites : Key(b) = Key(c)} ELSE {}
            row == [slot |-> SlotOrInline(s), what |-> Empty, ret |-> ret]
            u == used - Bills(rows, over) - Bill(Dropped(rows, over)[c])
<1>1. /\ lease[cl] # None /\ c # None
      /\ Drain([Dropped(rows, over) EXCEPT ![c] = row], u) /\ UNCHANGED <<bytes, ssd, job>>
  BY Zenon DEF Commit
<1>2. c \in Composites /\ s \in Slots BY Zenon, <1>0, <1>1 DEF ArenaInv, ArenaTypeOK, Lease
<1>3. over \in SUBSET Composites BY Zenon
<1>. HIDE DEF c, s, over
<1>4. row \in Entry BY Zenon, <1>2 DEF Entry, SlotOrInline
<1>5. Bill(row) = 0
  <2>1. row.what = Empty BY Zenon
  <2>. HIDE DEF row
  <2>. QED BY Zenon, <2>1 DEF Bill
<1>. HIDE DEF row
<1>6. Bills(rows, over) \in Nat /\ used \in Nat BY Zenon, <1>0, <1>3, BillsIsNat
                                                   DEF BilledForInline
<1>7. Bill(Dropped(rows, over)[c]) = 0 \/ Bill(Dropped(rows, over)[c]) = 1 BY Zenon, BillIsBit
<1>8. u = u + 0 BY <1>6, <1>7
<1>9. rows' \in [Composites -> Entry \union {None}] /\ BilledForInline'
  BY Zenon, <1>0, <1>1, <1>2, <1>3, <1>4, <1>5, <1>8, ReplaceBills
<1>10. StoreTypeOK' BY Zenon, <1>0, <1>1, <1>9 DEF StoreTypeOK, ssd
<1>. QED BY Zenon, <1>0, <1>1, <1>9, <1>10 DEF PutTypeOK

\* A step of the daemon or of an engine leaves the store with the right bill.
LEMMA BillStep == BillInv /\ [Next]_vars => BillInv'
<1>. SUFFICES ASSUME BillInv, [Next]_vars PROVE BillInv'
  BY Zenon
<1>0. ArenaInv /\ PutTypeOK /\ StoreTypeOK /\ BilledForInline BY Zenon DEF BillInv
<1>a. ArenaInv' BY Zenon, <1>0, ArenaStep
<1>b. ASSUME UNCHANGED store PROVE BilledForInline'
  BY Zenon, <1>0, <1>b DEF store, BilledForInline, Bills
<1>c. ASSUME UNCHANGED job PROVE PutTypeOK' BY Zenon, <1>0, <1>c DEF PutTypeOK
<1>d. ASSUME UNCHANGED <<bytes, store, ssd>> PROVE StoreTypeOK'
  BY Zenon, <1>0, <1>d DEF StoreTypeOK, store, ssd
<1>1. CASE UNCHANGED vars
  <2>1. UNCHANGED <<bytes, store, ssd, job>> BY Zenon, <1>1 DEF vars, store, ssd
  <2>. QED BY Zenon, <2>1, <1>a, <1>b, <1>c, <1>d DEF BillInv
<1>2. CASE Written BY Zenon, <1>2, <1>a, WrittenBills DEF BillInv
<1>3. CASE Reply
  <2>1. UNCHANGED <<bytes, store, ssd>> /\ job' = None BY Zenon, <1>3 DEF Reply, memory
  <2>. QED BY Zenon, <2>1, <1>a, <1>b, <1>d DEF BillInv, PutTypeOK
<1>4. CASE Promote BY Zenon, <1>0, <1>4, TierTypes, StoreBills DEF Promote
<1>5. CASE Restart
  <2>1. /\ bytes' = [s \in Slots |-> Empty] /\ rows' = Nothing /\ used' = 0
        /\ spill' = Nothing /\ job' = None /\ UNCHANGED long
    BY Zenon, <1>5 DEF Restart
  <2>2. StoreTypeOK' BY Zenon, <1>0, <2>1 DEF StoreTypeOK, Nothing, Bytes
  <2>3. BilledForInline' BY Zenon, <2>1, NothingIsFree DEF BilledForInline, Bills
  <2>. QED BY Zenon, <2>1, <2>2, <2>3, <1>a DEF BillInv, PutTypeOK
<1>6. ASSUME NEW C \in SUBSET Composites, Clear(C) PROVE BillInv'
  <2>1. /\ rows' = Dropped(rows, C)
        /\ used' = IF C = Composites THEN 0 ELSE used - Bills(rows, C)
        /\ long' = Dropped(long, C) /\ spill' = Dropped(spill, C) /\ UNCHANGED <<bytes, job>>
    BY Zenon, <1>6 DEF Clear, memory
  <2>2. Bills(rows, Composites) \in Nat BY Zenon, BillsIsNat
  <2>3. Bills(rows, Composites) = used BY Zenon, <1>0 DEF BilledForInline
  <2>4. C = Composites => used - Bills(rows, C) = 0 BY <2>2, <2>3
  <2>5. used' = used - Bills(rows, C) BY Zenon, <2>1, <2>4
  <2>6. rows' \in [Composites -> Entry \union {None}] /\ BilledForInline'
    BY Zenon, <1>0, <1>6, <2>1, <2>5, LossBills
  <2>7. StoreTypeOK' BY Zenon, <1>0, <2>1, <2>6 DEF StoreTypeOK, Dropped
  <2>. QED BY Zenon, <2>1, <2>6, <2>7, <1>a, <1>c DEF BillInv
<1>7. ASSUME NEW c \in Composites, Warm(c) PROVE BillInv'
  BY Zenon, <1>0, <1>7, TierTypes, StoreBills DEF Warm
<1>8. ASSUME NEW c \in Composites, Lapse(c) PROVE BillInv'
  <2>1. /\ rows' = Dropped(rows, {c}) /\ used' = used - Bill(rows[c])
        /\ UNCHANGED <<bytes, ssd, job>>
    BY Zenon, <1>8 DEF Lapse, memory
  <2>2. Bills(rows, {c}) = Bill(rows[c]) BY Zenon, OneBill
  <2>3. rows' \in [Composites -> Entry \union {None}] /\ BilledForInline'
    BY Zenon, <1>0, <1>8, <2>1, <2>2, LossBills
  <2>4. StoreTypeOK' BY Zenon, <1>0, <2>1, <2>3 DEF StoreTypeOK, ssd
  <2>. QED BY Zenon, <2>1, <2>3, <2>4, <1>a, <1>c DEF BillInv
<1>9. ASSUME NEW c \in Composites, RegionDrops(c) PROVE BillInv'
  <2>1. UNCHANGED <<bytes, store, job>> BY Zenon, <1>9 DEF RegionDrops, memory
  <2>2. /\ long' \in [Composites -> Bytes \union {None}]
        /\ spill' \in [Composites -> Bytes \union {None}]
    BY Zenon, <1>0, <1>9 DEF RegionDrops, StoreTypeOK
  <2>3. StoreTypeOK' BY Zenon, <1>0, <2>1, <2>2 DEF StoreTypeOK, store
  <2>. QED BY Zenon, <2>1, <2>3, <1>a, <1>b, <1>c DEF BillInv
<1>10. ASSUME NEW c \in Composites, NEW ret \in Retentions, Set(c, ret) PROVE BillInv'
  <2>1. c \in Bytes BY Zenon DEF Bytes
  <2>. QED BY Zenon, <1>10, <2>1, StoreBills DEF Set
<1>11. ASSUME NEW cl \in Clients, Reserve(cl) \/ Cancel(cl) \/ Disconnect(cl) PROVE BillInv'
  <2>1. UNCHANGED <<bytes, store, ssd, job>> BY Zenon, <1>11
                                                DEF Reserve, Cancel, Disconnect, memory
  <2>. QED BY Zenon, <2>1, <1>a, <1>b, <1>c, <1>d DEF BillInv
<1>12. ASSUME NEW cl \in Clients, NEW c \in Composites, Fill(cl, c) PROVE BillInv'
  <2>1. bytes' = [bytes EXCEPT ![lease[cl].slot] = c] /\ UNCHANGED <<store, ssd, job>>
    BY Zenon, <1>12 DEF Fill
  <2>2. StoreTypeOK' BY Zenon, <1>0, <1>12, <2>1 DEF StoreTypeOK, store, ssd, Bytes
  <2>. QED BY Zenon, <2>1, <2>2, <1>a, <1>b, <1>c DEF BillInv
<1>13. ASSUME NEW cl \in Clients, NEW c \in Composites, Check(cl, c) \/ Copy(cl, c)
       PROVE  BillInv'
  <2>1. UNCHANGED <<bytes, store, ssd, job>> BY Zenon, <1>13 DEF Check, Copy, memory
  <2>. QED BY Zenon, <2>1, <1>a, <1>b, <1>c, <1>d DEF BillInv
<1>14. ASSUME NEW cl \in Clients, NEW ret \in Retentions, Commit(cl, ret) PROVE BillInv'
  BY Zenon, <1>14, <1>a, CommitBills DEF BillInv
<1>15. ASSUME NEW cl \in Clients, NEW C, Get(cl, C) PROVE BillInv'
  <2>1. UNCHANGED <<bytes, store, ssd>> BY Zenon, <1>15 DEF Get, memory
  <2>2. job'.put = None BY Zenon, <1>15 DEF Get, Handler
  <2>. QED BY Zenon, <2>1, <2>2, <1>a, <1>b, <1>d DEF BillInv, PutTypeOK
<1>. QED
  BY Zenon, <1>1, <1>2, <1>3, <1>4, <1>5, <1>6, <1>7, <1>8, <1>9, <1>10, <1>11, <1>12, <1>13,
     <1>14, <1>15 DEF Next

\* The store is billed for the blocks its rows hold inline and for no other,
\* whatever the namespaces share: HostStore._used_bytes follows every set,
\* commit, drain of the eviction log, expiry, clear and restart.
THEOREM BillIsExact == Spec => []BilledForInline
<1>1. Init => BillInv
  <2>. SUFFICES ASSUME Init PROVE BillInv
    BY Zenon
  <2>1. ArenaInv BY Zenon, KvdConfig DEF Init, ArenaInv, ArenaTypeOK, OneOwner, Leased
  <2>2. StoreTypeOK BY Zenon DEF Init, StoreTypeOK, Nothing, Bytes
  <2>3. BilledForInline BY Zenon, NothingIsFree DEF Init, BilledForInline
  <2>4. PutTypeOK BY Zenon DEF Init, PutTypeOK
  <2>. QED BY Zenon, <2>1, <2>2, <2>3, <2>4 DEF BillInv
<1>2. BillInv => BilledForInline BY Zenon DEF BillInv
<1>. QED BY <1>1, <1>2, BillStep, PTL DEF Spec

-----------------------------------------------------------------------------
(* The room of the eviction log                                            *)

\* The keys that have a slot, and whether a put is between its two steps.
Indexed == {k \in Keys : index[k] # None}
Writing == job # None /\ job.put # None

\* A key is logged when it loses its slot, and none gets one before the log
\* is drained, but the key of the put that drains it.
LogInv ==
    /\ ArenaInv /\ rolled = {} /\ IsFiniteSet(pending)
    /\ Cardinality(pending) + Cardinality(Indexed)
          <= Cardinality(Slots) + IF Writing THEN 1 ELSE 0

\* Keys with slots of their own are no more than the slots.
LEMMA OwnersFit ==
    ASSUME NEW ix \in [Keys -> Slots \union {None}],
           \A j, k \in Keys : ix[j] # None /\ ix[j] = ix[k] => j = k
    PROVE  LET K == {k \in Keys : ix[k] # None}
           IN  /\ IsFiniteSet(K) /\ Cardinality(K) \in Nat /\ Cardinality(Slots) \in Nat
               /\ Cardinality(K) <= Cardinality(Slots)
<1>. DEFINE K == {k \in Keys : ix[k] # None}
            home == [k \in K |-> ix[k]]
<1>1. home \in [K -> Slots] BY Zenon
<1>2. ASSUME NEW j \in K, NEW k \in K, home[j] = home[k] PROVE j = k
  BY Zenon, <1>2
<1>3. home \in Injection(K, Slots) BY Zenon, <1>1, <1>2 DEF Injection, IsInjective
<1>4. IsFiniteSet(Slots) BY Zenon, KvdConfig
<1>. HIDE DEF K, home
<1>5. IsFiniteSet(K) /\ Cardinality(K) <= Cardinality(Slots)
  BY Zenon, <1>3, <1>4, FS_Injection
<1>6. Cardinality(K) \in Nat /\ Cardinality(Slots) \in Nat
  BY Zenon, <1>4, <1>5, FS_CardinalityType
<1>. QED BY Zenon, <1>5, <1>6 DEF K

\* So they are in every state of the arena, and in the next one.
LEMMA IndexedFit ==
    /\ ArenaInv => /\ IsFiniteSet(Indexed) /\ Cardinality(Indexed) \in Nat
                   /\ Cardinality(Indexed) <= Cardinality(Slots)
    /\ ArenaInv' => /\ IsFiniteSet(Indexed') /\ Cardinality(Indexed') \in Nat
                    /\ Cardinality(Indexed') <= Cardinality(Slots)
    /\ Cardinality(Slots) \in Nat
<1>1. ASSUME ArenaInv
      PROVE  /\ index \in [Keys -> Slots \union {None}]
             /\ \A j, k \in Keys : index[j] # None /\ index[j] = index[k] => j = k
  BY Zenon, <1>1 DEF ArenaInv, ArenaTypeOK, OneOwner
<1>2. ASSUME ArenaInv'
      PROVE  /\ index' \in [Keys -> Slots \union {None}]
             /\ \A j, k \in Keys : index'[j] # None /\ index'[j] = index'[k] => j = k
  BY Zenon, <1>2 DEF ArenaInv, ArenaTypeOK, OneOwner
<1>3. Cardinality(Slots) \in Nat BY Zenon, KvdConfig, FS_CardinalityType
<1>. QED BY Zenon, <1>1, <1>2, <1>3, OwnersFit DEF Indexed

\* A step that logs nothing and gives no key a slot.
LEMMA LogRests ==
    ASSUME LogInv, ArenaInv', UNCHANGED log, Indexed' \subseteq Indexed, Writing => Writing'
    PROVE  LogInv'
<1>1. pending' = pending /\ rolled' = rolled BY Zenon DEF log
<1>2. IsFiniteSet(Indexed) /\ Cardinality(Indexed) \in Nat /\ Cardinality(Slots) \in Nat
  BY Zenon, IndexedFit DEF LogInv
<1>3. Cardinality(Indexed') <= Cardinality(Indexed) /\ Cardinality(Indexed') \in Nat
  BY Zenon, <1>2, FS_Subset, FS_CardinalityType
<1>4. IsFiniteSet(pending) /\ Cardinality(pending) \in Nat
  BY Zenon, FS_CardinalityType DEF LogInv
<1>. QED BY <1>1, <1>2, <1>3, <1>4 DEF LogInv

\* A step that drains the log.
LEMMA DrainedFits ==
    ASSUME LogInv, ArenaInv', pending' = {}, UNCHANGED rolled
    PROVE  LogInv'
<1>1. /\ Cardinality(Indexed') \in Nat /\ Cardinality(Slots) \in Nat
      /\ Cardinality(Indexed') <= Cardinality(Slots)
  BY Zenon, IndexedFit
<1>2. IsFiniteSet({}) /\ Cardinality({}) = 0 BY Zenon, FS_EmptySet
<1>. QED BY <1>1, <1>2 DEF LogInv

\* A key that loses its slot finds room in the log of an arena that has no
\* more slots than the log has places.
LEMMA TakeFits ==
    ASSUME LogInv, ~Writing, Cardinality(Slots) <= EvictLogCap, NEW g, Take(g),
           g.from # None => g.from \in Indexed
    PROVE  /\ rolled' = {} /\ IsFiniteSet(pending') /\ Cardinality(pending') \in Nat
           /\ Cardinality(pending') + Cardinality(Indexed \ {g.from}) <= Cardinality(Slots)
           /\ IsFiniteSet(Indexed \ {g.from}) /\ Cardinality(Indexed \ {g.from}) \in Nat
<1>1. /\ IsFiniteSet(Indexed) /\ Cardinality(Indexed) \in Nat /\ Cardinality(Slots) \in Nat
      /\ IsFiniteSet(pending) /\ Cardinality(pending) \in Nat
      /\ Cardinality(pending) + Cardinality(Indexed) <= Cardinality(Slots)
  <2>1. IsFiniteSet(pending) /\ Cardinality(pending) \in Nat
    BY Zenon, FS_CardinalityType DEF LogInv
  <2>2. /\ IsFiniteSet(Indexed) /\ Cardinality(Indexed) \in Nat
        /\ Cardinality(Slots) \in Nat
    BY Zenon, IndexedFit DEF LogInv
  <2>. QED BY <2>1, <2>2 DEF LogInv
<1>2. /\ IsFiniteSet(Indexed \ {g.from})
      /\ Cardinality(Indexed \ {g.from})
            = IF g.from \in Indexed THEN Cardinality(Indexed) - 1 ELSE Cardinality(Indexed)
      /\ Cardinality(Indexed \ {g.from}) \in Nat
  BY Zenon, <1>1, FS_RemoveElement, FS_CardinalityType
<1>3. CASE g.from = None
  <2>1. pending' = pending /\ rolled' = {} BY <1>3 DEF Take, Logged, LogInv
  <2>2. g.from \notin Indexed \/ g.from \in Indexed BY Zenon
  <2>. QED BY <1>1, <1>2, <2>1, <2>2
<1>4. CASE g.from # None
  <2>1. Cardinality(Indexed) > 0
    <3>1. Indexed # {} BY Zenon, <1>4
    <3>2. Cardinality(Indexed) # 0 BY Zenon, <1>1, <3>1, FS_EmptySet
    <3>. QED BY <1>1, <3>2
  <2>2. EvictLogCap \in Nat BY Zenon, KvdConfig
  <2>3. Cardinality(pending) < EvictLogCap BY <1>1, <2>1, <2>2
  <2>4. pending' = pending \union {g.from} BY Zenon, <1>4, <2>3 DEF Take, Logged
  <2>5. rolled' = {} BY <2>4 DEF Take, LogInv
  <2>6. /\ IsFiniteSet(pending')
        /\ Cardinality(pending') = IF g.from \in pending THEN Cardinality(pending)
                                   ELSE Cardinality(pending) + 1
    BY Zenon, <1>1, <2>4, FS_AddElement
  <2>7. Cardinality(Indexed \ {g.from}) = Cardinality(Indexed) - 1 BY Zenon, <1>2, <1>4
  <2>8. /\ Cardinality(pending') \in Nat
        /\ Cardinality(pending') + Cardinality(Indexed \ {g.from}) <= Cardinality(Slots)
    <3>1. CASE g.from \in pending BY <1>1, <2>6, <2>7, <3>1
    <3>2. CASE g.from \notin pending BY <1>1, <2>6, <2>7, <3>2
    <3>. QED BY Zenon, <3>1, <3>2
  <2>. QED BY Zenon, <1>2, <2>5, <2>6, <2>8
<1>. QED BY Zenon, <1>3, <1>4

\* HostStore.set: a put may give one key more a slot, and says so.
LEMMA StoreLogs ==
    ASSUME LogInv, ~Writing, Cardinality(Slots) <= EvictLogCap,
           {"put", "slot"} \cap DOMAIN None = {}, NEW j, NEW c \in Composites, NEW what,
           NEW ret, Store(j, c, what, ret)
    PROVE  LogInv'
<1>. USE DEF LogInv
<1>0. ArenaInv' BY Zenon, StoreKeepsArena
<1>1. CASE StoreInArena(j, c, what, ret)
  <2>0. Key(c) \in Keys BY Zenon DEF Keys
  <2>1. PICK g \in GrantsFor(Key(c)) :
          /\ Take(g) /\ index' = [Without(g.from) EXCEPT ![Key(c)] = g.slot]
          /\ job' = Handler(j.client, j.want, j.alone, j.held,
                            [c |-> c, slot |-> g.slot, what |-> what, ret |-> ret])
    BY Zenon, <1>1 DEF StoreInArena
  <2>2. g.from # None => g.from \in Indexed
    BY KvdConfig DEF GrantsFor, Grants, Indexed, ArenaInv, ArenaTypeOK
  <2>3. /\ rolled' = {} /\ IsFiniteSet(pending') /\ Cardinality(pending') \in Nat
        /\ Cardinality(pending') + Cardinality(Indexed \ {g.from}) <= Cardinality(Slots)
        /\ IsFiniteSet(Indexed \ {g.from}) /\ Cardinality(Indexed \ {g.from}) \in Nat
    BY Zenon, <2>1, <2>2, TakeFits
  <2>. DEFINE more == (Indexed \ {g.from}) \union {Key(c)}
  <2>4. Indexed' \subseteq more
    <3>. SUFFICES ASSUME NEW k \in Keys, index'[k] # None, k # Key(c)
                  PROVE  index[k] # None /\ k # g.from
      BY Zenon DEF Indexed
    <3>1. index \in [Keys -> Slots \union {None}] BY Zenon DEF ArenaInv, ArenaTypeOK
    <3>2. CASE g.from = None
      <4>1. index' = [index EXCEPT ![Key(c)] = g.slot] BY Zenon, <2>1, <3>2 DEF Without
      <4>2. index'[k] = index[k] BY Zenon, <3>1, <4>1
      <4>. QED BY Zenon, <3>2, <4>2, KvdConfig
    <3>3. CASE g.from # None
      <4>. DEFINE ix == [index EXCEPT ![g.from] = None]
      <4>1. index' = [ix EXCEPT ![Key(c)] = g.slot] BY Zenon, <2>1, <3>3 DEF Without
      <4>2. DOMAIN ix = Keys /\ ix[k] = IF k = g.from THEN None ELSE index[k]
        BY Zenon, <3>1
      <4>3. index'[k] = ix[k] BY Zenon, <4>1, <4>2
      <4>. QED BY Zenon, <4>2, <4>3
    <3>. QED BY Zenon, <3>2, <3>3
  <2>5. IsFiniteSet(more) /\ Cardinality(more) \in Nat
        /\ Cardinality(more) <= Cardinality(Indexed \ {g.from}) + 1
    <3>1. /\ IsFiniteSet(more)
          /\ Cardinality(more) = IF Key(c) \in Indexed \ {g.from}
                                 THEN Cardinality(Indexed \ {g.from})
                                 ELSE Cardinality(Indexed \ {g.from}) + 1
      BY Zenon, <2>3, FS_AddElement
    <3>. QED BY <2>3, <3>1
  <2>6. Cardinality(Indexed') \in Nat /\ Cardinality(Indexed') <= Cardinality(more)
    BY Zenon, <1>0, <2>4, <2>5, FS_Subset, IndexedFit
  <2>7. Writing'
    <3>1. job' # None /\ job'.put # None BY <2>1 DEF Handler
    <3>. QED BY Zenon, <3>1 DEF Writing
  <2>8. Cardinality(Slots) \in Nat BY Zenon, IndexedFit
  <2>. QED BY <1>0, <2>3, <2>5, <2>6, <2>7, <2>8
<1>2. CASE StoreRaises(j, c, what, ret)
  <2>1. UNCHANGED <<index, log>> BY Zenon, <1>2 DEF StoreRaises, arena
  <2>2. Indexed' = Indexed BY Zenon, <2>1 DEF Indexed
  <2>. QED BY Zenon, <1>0, <2>1, <2>2, LogRests
<1>3. CASE StoreInline(j, c, what, ret)
  BY Zenon, <1>0, <1>3, DrainedFits DEF StoreInline
<1>4. CASE StoreRefused(j, c, what, ret)
  <2>1. UNCHANGED log BY Zenon, <1>4 DEF StoreRefused
  <2>2. Indexed' \subseteq Indexed BY Zenon, <1>4 DEF StoreRefused, Evict, Indexed
  <2>. QED BY Zenon, <1>0, <2>1, <2>2, LogRests
<1>. QED BY Zenon, <1>1, <1>2, <1>3, <1>4 DEF Store

\* Every step keeps the sum, but that of a put between its two steps.
LEMMA LogStep ==
    ASSUME LogInv, [Next]_vars, Cardinality(Slots) <= EvictLogCap,
           {"put", "slot"} \cap DOMAIN None = {}
    PROVE  LogInv'
<1>0. ArenaInv' BY Zenon, ArenaStep DEF LogInv
<1>a. ASSUME UNCHANGED <<index, log>>, Writing => Writing' PROVE LogInv'
  <2>1. Indexed' = Indexed BY Zenon, <1>a DEF Indexed
  <2>. QED BY Zenon, <1>0, <1>a, <2>1, LogRests
<1>b. ASSUME NEW K, Evict(K), UNCHANGED log, ~Writing PROVE LogInv'
  <2>1. Indexed' \subseteq Indexed BY Zenon, <1>b DEF Evict, Indexed
  <2>. QED BY Zenon, <1>0, <1>b, <2>1, LogRests
<1>c. ASSUME UNCHANGED job PROVE Writing => Writing' BY Zenon, <1>c DEF Writing
<1>d. Idle => ~Writing BY Zenon DEF Idle, Writing
<1>1. CASE UNCHANGED vars BY Zenon, <1>1, <1>a, <1>c DEF vars, log
<1>2. CASE Written BY Zenon, <1>0, <1>2, DrainedFits DEF Written
<1>3. CASE Reply
  <2>1. ~Writing BY Zenon, <1>3 DEF Reply, Writing
  <2>. QED BY Zenon, <1>3, <2>1, <1>a DEF Reply, arena
<1>4. CASE Promote
  <2>1. ~Writing BY Zenon, <1>4 DEF Promote, Writing
  <2>. QED BY Zenon, <1>4, <2>1, StoreLogs DEF Promote
<1>5. CASE Restart BY Zenon, <1>0, <1>5, DrainedFits DEF Restart
<1>6. ASSUME NEW C \in SUBSET Composites, Clear(C) PROVE LogInv'
  BY Zenon, <1>6, <1>b, <1>d DEF Clear
<1>7. ASSUME NEW c \in Composites, Warm(c) PROVE LogInv'
  BY Zenon, <1>7, <1>d, StoreLogs DEF Warm
<1>8. ASSUME NEW c \in Composites, Lapse(c) PROVE LogInv' BY Zenon, <1>8, <1>b, <1>d DEF Lapse
<1>9. ASSUME NEW c \in Composites, RegionDrops(c) PROVE LogInv'
  BY Zenon, <1>9, <1>a, <1>c DEF RegionDrops, arena
<1>10. ASSUME NEW c \in Composites, NEW ret \in Retentions, Set(c, ret) PROVE LogInv'
  BY Zenon, <1>10, <1>d, StoreLogs DEF Set
<1>11. ASSUME NEW cl \in Clients, Reserve(cl) PROVE LogInv'
  <2>1. ~Writing /\ ~Writing' BY Zenon, <1>11, <1>d DEF Reserve, Idle, Writing
  <2>2. PICK g \in Grants : Take(g) /\ index' = Without(g.from) BY Zenon, <1>11 DEF Reserve
  <2>3. g.from # None => g.from \in Indexed BY DEF Grants, Indexed
  <2>4. /\ rolled' = {} /\ IsFiniteSet(pending') /\ Cardinality(pending') \in Nat
        /\ Cardinality(pending') + Cardinality(Indexed \ {g.from}) <= Cardinality(Slots)
        /\ IsFiniteSet(Indexed \ {g.from}) /\ Cardinality(Indexed \ {g.from}) \in Nat
    BY Zenon, <2>1, <2>2, <2>3, TakeFits
  <2>5. Indexed' \subseteq Indexed \ {g.from}
    <3>1. index \in [Keys -> Slots \union {None}] BY Zenon DEF LogInv, ArenaInv, ArenaTypeOK
    <3>2. CASE g.from = None
      BY Zenon, <2>2, <3>2, KvdConfig DEF Without, Indexed
    <3>3. CASE g.from # None
      <4>1. index' = [index EXCEPT ![g.from] = None] BY Zenon, <2>2, <3>3 DEF Without
      <4>. QED BY <3>1, <4>1 DEF Indexed
    <3>. QED BY Zenon, <3>2, <3>3
  <2>6. /\ Cardinality(Indexed') \in Nat /\ Cardinality(Slots) \in Nat
        /\ Cardinality(Indexed') <= Cardinality(Indexed \ {g.from})
    BY Zenon, <1>0, <2>4, <2>5, FS_Subset, IndexedFit
  <2>. QED BY <1>0, <2>1, <2>4, <2>6 DEF LogInv
<1>12. ASSUME NEW cl \in Clients, Cancel(cl) \/ Disconnect(cl) PROVE LogInv'
  BY Zenon, <1>12, <1>a, <1>c DEF Cancel, Disconnect
<1>13. ASSUME NEW cl \in Clients, NEW c \in Composites,
              Fill(cl, c) \/ Check(cl, c) \/ Copy(cl, c)
       PROVE  LogInv'
  BY Zenon, <1>13, <1>a, <1>c DEF Fill, Check, Copy, arena
<1>14. ASSUME NEW cl \in Clients, NEW ret \in Retentions, Commit(cl, ret) PROVE LogInv'
  BY Zenon, <1>0, <1>14, DrainedFits DEF Commit
<1>15. ASSUME NEW cl \in Clients, NEW C, Get(cl, C) PROVE LogInv'
  BY Zenon, <1>15, <1>a, <1>d DEF Get, arena
<1>. QED
  BY Zenon, <1>1, <1>2, <1>3, <1>4, <1>5, <1>6, <1>7, <1>8, <1>9, <1>10, <1>11, <1>12, <1>13,
     <1>14, <1>15 DEF Next

\* An arena with no more slots than the log of evicted keys has places
\* (_EVICT_LOG_CAP, 4096) never loses a key from the log, however many leases
\* are taken between two drains: the exception of RowsPointHome and
\* ReadsOwnBlock for keys that rolled off is of larger arenas.  None is no
\* record.
THEOREM NothingRollsOff ==
    ASSUME Cardinality(Slots) <= EvictLogCap, {"put", "slot"} \cap DOMAIN None = {}
    PROVE  Spec => [](rolled = {})
<1>1. Init => LogInv
  <2>. SUFFICES ASSUME Init PROVE LogInv
    BY Zenon
  <2>1. ArenaInv BY Zenon, KvdConfig DEF Init, ArenaInv, ArenaTypeOK, OneOwner, Leased
  <2>2. Indexed = {} BY Zenon DEF Init, Indexed
  <2>3. Cardinality(Slots) \in Nat BY Zenon, IndexedFit
  <2>4. rolled = {} /\ pending = {} /\ ~Writing BY Zenon DEF Init, Writing
  <2>5. IsFiniteSet(pending) /\ Cardinality(pending) = 0 /\ Cardinality(Indexed) = 0
    BY Zenon, <2>2, <2>4, FS_EmptySet
  <2>. QED BY <2>1, <2>3, <2>4, <2>5 DEF LogInv
<1>2. LogInv => rolled = {} BY Zenon DEF LogInv
<1>3. LogInv /\ [Next]_vars => LogInv' BY Zenon, LogStep
<1>. QED BY <1>1, <1>2, <1>3, PTL DEF Spec
=============================================================================
