--------------------------------- MODULE Kvd ---------------------------------
(***************************************************************************)
(* infera-kvd: the daemon of a node that keeps KV blocks for its engines.  *)
(* One HostStore (kvd/store.py) holds a row per block; the bytes of a row  *)
(* are inline or in a slot of the SharedArena (kvd/shared_arena.py), which *)
(* the engines map into their own address space; below it are two SSD      *)
(* regions (kvd/ssd.py).  The server (kvd/server.py) is one event loop     *)
(* whose handlers do not await while they touch the store, so a handler is *)
(* atomic for the other handlers.  It is not atomic for the engines, which *)
(* read and write slots through their own mapping: a put is two steps      *)
(* here, and what an engine reads after an answer is a step of its own.    *)
(*                                                                         *)
(* A block is its composite <<namespace, key>>; its bytes are modelled by  *)
(* the composite itself, since the two together name its content.          *)
(***************************************************************************)
EXTENDS Integers, FiniteSets

CONSTANTS
    Composites,  \* the blocks the engines save and load
    Slots,       \* slot numbers of the arena, from 0
    Clients,     \* connections
    Sharing,     \* those that negotiated the shared arena
    Big,         \* keys whose block does not fit a slot
    MaxBytes,    \* HostStore._max_bytes, in blocks stored inline
    EvictLogCap, \* _EVICT_LOG_CAP
    Worlds,      \* how often each kind of request and loss may happen in a run
    None, Empty, Torn

Namespace(c) == c[1]
Key(c) == c[2]
Keys == {Key(c) : c \in Composites}
Inline == -1
Retentions == {"short", "long"}
Priority == [short |-> 50, long |-> 100]
Lease == [slot : Slots, block : Composites \union {None}]
\* A row with any bytes, whole or torn.
Entry == [slot : Slots \union {Inline}, what : Composites \union {Empty, Torn}, ret : Retentions]
Bounded == {"saves", "loads", "leases", "losses"}

ASSUME KvdConfig ==
    /\ Slots \subseteq Nat /\ IsFiniteSet(Slots)
    /\ IsFiniteSet(Composites)
    /\ Sharing \subseteq Clients /\ Big \subseteq Keys
    /\ MaxBytes \in Nat \ {0} /\ EvictLogCap \in Nat \ {0} /\ Worlds \subseteq [Bounded -> Nat]
    /\ None \notin Slots \union {Inline} /\ None \notin Keys /\ None \notin Composites
    /\ None \notin Clients /\ None \notin Lease /\ {Empty, Torn} \cap Composites = {}
    /\ None \notin Entry

VARIABLES
    index,    \* SharedArena._slot_index: key -> slot
    free,     \* _free_slots
    lease,    \* _reservations, one at a time for each connection
    pending,  \* _recent_evicted_keys
    rolled,   \* history: keys that have rolled off a full pending
    ver,      \* the version in the header of each slot
    bytes,    \* the payload of each slot
    rows,     \* HostStore._entries
    used,     \* HostStore._used_bytes
    long,     \* LongStorageRegion: composite -> bytes
    spill,    \* SpilloverRegion: composite -> bytes
    job,      \* the handler the event loop is in, None between handlers
    budget,   \* what is left of the bounds
    view      \* per client and block: the answer it has and what it made of it

log == <<pending, rolled>>
arena == <<index, free, lease, log>>
memory == <<ver, bytes>>
store == <<rows, used>>
ssd == <<long, spill>>
vars == <<index, free, lease, pending, rolled, ver, bytes, rows, used, long, spill, job, budget,
          view>>

Contents == Composites \union {Empty}
Row == [slot : Slots \union {Inline}, what : Contents, ret : Retentions]
Put == [c : Composites, slot : Slots, what : Contents, ret : Retentions]
Job == [client : Clients \union {None}, want : SUBSET Composites, alone : BOOLEAN,
        held : [Composites -> Row \union {None}], put : Put \union {None}]
Answer == [st : {"answered", "viewing"}, slot : Slots, ver : Nat, alone : BOOLEAN]
Got == [st : {"got"}, what : Contents \union {Torn}, sound : BOOLEAN, alone : BOOLEAN]

\* The kinds of values the state of the daemon and its clients takes.
TypeOK ==
    /\ index \in [Keys -> Slots \union {None}]
    /\ free \subseteq Slots
    /\ lease \in [Clients -> Lease \union {None}]
    /\ pending \subseteq Keys /\ rolled \subseteq Keys
    /\ ver \in [Slots -> Nat]
    /\ bytes \in [Slots -> Contents \union {Torn}]
    /\ rows \in [Composites -> Row \union {None}]
    /\ used \in Nat
    /\ long \in [Composites -> Contents \union {None}]
    /\ spill \in [Composites -> Contents \union {None}]
    /\ job \in Job \union {None}
    /\ budget \in [Bounded -> Nat]
    /\ view \in [Clients -> [Composites -> Answer \union Got \union {None}]]

Nothing == [c \in Composites |-> None]

Init ==
    /\ index = [k \in Keys |-> None] /\ free = Slots
    /\ lease = [cl \in Clients |-> None] /\ pending = {} /\ rolled = {}
    /\ ver = [s \in Slots |-> 0] /\ bytes = [s \in Slots |-> Empty]
    /\ rows = Nothing /\ used = 0 /\ long = Nothing /\ spill = Nothing
    /\ job = None /\ view = [cl \in Clients |-> Nothing]
    /\ budget \in Worlds

Spend(what) == budget[what] > 0 /\ budget' = [budget EXCEPT ![what] = @ - 1]

-----------------------------------------------------------------------------
(* The arena                                                               *)

\* Mutant: a stable slot keeps its version when a write begins.
NextOddKept(v) == IF v % 2 = 0 THEN v ELSE v + 2

\* The odd version that says a write is under way.
NextOdd(v) == IF v % 2 = 0 THEN v + 1 ELSE v + 2

\* The slots that can be handed out, each with the key that loses it: a free
\* one, or when there is none that of any key (the order of _slot_index,
\* which names the oldest, is not modelled).
Grants ==
    IF free # {}
    THEN {[slot |-> s, from |-> None] : s \in free}
    ELSE {[slot |-> index[k], from |-> k] : k \in {k \in Keys : index[k] # None}}

\* put() under a key that has a slot frees it and takes it again.
GrantsFor(k) ==
    IF index[k] # None THEN {[slot |-> index[k], from |-> None]} ELSE Grants

\* Mutant: the key that loses its slot is not logged.
TakeSilently(g) ==
    /\ free' = free \ {g.slot}
    /\ ver' = [ver EXCEPT ![g.slot] = NextOdd(@)]
    /\ UNCHANGED log

\* What the log may be once a key has lost its slot: a full one lets go of a
\* key (the order, which names the oldest, is not modelled).
Logged(k) ==
    IF k = None THEN {pending}
    ELSE IF Cardinality(pending) < EvictLogCap THEN {pending \union {k}}
    ELSE {(pending \ {j}) \union {k} : j \in pending}

Take(g) ==
    /\ free' = free \ {g.slot}
    /\ pending' \in Logged(g.from)
    /\ rolled' = rolled \union (pending \ pending')
    /\ ver' = [ver EXCEPT ![g.slot] = NextOdd(@)]

Without(k) == IF k = None THEN index ELSE [index EXCEPT ![k] = None]

\* evict_key(..., notify_drain=False) for a set of keys.
Evict(K) ==
    /\ index' = [k \in Keys |-> IF k \in K THEN None ELSE index[k]]
    /\ free' = free \union ({index[k] : k \in K} \ {None})

-----------------------------------------------------------------------------
(* Rows of the store                                                       *)

Bill(r) == IF r # None THEN IF r.slot = Inline /\ r.what # Empty THEN 1 ELSE 0 ELSE 0
Bills(rs, C) == Cardinality({c \in C : Bill(rs[c]) = 1})
Dropped(rs, C) == [c \in Composites |-> IF c \in C THEN None ELSE rs[c]]

\* The keys of those blocks of C whose row has a slot to give back.
Backed(C) == {Key(c) : c \in {c \in C : rows[c] # None /\ rows[c].slot # Inline}}

\* resolve_value: the bytes of a row, none of them while its slot is written.
Resolve(r) ==
    IF r.slot = Inline THEN r.what
    ELSE IF ver[r.slot] % 2 = 0 THEN bytes[r.slot] ELSE Empty

Evicted == {c \in Composites : Key(c) \in pending}

\* Put rs in place after the blocks whose key the arena evicted are dropped;
\* u is what rs is billed.
Drain(rs, u) ==
    /\ rows' = Dropped(rs, Evicted)
    /\ used' = u - Bills(rs, Evicted)

Fits(c, what) == what = Empty \/ Key(c) \notin Big

\* set() refuses to lower the retention of a row.
Allowed(c, ret) == rows[c] # None => Priority[ret] >= Priority[rows[c].ret]

Handler(cl, want, alone, held, put) ==
    [client |-> cl, want |-> want, alone |-> alone, held |-> held, put |-> put]

\* After set() of block c: a save is answered, a load goes on.
Proceed(j, c, row) ==
    job' = IF j.client = None THEN None
           ELSE Handler(j.client, j.want \ {c}, j.alone, [j.held EXCEPT ![c] = row], None)

\* The write-through of a long block, of what its row then holds.
WriteThrough(c, ret, what) ==
    long' = IF ret = "long" /\ rows'[c] # None THEN [long EXCEPT ![c] = what] ELSE long

-----------------------------------------------------------------------------
(* HostStore.set                                                           *)

\* The block goes to a slot: put() up to the version that marks the write.
StoreInArena(j, c, what, ret) ==
    /\ Allowed(c, ret) /\ Fits(c, what)
    /\ \E g \in GrantsFor(Key(c)) :
         /\ Take(g)
         /\ index' = [Without(g.from) EXCEPT ![Key(c)] = g.slot]
         /\ bytes' = [bytes EXCEPT ![g.slot] = Torn]
         /\ job' = Handler(j.client, j.want, j.alone, j.held,
                           [c |-> c, slot |-> g.slot, what |-> what, ret |-> ret])
    /\ UNCHANGED <<lease, rows, used, long, spill, view>>

\* put() with every slot leased raises: the request is answered with an error.
StoreRaises(j, c, what, ret) ==
    /\ Allowed(c, ret) /\ Fits(c, what) /\ GrantsFor(Key(c)) = {}
    /\ job' = None
    /\ UNCHANGED <<arena, memory, store, ssd, view>>

\* The rest of set(): the payload, the even version, the row, the drain of
\* the eviction log, the write-through.
Written ==
    /\ job # None /\ job.put # None
    /\ LET p == job.put
           row == [slot |-> p.slot, what |-> Empty, ret |-> p.ret]
       IN  /\ bytes' = [bytes EXCEPT ![p.slot] = p.what]
           /\ ver' = [ver EXCEPT ![p.slot] = @ + 1]
           /\ Drain([rows EXCEPT ![p.c] = row], used - Bill(rows[p.c]))
           /\ pending' = {}
           /\ WriteThrough(p.c, p.ret, p.what)
           /\ Proceed(job, p.c, rows'[p.c])
    /\ UNCHANGED <<index, free, lease, rolled, spill, budget, view>>

\* The rows a block of this retention may displace.
Victims(ret) == {v \in Composites : rows[v] # None /\ Priority[rows[v].ret] <= Priority[ret]}
Room(E) == used - Bills(rows, E) + 1 <= MaxBytes

\* The loop that makes room takes the lowest priority first, slot or inline,
\* and stops at the first victim after which there is room.
MakesRoom(E, ret) ==
    /\ E \subseteq Victims(ret)
    /\ \A e \in E, v \in Victims(ret) \ E : Priority[rows[e].ret] <= Priority[rows[v].ret]
    /\ E # {} => \E last \in E : /\ ~Room(E \ {last})
                                 /\ \A e \in E : Priority[rows[e].ret] <= Priority[rows[last].ret]

Spilled(E) ==
    [c \in Composites |->
        IF c \in E THEN IF rows[c].ret = "short" THEN Resolve(rows[c]) ELSE spill[c] ELSE spill[c]]

\* A block that fits no slot is stored in place of the old value, or in room
\* made for it; short victims go to the spillover region.
StoreInline(j, c, what, ret) ==
    /\ Allowed(c, ret) /\ ~Fits(c, what)
    /\ LET row == [slot |-> Inline, what |-> what, ret |-> ret]
       IN  \E E \in IF rows[c] # None THEN {{}} ELSE {E \in SUBSET Victims(ret) : MakesRoom(E, ret)} :
             /\ rows[c] = None => Room(E)
             /\ Evict(Backed(E))
             /\ spill' = Spilled(E)
             /\ Drain([Dropped(rows, E) EXCEPT ![c] = row],
                      used - Bills(rows, E) - Bill(rows[c]) + 1)
             /\ WriteThrough(c, ret, what)
             /\ Proceed(j, c, rows'[c])
    /\ pending' = {}
    /\ UNCHANGED <<lease, rolled, memory, view>>

\* There is not room enough: what the loop took is gone, and is not spilled.
\* A load still gets its bytes, in an entry that is not kept.
StoreRefused(j, c, what, ret) ==
    /\ rows[c] = None /\ ~Fits(c, what) /\ ~Room(Victims(ret))
    /\ Evict(Backed(Victims(ret)))
    /\ rows' = Dropped(rows, Victims(ret))
    /\ used' = used - Bills(rows, Victims(ret))
    /\ Proceed(j, c, [slot |-> Inline, what |-> what, ret |-> ret])
    /\ UNCHANGED <<lease, log, memory, ssd, view>>

Store(j, c, what, ret) ==
    \/ StoreInArena(j, c, what, ret)
    \/ StoreRaises(j, c, what, ret)
    \/ StoreInline(j, c, what, ret)
    \/ StoreRefused(j, c, what, ret)

-----------------------------------------------------------------------------
(* Requests                                                                *)

Idle == job = None
Alone == Handler(None, {}, TRUE, Nothing, None)

Set(c, ret) == Idle /\ Spend("saves") /\ Store(Alone, c, c, ret)

InTier(c) == long[c] # None \/ spill[c] # None
TierOf(c) == IF long[c] # None THEN [what |-> long[c], ret |-> "long"]
             ELSE [what |-> spill[c], ret |-> "short"]

\* A prefetch hint reaches the worker: warm_from_ssd.
Warm(c) ==
    /\ Idle /\ Spend("loads") /\ rows[c] = None /\ InTier(c)
    /\ Store(Alone, c, TierOf(c).what, TierOf(c).ret)

\* Get and BatchGet, in one namespace: the rows in RAM are collected first,
\* what a region has of the rest is promoted.
Get(cl, C) ==
    /\ Idle /\ Spend("loads")
    /\ \A b, c \in C : Namespace(b) = Namespace(c)
    /\ job' = Handler(cl, {c \in C : rows[c] = None}, \E c \in C : C = {c},
                      [c \in Composites |-> IF c \in C THEN rows[c] ELSE None], None)
    /\ view' = [view EXCEPT ![cl] = Nothing]
    /\ UNCHANGED <<arena, memory, store, ssd>>

Promote ==
    /\ job # None /\ UNCHANGED budget
    /\ job.client # None /\ job.put = None
    /\ \E c \in Composites : /\ c \in job.want /\ InTier(c)
                             /\ Store(job, c, TierOf(c).what, TierOf(c).ret)

\* The answer about one block: where to read it, or its bytes.  An inline
\* row in a batch for a client that shares the arena is reported as a miss.
AnswerFor(cl, r) ==
    IF r = None THEN None
    ELSE IF cl \in Sharing /\ r.slot # Inline
         THEN [st |-> "answered", slot |-> r.slot, ver |-> ver[r.slot], alone |-> job.alone]
    ELSE IF cl \in Sharing /\ ~job.alone THEN None
    ELSE [st |-> "got", what |-> Resolve(r), sound |-> TRUE, alone |-> job.alone]

Reply ==
    /\ job # None
    /\ job.client # None /\ job.put = None
    /\ \A c \in job.want : ~InTier(c)
    /\ view' = [view EXCEPT ![job.client] =
                    [c \in Composites |-> AnswerFor(job.client, job.held[c])]]
    /\ job' = None
    /\ UNCHANGED <<arena, memory, store, ssd, budget>>

\* Mutant: an expired row stays on the bill.
LapseBilled(c) ==
    /\ Idle /\ Spend("losses") /\ rows[c] # None
    /\ rows' = Dropped(rows, {c})
    /\ Evict(Backed({c}))
    /\ UNCHANGED <<lease, log, memory, used, ssd, job, view>>

\* get, get_many or exists finds that the deadline of a row has passed (any
\* save may carry one).
Lapse(c) ==
    /\ Idle /\ Spend("losses") /\ rows[c] # None
    /\ rows' = Dropped(rows, {c})
    /\ used' = used - Bill(rows[c])
    /\ Evict(Backed({c}))
    /\ UNCHANGED <<lease, log, memory, ssd, job, view>>

Clear(C) ==
    /\ Idle /\ Spend("losses")
    /\ rows' = Dropped(rows, C)
    /\ used' = IF C = Composites THEN 0 ELSE used - Bills(rows, C)
    /\ Evict(Backed(C))
    /\ long' = Dropped(long, C) /\ spill' = Dropped(spill, C)
    /\ UNCHANGED <<lease, log, memory, job, view>>

-----------------------------------------------------------------------------
(* Saving through a lease                                                  *)

Reserve(cl) ==
    /\ Idle /\ Spend("leases") /\ cl \in Sharing /\ lease[cl] = None
    /\ \E g \in Grants :
         /\ Take(g)
         /\ index' = Without(g.from)
         /\ lease' = [lease EXCEPT ![cl] = [slot |-> g.slot, block |-> None]]
    /\ UNCHANGED <<bytes, store, ssd, job, view>>

\* The engine writes the block into the slot through its own mapping.
Fill(cl, c) ==
    /\ lease[cl] # None /\ Key(c) \notin Big
    /\ lease[cl].block = None
    /\ bytes' = [bytes EXCEPT ![lease[cl].slot] = c]
    /\ lease' = [lease EXCEPT ![cl].block = c]
    /\ UNCHANGED <<index, free, log, ver, store, ssd, job, budget, view>>

\* get_slot_for_key(...) or -1: slot 0 is taken for none.
SlotOrInline(s) == IF s = 0 THEN Inline ELSE s

\* commit_reservation, then commit_arena_lease: a slot the key had is freed
\* with every row of the key, the row is put, the eviction log is drained.
Commit(cl, ret) ==
    /\ Idle /\ lease[cl] # None
    /\ lease[cl].block # None
    /\ LET c == lease[cl].block
           k == Key(c)
           s == lease[cl].slot
           over == IF index[k] # None THEN {b \in Composites : Key(b) = k} ELSE {}
           kept == Dropped(rows, over)
           row == [slot |-> SlotOrInline(s), what |-> Empty, ret |-> ret]
       IN  /\ free' = free \union ({index[k]} \ {None})
           /\ index' = [index EXCEPT ![k] = s]
           /\ lease' = [lease EXCEPT ![cl] = None]
           /\ ver' = [ver EXCEPT ![s] = @ + 1]
           /\ Drain([kept EXCEPT ![c] = row], used - Bills(rows, over) - Bill(kept[c]))
    /\ pending' = {}
    /\ UNCHANGED <<rolled, bytes, ssd, job, budget, view>>

\* Mutant: the slot is freed and the reservation stays.
ReleaseKeepsLease(cl) ==
    /\ free' = IF lease[cl] = None THEN free ELSE free \union {lease[cl].slot}
    /\ UNCHANGED lease

Release(cl) ==
    /\ lease' = [lease EXCEPT ![cl] = None]
    /\ free' = IF lease[cl] = None THEN free ELSE free \union {lease[cl].slot}

Cancel(cl) ==
    /\ Idle /\ lease[cl] # None
    /\ Release(cl)
    /\ UNCHANGED <<index, log, memory, store, ssd, job, budget, view>>

\* The connection ends, possibly with its engine: its leases are cancelled.
Disconnect(cl) ==
    /\ Idle /\ Spend("losses") /\ (lease[cl] # None \/ view[cl] # Nothing)
    /\ Release(cl)
    /\ view' = [view EXCEPT ![cl] = Nothing]
    /\ UNCHANGED <<index, log, memory, store, ssd, job>>

-----------------------------------------------------------------------------
(* Reading through the mapping                                             *)

Holds(cl, c, st) == view[cl][c] # None /\ view[cl][c].st = st

\* read_slot_seqlock compares the versions and returns a view of the slot.
Check(cl, c) ==
    /\ Holds(cl, c, "answered")
    /\ LET a == view[cl][c]
       IN  view' = [view EXCEPT ![cl][c] =
                       IF a.ver % 2 = 0 /\ ver[a.slot] = a.ver
                       THEN [st |-> "viewing", slot |-> a.slot, ver |-> a.ver, alone |-> a.alone]
                       ELSE None]
    /\ UNCHANGED <<arena, memory, store, ssd, job, budget>>

\* The caller copies the bytes out of the view; sound records whether the
\* slot still had the version that was asked for.
Copy(cl, c) ==
    /\ Holds(cl, c, "viewing")
    /\ LET a == view[cl][c]
       IN  view' = [view EXCEPT ![cl][c] =
                       [st |-> "got", what |-> bytes[a.slot], sound |-> ver[a.slot] = a.ver,
                        alone |-> a.alone]]
    /\ UNCHANGED <<arena, memory, store, ssd, job, budget>>

-----------------------------------------------------------------------------
(* The environment                                                         *)

\* A region evicts its oldest block for a new one, or cannot read a file.
RegionDrops(c) ==
    /\ Idle /\ Spend("losses")
    /\ \/ long[c] # None /\ long' = [long EXCEPT ![c] = None] /\ UNCHANGED spill
       \/ spill[c] # None /\ spill' = [spill EXCEPT ![c] = None] /\ UNCHANGED long
    /\ UNCHANGED <<arena, memory, store, job, view>>

\* The daemon is restarted, in the middle of a handler too: the long region
\* recovers its blocks, the spillover region is wiped.
Restart ==
    /\ Spend("losses")
    /\ index' = [k \in Keys |-> None] /\ free' = Slots
    /\ lease' = [cl \in Clients |-> None] /\ pending' = {}
    /\ ver' = [s \in Slots |-> 0] /\ bytes' = [s \in Slots |-> Empty]
    /\ rows' = Nothing /\ used' = 0 /\ spill' = Nothing
    /\ job' = None /\ view' = [cl \in Clients |-> Nothing]
    /\ UNCHANGED <<long, rolled>>

Next ==
    \/ Written \/ Promote \/ Reply \/ Restart
    \/ Clear(Composites)
    \/ \E n \in {Namespace(c) : c \in Composites} : Clear({c \in Composites : Namespace(c) = n})
    \/ \E c \in Composites : Warm(c) \/ Lapse(c) \/ RegionDrops(c)
    \/ \E c \in Composites, ret \in Retentions : Set(c, ret)
    \/ \E cl \in Clients : \/ Reserve(cl) \/ Cancel(cl) \/ Disconnect(cl)
                           \/ \E c \in Composites : Fill(cl, c) \/ Check(cl, c) \/ Copy(cl, c)
                           \/ \E ret \in Retentions : Commit(cl, ret)
                           \/ \E b, c \in Composites : Get(cl, {b, c})

Spec == Init /\ [][Next]_vars

-----------------------------------------------------------------------------
(* Properties                                                              *)

Leased(cl, s) == lease[cl] # None /\ lease[cl].slot = s

\* No slot is lost and none has two owners: through puts, leases, commits
\* over an older slot, cancellations, disconnects, expiry and clears, a slot
\* is on the free list, or belongs to one key, or to one lease.
OneOwner ==
    \A s \in Slots :
        /\ \/ s \in free
           \/ \E k \in Keys : index[k] = s
           \/ \E cl \in Clients : Leased(cl, s)
        /\ \A k \in Keys : index[k] = s =>
              /\ s \notin free
              /\ \A j \in Keys \ {k} : index[j] # s
        /\ \A cl \in Clients : Leased(cl, s) =>
              /\ s \notin free
              /\ \A k \in Keys : index[k] # s
              /\ \A d \in Clients \ {cl} : ~Leased(d, s)

\* No two namespaces share a key.  The store allows them to, and the ranks of
\* a tensor-parallel engine do; the arena is indexed by the key alone.
KeysApart == \A b, c \in Composites : Key(b) = Key(c) => b = c

\* A row that has a slot has the one the arena keeps for its key, or its key
\* is in the eviction log the next set or commit drains: a reservation may
\* take the slot of a row long before the store hears of it.  A key that
\* rolls off a full log leaves its row at a slot that is given to others; it
\* leads no other row astray.
Kept == {c \in Composites : Key(c) \notin rolled}
RowsPointHome ==
    \A c \in Kept :
        rows[c] # None =>
            rows[c].slot \in {Inline, index[Key(c)]} \/ Key(c) \in pending

\* A single read gets the bytes of the block it asked for, or none: as long
\* as a slot has the version an answer carries it holds that block, through
\* the eviction and reuse of the slot by puts and by the leases of other
\* engines; a copy can be wrong only after the version has moved.  (Not so in
\* a batch: a block promoted for it may take the slot of one it holds; nor for
\* a block whose key has rolled off the eviction log, whatever the others do.)
Own(v, c) ==
    v # None =>
        IF v.st = "got" THEN v.sound => v.what \in {c, Empty}
        ELSE v.ver % 2 = 0 /\ ver[v.slot] = v.ver => bytes[v.slot] \in {c, Empty}

ReadsOwnBlock ==
    \A cl \in Clients, c \in Kept :
        view[cl][c] # None => (view[cl][c].alone => Own(view[cl][c], c))

\* The store is billed for the blocks its rows hold inline and for no other,
\* through overwrites, commits over inline rows, drains, expiry and clears.
BilledForInline == used = Bills(rows, Composites)
=============================================================================
