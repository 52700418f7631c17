---------------------------- MODULE KvViewProofs ----------------------------
(***************************************************************************)
(* Proofs about KvView, for every set of blocks and every number of        *)
(* events, failures and restarts: a view that is not marked dirty is in    *)
(* the bucket, a relay that has seen a clear and caught up holds what the  *)
(* engine holds, and a router that is exact is behind it by the messages   *)
(* it has not been delivered.  What a sequence of events makes of a view   *)
(* is a relation here, Leads, which grows at one end and shrinks at the    *)
(* other; that Replay computes it is by induction on the events, as the    *)
(* absence of a least one at which the two part.                           *)
(***************************************************************************)
EXTENDS KvView, SequenceTheorems, WellFoundedInduction, TLAPS

WritesTypeOK == puts \in Seq(Writes) /\ rebuilding \in Writes \cup {None} /\ relay \in Caches

\* A writer awaits its write: it has one on its way at most.
OnePerWriter ==
    /\ \A i, j \in 1 .. Len(puts) : puts[i].writer = puts[j].writer => i = j
    /\ rebuilding # None => \A i \in 1 .. Len(puts) : puts[i].writer # rebuilding.writer

\* The bucket is rebuilt once, for one write.
OneRebuild ==
    /\ ~kvHealed => rebuilding = None /\ \A i \in 1 .. Len(puts) : ~puts[i].again
    /\ rebuilding # None => \A i \in 1 .. Len(puts) : ~puts[i].again
    /\ \A i, j \in 1 .. Len(puts) : puts[i].again /\ puts[j].again => i = j

\* While _loop awaits its write it takes no event: its write is of the view
\* as it is.
LoopIsCurrent ==
    /\ hand # None => Free("loop")
    /\ \A i \in 1 .. Len(puts) : puts[i].writer = "loop" => puts[i].view = relay.view
    /\ rebuilding # None /\ rebuilding.writer = "loop" => rebuilding.view = relay.view

\* So a write that is behind another, or behind a rebuild, is current too,
\* unless it is the one the rebuild delayed.
LastIsCurrent ==
    /\ Len(puts) > 1 => puts[Len(puts)].view = relay.view \/ puts[Len(puts)].again
    /\ rebuilding # None /\ puts # <<>> => puts[Len(puts)].view = relay.view

\* A clean view is in the bucket or on its way.
CleanIsComing ==
    ~dirty /\ stale = "no" =>
        \/ rebuilding # None
        \/ puts = <<>> /\ bucket = relay.view
        \/ puts # <<>> /\ (puts[Len(puts)].again \/ puts[Len(puts)].view = relay.view)

WriteInv ==
    /\ WritesTypeOK /\ OnePerWriter /\ OneRebuild
    /\ LoopIsCurrent /\ LastIsCurrent /\ CleanIsComing

\* A write joins the end of what is on its way.
LEMMA AppendIs ==
    ASSUME NEW w \in Writes, puts \in Seq(Writes), puts' = Append(puts, w)
    PROVE  /\ puts' \in Seq(Writes) /\ Len(puts') = Len(puts) + 1 /\ puts' # <<>>
           /\ \A i \in 1 .. Len(puts) : puts'[i] = puts[i]
           /\ puts'[Len(puts) + 1] = w
OBVIOUS

\* The first write leaves the others in their order.
LEMMA TailIs ==
    ASSUME puts \in Seq(Writes), puts # <<>>, puts' = Tail(puts)
    PROVE  /\ puts' \in Seq(Writes) /\ Len(puts') = Len(puts) - 1 /\ Len(puts) \in Nat \ {0}
           /\ \A i \in 1 .. Len(puts') : puts'[i] = puts[i + 1]
           /\ Head(puts) = puts[1] /\ Head(puts) \in Writes
           /\ puts' = <<>> <=> Len(puts) = 1
<1>1. Len(puts) \in Nat \ {0} OBVIOUS
<1>2. puts' \in Seq(Writes) /\ Len(puts') = Len(puts) - 1 BY <1>1
<1>3. \A i \in 1 .. Len(puts') : puts'[i] = puts[i + 1] BY <1>1
<1>4. Head(puts) = puts[1] /\ puts[1] \in Writes BY <1>1
<1>5. puts' = <<>> <=> Len(puts') = 0 BY Zenon, <1>2, EmptySeq
<1>6. puts' = <<>> <=> Len(puts) = 1 BY <1>1, <1>2, <1>5
<1>. QED BY <1>1, <1>2, <1>3, <1>4, <1>6

-----------------------------------------------------------------------------
(* The steps of the writers                                                *)

\* A write begins, of the view as it then is.
LEMMA BeginKeeps ==
    ASSUME WriteInv, NEW writer \in Writers, Free(writer), BeginWrite(writer, relay'.view),
           relay' \in Caches, UNCHANGED <<rebuilding, kvHealed>>,
           \/ writer = "loop" /\ hand' = None
           \/ writer = "drain" /\ UNCHANGED <<relay, hand>>
    PROVE  WriteInv'
<1>. USE DEF WriteInv
<1>. DEFINE w == [writer |-> writer, view |-> relay'.view, again |-> FALSE]
            n == Len(puts)
<1>1. w \in Writes BY DEF Writes, Caches
<1>2. /\ puts' \in Seq(Writes) /\ Len(puts') = n + 1 /\ puts' # <<>>
      /\ \A i \in 1 .. n : puts'[i] = puts[i]
      /\ puts'[n + 1] = w
  BY <1>1, AppendIs DEF BeginWrite, WritesTypeOK
<1>3. n \in Nat BY DEF WritesTypeOK
<1>4. w.writer = writer /\ w.view = relay'.view /\ ~w.again OBVIOUS
<1>5. WritesTypeOK' BY <1>2 DEF WritesTypeOK
<1>6. OnePerWriter'
  <2>1. \A i \in 1 .. n : puts[i].writer # writer BY DEF Free
  <2>2. rebuilding # None => rebuilding.writer # writer BY DEF Free
  <2>. QED BY <1>2, <1>3, <1>4, <2>1, <2>2 DEF OnePerWriter
<1>7. OneRebuild' BY <1>2, <1>3, <1>4 DEF OneRebuild
<1>8. LastIsCurrent' /\ CleanIsComing' BY <1>2, <1>3, <1>4 DEF LastIsCurrent, CleanIsComing
<1>9. LoopIsCurrent'
  <2>1. CASE writer = "loop" /\ hand' = None
    BY <1>2, <1>3, <1>4, <2>1 DEF LoopIsCurrent, Free
  <2>2. CASE writer = "drain" /\ UNCHANGED <<relay, hand>>
    BY <1>2, <1>3, <1>4, <2>2 DEF LoopIsCurrent, Free
  <2>. QED BY <2>1, <2>2
<1>. QED BY <1>5, <1>6, <1>7, <1>8, <1>9

\* An event at the end of a sequence of them.
LEMMA EventAppend ==
    ASSUME NEW q \in Seq(Events), NEW e \in Events
    PROVE  /\ Append(q, e) \in Seq(Events) /\ Len(Append(q, e)) = Len(q) + 1
           /\ \A i \in 1 .. Len(q) : Append(q, e)[i] = q[i]
           /\ Append(q, e)[Len(q) + 1] = e
BY AppendProperties

\* What an event leaves of a view is a view.
LEMMA HandleKeepsCaches ==
    ASSUME NEW c \in Caches, NEW e \in Events PROVE HandleEvent(c, e) \in Caches
<1>1. CASE e.kind = "stored" /\ e.block \in Blocks
  <2>1. OnBlockStored(c, e) \in Caches BY Zenon, <1>1 DEF OnBlockStored, Caches
  <2>. QED BY <1>1, <2>1 DEF HandleEvent
<1>2. CASE e.kind = "removed"
  <2>1. OnBlockRemoved(c, e) \in Caches BY Zenon DEF OnBlockRemoved, Caches
  <2>. QED BY <1>2, <2>1 DEF HandleEvent
<1>3. CASE e.kind = "cleared"
  <2>1. [c EXCEPT !.view = {}, !.map = {}] \in Caches BY Zenon DEF Caches
  <2>. QED BY <1>3, <2>1 DEF HandleEvent
<1>. QED BY <1>1, <1>2, <1>3 DEF Events

\* The loop takes an event while it awaits no write.
LEMMA ReceiveKeeps == ASSUME WriteInv, Receive PROVE WriteInv'
<1>1. UNCHANGED <<puts, rebuilding, kvHealed, relay, dirty, stale, bucket>> /\ Free("loop")
  BY DEF Receive, writeVars
<1>2. WritesTypeOK' /\ OnePerWriter' /\ OneRebuild'
  BY <1>1 DEF WriteInv, WritesTypeOK, OnePerWriter, OneRebuild
<1>3. LastIsCurrent' /\ CleanIsComing' BY <1>1 DEF WriteInv, LastIsCurrent, CleanIsComing
<1>4. LoopIsCurrent' BY <1>1 DEF WriteInv, LoopIsCurrent, Free
<1>. QED BY <1>2, <1>3, <1>4 DEF WriteInv

\* The rest of _loop: where the last write is too recent, the view moves on
\* and is marked; of the writes on their way one at most is left behind.
LEMMA ApplyKeeps == ASSUME WriteInv, hand \in Events, Apply PROVE WriteInv'
<1>. USE DEF WriteInv
<1>1. /\ hand # None /\ hand' = None /\ relay' = HandleEvent(relay, hand)
      /\ UNCHANGED <<rebuilding, kvHealed, bucket>>
  BY DEF Apply
<1>2. relay' \in Caches BY <1>1, HandleKeepsCaches DEF WritesTypeOK
<1>3. Free("loop") BY <1>1 DEF LoopIsCurrent
<1>4. CASE due
  BY <1>1, <1>2, <1>3, <1>4, BeginKeeps DEF Apply, Writers
<1>5. CASE ~due
  <2>1. dirty' = TRUE /\ UNCHANGED puts BY <1>5 DEF Apply
  <2>2. Len(puts) \in Nat /\ \A i \in 1 .. Len(puts) : puts[i] \in Writes BY DEF WritesTypeOK
  <2>3. \A i \in 1 .. Len(puts) : puts[i].writer = "drain"
    BY <1>3, <2>2 DEF Free, Writes, Writers
  <2>4. Len(puts) <= 1 BY <2>2, <2>3 DEF OnePerWriter
  <2>5. rebuilding # None => Len(puts) = 0
    <3>1. rebuilding # None => rebuilding.writer = "drain"
      BY <1>3 DEF WritesTypeOK, Free, Writes, Writers
    <3>. QED BY <2>2, <2>3, <3>1 DEF OnePerWriter
  <2>6. rebuilding # None => puts = <<>> BY <2>5, EmptySeq DEF WritesTypeOK
  <2>7. LoopIsCurrent' BY <1>1, <1>3, <2>1, <2>3 DEF LoopIsCurrent, Free
  <2>8. LastIsCurrent' BY <1>1, <2>1, <2>2, <2>4, <2>6 DEF LastIsCurrent
  <2>9. CleanIsComing' BY <2>1 DEF CleanIsComing
  <2>10. WritesTypeOK' /\ OnePerWriter' /\ OneRebuild'
    BY <1>1, <1>2, <2>1 DEF WritesTypeOK, OnePerWriter, OneRebuild
  <2>. QED BY <2>7, <2>8, <2>9, <2>10
<1>. QED BY <1>4, <1>5

\* What the writers' bookkeeping keeps when the first write leaves the queue,
\* be it done, failed or waiting for a rebuild.
LEMMA DequeueKeeps ==
    ASSUME WriteInv, puts # <<>>, puts' = Tail(puts),
           UNCHANGED <<relay, hand, kvHealed, rebuilding>>
    PROVE  /\ WritesTypeOK' /\ OnePerWriter' /\ OneRebuild' /\ LoopIsCurrent' /\ LastIsCurrent'
           /\ Len(puts) > 1 =>
                 /\ puts' # <<>> /\ puts'[Len(puts')] = puts[Len(puts)]
                 /\ puts[Len(puts)].view = relay.view \/ puts[Len(puts)].again
                 /\ Head(puts).again => puts[Len(puts)].view = relay.view
           /\ Len(puts) = 1 => puts' = <<>> /\ Head(puts) = puts[Len(puts)]
           /\ Len(puts) > 1 \/ Len(puts) = 1
<1>. USE DEF WriteInv
<1>1. /\ puts' \in Seq(Writes) /\ Len(puts') = Len(puts) - 1 /\ Len(puts) \in Nat \ {0}
      /\ \A i \in 1 .. Len(puts') : puts'[i] = puts[i + 1]
      /\ Head(puts) = puts[1] /\ Head(puts) \in Writes
      /\ puts' = <<>> <=> Len(puts) = 1
  BY TailIs DEF WritesTypeOK
<1>2. WritesTypeOK' BY <1>1 DEF WritesTypeOK
<1>3. OnePerWriter' BY <1>1 DEF OnePerWriter
<1>4. OneRebuild' BY <1>1 DEF OneRebuild
<1>5. LoopIsCurrent' BY <1>1 DEF LoopIsCurrent, Free
<1>6. Len(puts) > 1 => puts' # <<>> /\ puts'[Len(puts')] = puts[Len(puts)] BY <1>1
<1>7. LastIsCurrent' BY <1>1, <1>6 DEF LastIsCurrent
<1>8. Len(puts) > 1 /\ Head(puts).again => puts[Len(puts)].view = relay.view
  BY <1>1 DEF LastIsCurrent, OneRebuild
<1>9. Len(puts) > 1 \/ Len(puts) = 1 BY <1>1
<1>. QED BY <1>1, <1>2, <1>3, <1>4, <1>5, <1>6, <1>7, <1>8, <1>9 DEF LastIsCurrent

\* The broker's answer to a write that was stored.
LEMMA PutDoneKeeps == ASSUME WriteInv, PutDone PROVE WriteInv'
<1>. USE DEF WriteInv
<1>1. /\ puts # <<>> /\ puts' = Tail(puts) /\ bucket' = Head(puts).view
      /\ dirty' = (dirty /\ ~Head(puts).again)
      /\ stale' = IF Head(puts).view = relay.view THEN "no"
                  ELSE IF Head(puts).again THEN "heal" ELSE stale
      /\ UNCHANGED <<relay, hand, kvHealed, rebuilding>>
  BY DEF PutDone, Store, UnchangedByWrite
<1>2. CleanIsComing'
  <2>. SUFFICES ASSUME ~dirty', stale' = "no", rebuilding = None
       PROVE  \/ puts' = <<>> /\ bucket' = relay.view
              \/ puts' # <<>> /\ (puts'[Len(puts')].again \/ puts'[Len(puts')].view = relay.view)
    BY <1>1 DEF CleanIsComing
  <2>1. CASE Len(puts) > 1 BY <1>1, <2>1, DequeueKeeps
  <2>2. CASE Len(puts) = 1
    <3>1. puts' = <<>> /\ Head(puts) = puts[Len(puts)] BY <1>1, <2>2, DequeueKeeps
    <3>2. CASE Head(puts).view = relay.view BY <1>1, <3>1, <3>2
    <3>3. CASE Head(puts).view # relay.view
      <4>1. ~Head(puts).again /\ ~dirty /\ stale = "no" BY Zenon, <1>1, <3>3
      <4>. QED BY <1>1, <3>1, <3>3, <4>1 DEF CleanIsComing
    <3>. QED BY <3>2, <3>3
  <2>3. Len(puts) > 1 \/ Len(puts) = 1 BY <1>1, DequeueKeeps
  <2>. QED BY <2>1, <2>2, <2>3
<1>. QED BY <1>1, <1>2, DequeueKeeps

\* A write that failed, whether or not it was stored.
LEMMA PutFailsKeeps == ASSUME WriteInv, PutFails PROVE WriteInv'
<1>. USE DEF WriteInv
<1>1. /\ puts # <<>> /\ puts' = Tail(puts) /\ dirty' = DirtyAfterFailure(Head(puts))
      /\ stale' = IF Head(puts).again /\ ~dirty' /\ bucket' # relay.view THEN "heal" ELSE stale
      /\ UNCHANGED <<relay, hand, kvHealed, rebuilding>>
  BY DEF PutFails, UnchangedByWrite
<1>2. CleanIsComing'
  <2>. SUFFICES ASSUME ~dirty', stale' = "no"
       PROVE  \/ puts' = <<>> /\ bucket' = relay.view
              \/ puts' # <<>> /\ (puts'[Len(puts')].again \/ puts'[Len(puts')].view = relay.view)
    BY <1>1 DEF CleanIsComing
  <2>1. Head(puts).again /\ bucket' = relay.view BY Zenon, <1>1 DEF DirtyAfterFailure
  <2>2. CASE Len(puts) > 1 BY <1>1, <2>1, <2>2, DequeueKeeps
  <2>3. CASE Len(puts) = 1 BY <1>1, <2>1, <2>3, DequeueKeeps
  <2>4. Len(puts) > 1 \/ Len(puts) = 1 BY <1>1, DequeueKeeps
  <2>. QED BY <2>2, <2>3, <2>4
<1>. QED BY <1>1, <1>2, DequeueKeeps

\* The first write to meet a failure of the store waits for the rebuild: the
\* one behind it is current.
LEMMA MeetsFailureKeeps == ASSUME WriteInv, PutMeetsStoreFailure PROVE WriteInv'
<1>. USE DEF WriteInv
<1>1. /\ puts # <<>> /\ ~Head(puts).again /\ ~kvHealed /\ dirty' = TRUE /\ kvHealed' = TRUE
      /\ rebuilding' = Head(puts) /\ puts' = Tail(puts) /\ UNCHANGED <<relay, hand>>
  BY DEF PutMeetsStoreFailure, UnchangedByWrite
<1>2. /\ puts' \in Seq(Writes) /\ Len(puts') = Len(puts) - 1 /\ Len(puts) \in Nat \ {0}
      /\ \A i \in 1 .. Len(puts') : puts'[i] = puts[i + 1]
      /\ Head(puts) = puts[1] /\ Head(puts) \in Writes
      /\ puts' = <<>> <=> Len(puts) = 1
  BY <1>1, TailIs DEF WritesTypeOK
<1>3. \A i \in 1 .. Len(puts) : ~puts[i].again BY <1>1 DEF OneRebuild
<1>4. WritesTypeOK' BY <1>1, <1>2 DEF WritesTypeOK
<1>5. OnePerWriter' BY <1>1, <1>2 DEF OnePerWriter
<1>6. OneRebuild' BY <1>1, <1>2, <1>3 DEF OneRebuild
<1>7. LoopIsCurrent' BY <1>1, <1>2 DEF LoopIsCurrent, Free
<1>8. LastIsCurrent' BY <1>1, <1>2, <1>3 DEF LastIsCurrent
<1>. QED BY <1>1, <1>4, <1>5, <1>6, <1>7, <1>8 DEF CleanIsComing

\* The delayed write goes to the end of the queue.
LEMMA RebuildKeeps == ASSUME WriteInv, RebuildBucket PROVE WriteInv'
<1>. USE DEF WriteInv
<1>. DEFINE w == [rebuilding EXCEPT !.again = TRUE]
            n == Len(puts)
<1>1. /\ rebuilding # None /\ rebuilding' = None /\ puts' = Append(puts, w)
      /\ UNCHANGED <<dirty, kvHealed, stale, relay, hand>>
  BY DEF RebuildBucket, UnchangedByWrite
<1>2. w \in Writes /\ w.writer = rebuilding.writer /\ w.view = rebuilding.view /\ w.again
  BY Zenon, <1>1 DEF WritesTypeOK, Writes
<1>3. /\ puts' \in Seq(Writes) /\ Len(puts') = n + 1 /\ puts' # <<>>
      /\ \A i \in 1 .. n : puts'[i] = puts[i]
      /\ puts'[n + 1] = w
  BY <1>1, <1>2, AppendIs DEF WritesTypeOK
<1>4. n \in Nat BY DEF WritesTypeOK
<1>. HIDE DEF w
<1>5. WritesTypeOK' BY <1>1, <1>3 DEF WritesTypeOK
<1>6. OnePerWriter' BY <1>1, <1>2, <1>3, <1>4 DEF OnePerWriter
<1>7. OneRebuild' BY <1>1, <1>2, <1>3, <1>4 DEF OneRebuild
<1>8. LoopIsCurrent' BY <1>1, <1>2, <1>3, <1>4 DEF LoopIsCurrent, Free
<1>9. LastIsCurrent' /\ CleanIsComing'
  BY <1>1, <1>2, <1>3, <1>4 DEF LastIsCurrent, CleanIsComing
<1>. QED BY <1>5, <1>6, <1>7, <1>8, <1>9

\* The rebuild fails: the delayed write is gone, and what is on its way is
\* current.
LEMMA RebuildRaisesKeeps == ASSUME WriteInv, RebuildRaises PROVE WriteInv'
<1>. USE DEF WriteInv
<1>1. /\ rebuilding # None /\ rebuilding' = None
      /\ stale' = IF dirty \/ bucket' = relay.view THEN stale ELSE "heal"
      /\ UNCHANGED <<dirty, kvHealed, puts, relay, hand>>
  BY DEF RebuildRaises, UnchangedByWrite
<1>2. WritesTypeOK' /\ OnePerWriter' BY <1>1 DEF WritesTypeOK, OnePerWriter
<1>3. OneRebuild' BY <1>1 DEF OneRebuild
<1>4. LoopIsCurrent' BY <1>1 DEF LoopIsCurrent, Free
<1>5. LastIsCurrent' /\ CleanIsComing' BY <1>1 DEF LastIsCurrent, CleanIsComing
<1>. QED BY <1>2, <1>3, <1>4, <1>5

\* Another worker drops the bucket: a clean view that is not on its way is lost,
\* which stale records.
LEMMA AnotherKeeps == ASSUME WriteInv, AnotherRebuilds PROVE WriteInv'
<1>. USE DEF WriteInv
<1>1. /\ stale' = IF dirty \/ puts # <<>> \/ rebuilding # None \/ bucket' = relay.view
                  THEN stale ELSE "shared"
      /\ UNCHANGED <<dirty, kvHealed, puts, rebuilding, relay, hand>>
  BY DEF AnotherRebuilds, UnchangedByWrite
<1>2. WritesTypeOK' /\ OnePerWriter' BY <1>1 DEF WritesTypeOK, OnePerWriter
<1>3. OneRebuild' BY <1>1 DEF OneRebuild
<1>4. LoopIsCurrent' BY <1>1 DEF LoopIsCurrent, Free
<1>5. LastIsCurrent' BY <1>1 DEF LastIsCurrent
<1>6. CleanIsComing' BY <1>1 DEF CleanIsComing
<1>. QED BY <1>2, <1>3, <1>4, <1>5, <1>6

-----------------------------------------------------------------------------
(* Every step                                                              *)

\* The events on their way are events.
EventsTypeOK == wire \in Seq(Events) /\ hand \in Events \cup {None}

\* Engine and relay hand on events and nothing else.
LEMMA EventsStep == ASSUME EventsTypeOK, [Next]_vars PROVE EventsTypeOK'
<1>0. ASSUME UNCHANGED <<wire, hand>> PROVE EventsTypeOK' BY <1>0 DEF EventsTypeOK
<1>1. ASSUME NEW e \in Events, Publish(e), UNCHANGED hand PROVE EventsTypeOK'
  BY <1>1 DEF Publish, EventsTypeOK
<1>2. CASE UNCHANGED vars BY <1>0, <1>2 DEF vars, engineVars, relayVars
<1>3. CASE Engine
  <2>1. ASSUME NEW b \in Blocks, NEW aligned \in BOOLEAN, StoreBlock(b, aligned)
        PROVE  EventsTypeOK'
    <3>1. [kind |-> "stored", block |-> b, aligned |-> aligned] \in Events BY DEF Events
    <3>. QED BY <1>1, <2>1, <3>1 DEF StoreBlock, UnchangedByEngine, relayVars
  <2>2. ASSUME NEW b \in Blocks, EvictBlock(b) PROVE EventsTypeOK'
    <3>1. [kind |-> "removed", block |-> b] \in Events BY DEF Events
    <3>. QED BY <1>1, <2>2, <3>1 DEF EvictBlock, UnchangedByEngine, relayVars
  <2>3. CASE ClearCache
    <3>1. Cleared \in Events BY DEF Events, Cleared
    <3>. QED BY <1>1, <2>3, <3>1 DEF ClearCache, Clear, UnchangedByEngine, relayVars
  <2>. QED BY <1>3, <2>1, <2>2, <2>3 DEF Engine
<1>4. CASE StartRelay \/ Attach \/ PostFlush \/ Register
  BY <1>0, <1>4 DEF StartRelay, Attach, PostFlush, Register, engineVars, relayVars
<1>5. CASE Flush
  <2>1. Cleared \in Events BY DEF Events, Cleared
  <2>. QED BY <1>0, <1>1, <1>5, <2>1 DEF Flush, Clear, UnchangedByEngine, relayVars
<1>6. CASE Receive
  <2>1. wire \in Seq(Events) /\ wire # <<>> /\ hand' = Head(wire) /\ wire' = Tail(wire)
    BY <1>6 DEF Receive, EventsTypeOK
  <2>. QED BY <2>1 DEF EventsTypeOK
<1>7. CASE Apply BY Zenon, <1>7 DEF Apply, engineVars, EventsTypeOK
<1>8. CASE Write
  BY Zenon, <1>0, <1>8 DEF Write, Drain, IntervalPasses, PutDone, PutFails,
                           PutMeetsStoreFailure,
     RebuildBucket, RebuildRaises, AnotherRebuilds, UnchangedByWrite, engineVars, relayVars
<1>9. CASE Restart BY <1>9 DEF Restart, EventsTypeOK
<1>10. CASE Router
  BY <1>0, <1>10 DEF Router, Track, Untrack, Subscribe, WatchBucket, OnMessage, Seed,
     ColdStart, UnchangedByRouter, engineVars, relayVars
<1>. QED
  BY <1>2, <1>3, <1>4, <1>5, <1>6, <1>7, <1>8, <1>9, <1>10
  DEF Next, StartUp, Loop, Forward, DropEvent, HealStream

\* Every step keeps the invariant; what neither writer touches keeps it too.
LEMMA WriteStep == ASSUME EventsTypeOK, WriteInv, [Next]_vars PROVE WriteInv'
<1>0. ASSUME UNCHANGED <<puts, rebuilding, kvHealed, hand, relay, dirty, stale, bucket>>
      PROVE  WriteInv'
  <2>1. WritesTypeOK' /\ OnePerWriter' /\ OneRebuild'
    BY <1>0 DEF WriteInv, WritesTypeOK, OnePerWriter, OneRebuild
  <2>2. LastIsCurrent' /\ CleanIsComing' BY <1>0 DEF WriteInv, LastIsCurrent, CleanIsComing
  <2>3. LoopIsCurrent' BY <1>0 DEF WriteInv, LoopIsCurrent, Free
  <2>. QED BY <2>1, <2>2, <2>3 DEF WriteInv
<1>1. CASE UNCHANGED vars BY <1>0, <1>1 DEF vars, relayVars, writeVars
<1>2. CASE Engine
  BY Zenon, <1>0, <1>2 DEF Engine, StoreBlock, EvictBlock, ClearCache, UnchangedByEngine,
     relayVars, writeVars
<1>3. CASE StartUp
  BY <1>0, <1>3 DEF StartUp, StartRelay, Attach, PostFlush, Flush, Register,
     UnchangedByEngine, relayVars, writeVars
<1>4. CASE Receive BY <1>4, ReceiveKeeps
<1>5. CASE Apply
  <2>1. hand \in Events BY <1>5 DEF Apply, EventsTypeOK
  <2>. QED BY <1>5, <2>1, ApplyKeeps
<1>6. CASE Drain
  <2>1. /\ Free("drain") /\ BeginWrite("drain", relay.view)
        /\ UNCHANGED <<rebuilding, kvHealed, relay, hand>>
    BY <1>6 DEF Drain, relayVars
  <2>2. relay \in Caches BY DEF WriteInv, WritesTypeOK
  <2>. QED BY <2>1, <2>2, BeginKeeps DEF Writers
<1>7. CASE IntervalPasses BY <1>0, <1>7 DEF IntervalPasses, relayVars
<1>8. CASE PutDone BY <1>8, PutDoneKeeps
<1>9. CASE PutFails BY <1>9, PutFailsKeeps
<1>10. CASE PutMeetsStoreFailure BY <1>10, MeetsFailureKeeps
<1>11. CASE RebuildBucket BY <1>11, RebuildKeeps
<1>12. CASE RebuildRaises BY <1>12, RebuildRaisesKeeps
<1>15. CASE AnotherRebuilds BY <1>15, AnotherKeeps
<1>13. CASE Restart
  <2>1. /\ puts' = <<>> /\ rebuilding' = None /\ relay' = Empty /\ hand' = None
        /\ stale' = "restart"
    BY <1>13 DEF Restart
  <2>2. Empty \in Caches BY DEF Empty, Caches
  <2>3. WritesTypeOK' BY <2>1, <2>2 DEF WritesTypeOK
  <2>4. 1 .. Len(<<>>) = {} /\ ~(Len(<<>>) > 1) /\ "restart" # "no" OBVIOUS
  <2>5. OnePerWriter' /\ OneRebuild' BY Zenon, <2>1, <2>4 DEF OnePerWriter, OneRebuild
  <2>6. LoopIsCurrent' /\ LastIsCurrent' BY Zenon, <2>1, <2>4 DEF LoopIsCurrent, LastIsCurrent
  <2>7. CleanIsComing' BY Zenon, <2>1, <2>4 DEF CleanIsComing
  <2>. QED BY Zenon, <2>3, <2>5, <2>6, <2>7 DEF WriteInv
<1>14. CASE Router
  BY <1>0, <1>14 DEF Router, Track, Untrack, Subscribe, WatchBucket, OnMessage, Seed,
     ColdStart, UnchangedByRouter, relayVars
<1>. QED
  BY <1>1, <1>2, <1>3, <1>4, <1>5, <1>6, <1>7, <1>8, <1>9, <1>10, <1>11, <1>12, <1>13, <1>14,
     <1>15
  DEF Next, Loop, Forward, DropEvent, HealStream, Write

-----------------------------------------------------------------------------
(* The least of some numbers                                               *)

\* Of some naturals one is the least.
LEMMA LeastNatural ==
    ASSUME NEW T \in SUBSET Nat, T # {} PROVE \E m \in T : \A k \in T : m <= k
<1>. DEFINE R == OpToRel(<, Nat)
<1>1. IsWellFoundedOn(R, Nat) BY NatLessThanWellFounded
<1>2. \A y, x \in Nat : y < x => <<y, x>> \in R BY DEF OpToRel
<1>. HIDE DEF R
<1>3. PICK m \in T : \A y \in T : ~(<<y, m>> \in R) BY Zenon, <1>1, WFMin
<1>4. \A k \in T : ~(k < m) BY Zenon, <1>2, <1>3
<1>5. \A k \in T : m <= k BY <1>4
<1>. QED BY Zenon, <1>5

-----------------------------------------------------------------------------
(* Replaying events                                                        *)

\* The events q lead from the view and map c to d, by way of f.
Leads(c, q, d) ==
    \E f \in [0 .. Len(q) -> Caches] :
        /\ f[0] = c /\ f[Len(q)] = d
        /\ \A n \in 1 .. Len(q) : f[n] = HandleEvent(f[n - 1], q[n])

\* No event leads nowhere.
LEMMA LeadsEmpty ==
    ASSUME NEW c \in Caches, NEW d \in Caches PROVE Leads(c, <<>>, d) <=> c = d
<1>1. Leads(c, <<>>, d) => c = d BY DEF Leads
<1>2. Leads(c, <<>>, c)
  <2>1. Len(<<>>) = 0 /\ 0 .. 0 = {0} /\ 1 .. 0 = {} OBVIOUS
  <2>. DEFINE f == [n \in 0 .. 0 |-> c]
  <2>2. f \in [0 .. 0 -> Caches] /\ f[0] = c BY Zenon, <2>1
  <2>. HIDE DEF f
  <2>. QED BY Zenon, <2>1, <2>2 DEF Leads
<1>. QED BY Zenon, <1>1, <1>2

\* One event more.
LEMMA LeadsAppend ==
    ASSUME NEW c \in Caches, NEW d \in Caches, NEW q \in Seq(Events), NEW e \in Events,
           Leads(c, q, d)
    PROVE  Leads(c, Append(q, e), HandleEvent(d, e))
<1>. DEFINE L == Len(q)
            p == Append(q, e)
<1>1. PICK f \in [0 .. L -> Caches] :
        /\ f[0] = c /\ f[L] = d
        /\ \A n \in 1 .. L : f[n] = HandleEvent(f[n - 1], q[n])
  BY Zenon DEF Leads
<1>2. L \in Nat /\ Len(p) = L + 1 /\ p[L + 1] = e /\ \A n \in 1 .. L : p[n] = q[n] OBVIOUS
<1>. DEFINE g == [n \in 0 .. L + 1 |-> IF n = L + 1 THEN HandleEvent(d, e) ELSE f[n]]
<1>3. HandleEvent(d, e) \in Caches BY Zenon, HandleKeepsCaches
<1>. HIDE DEF L, p
<1>4. g \in [0 .. L + 1 -> Caches] BY <1>2, <1>3
<1>5. g[0] = c /\ g[L + 1] = HandleEvent(d, e) BY <1>1, <1>2
<1>6. \A n \in 1 .. L + 1 : g[n] = HandleEvent(g[n - 1], p[n])
  <2>1. ASSUME NEW n \in 1 .. L PROVE g[n] = f[n] /\ g[n - 1] = f[n - 1] BY <1>2
  <2>2. g[L + 1 - 1] = d BY <1>1, <1>2
  <2>3. ASSUME NEW n \in 1 .. L PROVE g[n] = HandleEvent(g[n - 1], p[n])
    BY Zenon, <1>1, <1>2, <2>1
  <2>4. g[L + 1] = HandleEvent(g[L + 1 - 1], p[L + 1]) BY Zenon, <1>2, <1>5, <2>2
  <2>5. \A n \in 1 .. L + 1 : n = L + 1 \/ n \in 1 .. L BY <1>2
  <2>. HIDE DEF g
  <2>6. ASSUME NEW n \in 1 .. L + 1 PROVE g[n] = HandleEvent(g[n - 1], p[n])
    <3>1. CASE n = L + 1 BY <1>2, <2>4, <3>1
    <3>2. CASE n \in 1 .. L BY Zenon, <2>3, <3>2
    <3>. QED BY Zenon, <2>5, <3>1, <3>2
  <2>. QED BY Zenon, <2>6
<1>. HIDE DEF g
<1>7. Leads(c, p, HandleEvent(d, e)) BY Zenon, <1>2, <1>4, <1>5, <1>6 DEF Leads
<1>. QED BY Zenon, <1>7 DEF p

\* One event less.
LEMMA LeadsTail ==
    ASSUME NEW c \in Caches, NEW d \in Caches, NEW q \in Seq(Events), q # <<>>,
           Leads(c, q, d)
    PROVE  Leads(HandleEvent(c, Head(q)), Tail(q), d)
<1>. DEFINE L == Len(q)
            p == Tail(q)
<1>1. PICK f \in [0 .. L -> Caches] :
        /\ f[0] = c /\ f[L] = d
        /\ \A n \in 1 .. L : f[n] = HandleEvent(f[n - 1], q[n])
  BY Zenon DEF Leads
<1>2. /\ L \in Nat \ {0} /\ Len(p) = L - 1 /\ Head(q) = q[1]
      /\ \A n \in 1 .. L - 1 : p[n] = q[n + 1]
  OBVIOUS
<1>. DEFINE g == [n \in 0 .. L - 1 |-> f[n + 1]]
<1>. HIDE DEF L, p
<1>3. g \in [0 .. L - 1 -> Caches] BY <1>2
<1>4. g[L - 1] = d BY <1>1, <1>2
<1>5. g[0] = HandleEvent(c, Head(q))
  <2>1. 1 \in 1 .. L /\ 1 - 1 = 0 /\ g[0] = f[1] BY <1>2
  <2>. QED BY Zenon, <1>1, <1>2, <2>1
<1>6. ASSUME NEW n \in 1 .. L - 1 PROVE g[n] = HandleEvent(g[n - 1], p[n])
  <2>1. /\ n + 1 \in 1 .. L /\ (n + 1) - 1 = n /\ g[n] = f[n + 1] /\ g[n - 1] = f[n]
    BY <1>2
  <2>. HIDE DEF g
  <2>. QED BY Zenon, <1>1, <1>2, <2>1
<1>. HIDE DEF g
<1>7. Leads(HandleEvent(c, Head(q)), p, d) BY Zenon, <1>2, <1>3, <1>4, <1>5, <1>6 DEF Leads
<1>. QED BY Zenon, <1>7 DEF p

\* The view and the map of a subscription, or of the relay.
Core(c) == [view |-> c.view, map |-> c.map]

\* An event is applied the same way to both.
LEMMA HandleCore ==
    ASSUME NEW s \in Subs, NEW e \in Events
    PROVE  /\ HandleEvent(s, e) \in Subs /\ HandleEvent(s, e).key = s.key
           /\ Core(HandleEvent(s, e)) = HandleEvent(Core(s), e)
<1>0. ASSUME NEW a, NEW b, NEW v, NEW m
      PROVE  [[view |-> a, map |-> b] EXCEPT !.view = v, !.map = m] = [view |-> v, map |-> m]
  <2>. DEFINE x == [[view |-> a, map |-> b] EXCEPT !.view = v, !.map = m]
  <2>1. x \in [view : {v}, map : {m}] BY Zenon
  <2>. HIDE DEF x
  <2>2. x = [view |-> v, map |-> m] BY <2>1
  <2>. QED BY Zenon, <2>2 DEF x
<1>1. CASE e.kind = "stored" /\ e.block \in Blocks
  <2>1. OnBlockStored(s, e) \in Subs /\ OnBlockStored(s, e).key = s.key
    BY Zenon, <1>1 DEF OnBlockStored, Subs
  <2>2. Core(OnBlockStored(s, e)) = OnBlockStored(Core(s), e)
    BY DEF OnBlockStored, Subs, Core
  <2>. QED BY <1>1, <2>1, <2>2 DEF HandleEvent
<1>2. CASE e.kind = "removed"
  <2>1. OnBlockRemoved(s, e) \in Subs /\ OnBlockRemoved(s, e).key = s.key
    BY Zenon DEF OnBlockRemoved, Subs
  <2>. DEFINE v == IF e.block \in s.map THEN s.view \ {e.block} ELSE s.view
              m == s.map \ {e.block}
  <2>2. OnBlockRemoved(s, e).view = v /\ OnBlockRemoved(s, e).map = m
    BY Zenon DEF OnBlockRemoved, Subs
  <2>3. OnBlockRemoved(Core(s), e) = [view |-> v, map |-> m]
    BY Zenon, <1>0 DEF OnBlockRemoved, Core
  <2>4. Core(OnBlockRemoved(s, e)) = OnBlockRemoved(Core(s), e)
    BY Zenon, <2>2, <2>3 DEF Core
  <2>. QED BY <1>2, <2>1, <2>4 DEF HandleEvent
<1>3. CASE e.kind = "cleared"
  <2>1. [s EXCEPT !.view = {}, !.map = {}] \in Subs BY Zenon DEF Subs
  <2>2. [s EXCEPT !.view = {}, !.map = {}].key = s.key BY DEF Subs
  <2>3. Core([s EXCEPT !.view = {}, !.map = {}]) = [Core(s) EXCEPT !.view = {}, !.map = {}]
    <3>1. /\ [s EXCEPT !.view = {}, !.map = {}].view = {}
          /\ [s EXCEPT !.view = {}, !.map = {}].map = {}
      BY Zenon DEF Subs
    <3>2. [[view |-> s.view, map |-> s.map] EXCEPT !.view = {}, !.map = {}]
            = [view |-> {}, map |-> {}]
      BY Zenon, <1>0
    <3>. QED BY Zenon, <3>1, <3>2 DEF Core
  <2>. QED BY <1>3, <2>1, <2>2, <2>3 DEF HandleEvent
<1>. QED BY <1>1, <1>2, <1>3 DEF Events

\* Two subscriptions of the same key, view and map are one.
LEMMA SubsEqual ==
    ASSUME NEW c \in Subs, NEW d \in Subs, c.key = d.key, Core(c) = Core(d) PROVE c = d
<1>1. \A s : Core(s).view = s.view /\ Core(s).map = s.map BY DEF Core
<1>2. c.view = d.view /\ c.map = d.map BY Zenon, <1>1
<1>. QED BY <1>2 DEF Subs

\* Replay computes where the events lead.
LEMMA ReplayLeads ==
    ASSUME NEW s \in Subs, NEW q \in Seq(Events), NEW d \in Caches, Leads(Core(s), q, d)
    PROVE  Core(Replay(s, q)) = d
<1>. DEFINE L == Len(q)
            Def(f) == f = [n \in 0 .. L |-> IF n = 0 THEN s ELSE HandleEvent(f[n - 1], q[n])]
            after == CHOOSE f : Def(f)
<1>0. L \in Nat /\ \A n \in 1 .. L : q[n] \in Events OBVIOUS
<1>. HIDE DEF L
<1>1. PICK f \in [0 .. L -> Caches] :
        /\ f[0] = Core(s) /\ f[L] = d
        /\ \A n \in 1 .. L : f[n] = HandleEvent(f[n - 1], q[n])
  BY Zenon DEF Leads, L
<1>. DEFINE g == [n \in 0 .. L |-> [key |-> s.key, view |-> f[n].view, map |-> f[n].map]]
<1>2. ASSUME NEW n \in 0 .. L PROVE g[n] \in Subs /\ Core(g[n]) = f[n] /\ g[n].key = s.key
  BY <1>1 DEF Core, Subs, Caches
<1>3. g[0] = s
  <2>1. 0 \in 0 .. L BY <1>0
  <2>2. g[0] \in Subs /\ Core(g[0]) = Core(s) /\ g[0].key = s.key BY Zenon, <1>1, <1>2, <2>1
  <2>. QED BY Zenon, <2>2, SubsEqual
<1>4. ASSUME NEW n \in 1 .. L PROVE g[n] = HandleEvent(g[n - 1], q[n])
  <2>1. n \in 0 .. L /\ n - 1 \in 0 .. L BY <1>0
  <2>. HIDE DEF g
  <2>. DEFINE h == HandleEvent(g[n - 1], q[n])
  <2>2. g[n - 1] \in Subs /\ Core(g[n - 1]) = f[n - 1] /\ q[n] \in Events /\ g[n - 1].key = s.key
    BY Zenon, <1>0, <1>2, <2>1
  <2>3. h \in Subs /\ h.key = s.key /\ Core(h) = HandleEvent(f[n - 1], q[n])
    BY Zenon, <2>2, HandleCore
  <2>4. Core(h) = Core(g[n]) /\ h.key = g[n].key /\ h \in Subs /\ g[n] \in Subs
    BY Zenon, <1>1, <1>2, <2>1, <2>3
  <2>. HIDE DEF h
  <2>5. h = g[n] BY Zenon, <2>4, SubsEqual
  <2>. QED BY Zenon, <2>5 DEF h
<1>5. Def(g)
  <2>1. \A n \in 0 .. L : n = 0 \/ n \in 1 .. L BY <1>0
  <2>2. g = [n \in 0 .. L |-> g[n]] BY Zenon
  <2>. HIDE DEF g
  <2>3. ASSUME NEW n \in 0 .. L
        PROVE  g[n] = IF n = 0 THEN s ELSE HandleEvent(g[n - 1], q[n])
    <3>1. CASE n = 0 BY Zenon, <1>3, <3>1
    <3>2. CASE n # 0 BY Zenon, <1>4, <2>1, <3>2
    <3>. QED BY Zenon, <3>1, <3>2
  <2>. QED BY Zenon, <2>2, <2>3
<1>. HIDE DEF g
<1>6. Def(after) BY Zenon, <1>5
<1>7. Replay(s, q) = after[L] BY DEF Replay, L
<1>. DEFINE T == {n \in 0 .. L : after[n] # g[n]}
<1>8. /\ after[0] = s
      /\ \A n \in 1 .. L : after[n] = HandleEvent(after[n - 1], q[n])
  <2>. HIDE DEF after
  <2>1. \A n \in 0 .. L : after[n] = IF n = 0 THEN s ELSE HandleEvent(after[n - 1], q[n])
    BY Zenon, <1>6
  <2>2. 0 \in 0 .. L /\ \A n \in 1 .. L : n \in 0 .. L /\ n # 0 BY <1>0
  <2>. HIDE DEF Def
  <2>. QED BY Zenon, <2>1, <2>2
<1>. HIDE DEF after, Def
<1>9. T = {}
  <2>. SUFFICES ASSUME T # {} PROVE FALSE OBVIOUS
  <2>1. T \in SUBSET Nat
    <3>1. 0 .. L \subseteq Nat BY <1>0
    <3>. QED BY Zenon, <3>1
  <2>2. PICK m \in T : \A k \in T : m <= k BY Zenon, <2>1, LeastNatural
  <2>3. m # 0 BY Zenon, <1>3, <1>8
  <2>4. m \in 1 .. L /\ m - 1 \in 0 .. L /\ ~(m <= m - 1) BY <1>0, <2>3
  <2>5. after[m - 1] = g[m - 1] BY Zenon, <2>2, <2>4
  <2>6. after[m] = g[m] BY Zenon, <1>4, <1>8, <2>4, <2>5
  <2>. QED BY Zenon, <2>6
<1>10. L \in 0 .. L BY <1>0
<1>11. after[L] = g[L] BY Zenon, <1>9, <1>10
<1>. QED BY Zenon, <1>1, <1>2, <1>7, <1>10, <1>11

-----------------------------------------------------------------------------
(* Types                                                                   *)

\* The rest of TypeOK, part by part.
FlagTypeOK ==
    /\ engine \in SUBSET Blocks
    /\ phase \in {"launched", "anchoring", "flushing", "registered"}
    /\ attached \in BOOLEAN /\ blurred \in BOOLEAN /\ flushed \in BOOLEAN
    /\ observed \in BOOLEAN /\ looping \in BOOLEAN /\ healed \in BOOLEAN

BucketTypeOK ==
    /\ bucket \in SUBSET Blocks /\ feed \in Seq(SUBSET Blocks)
    /\ dirty \in BOOLEAN /\ due \in BOOLEAN /\ kvHealed \in BOOLEAN
    /\ stale \in {"no", "restart", "heal", "shared"}

StreamTypeOK ==
    /\ stream \in Seq(Events)
    /\ cursor \in Nat /\ cursor <= Len(stream) + 1
    /\ lossAt \in 0 .. Len(stream)

RouterTypeOK ==
    /\ sub \in Subs \cup {None}
    /\ started \in BOOLEAN /\ exact \in BOOLEAN /\ watch \in {"no", "live", "dead"}

BudgetTypeOK == budget \in [Bounded -> Nat] /\ key \in Nat

\* What every step spends, it has.
LEMMA BudgetStep == ASSUME BudgetTypeOK, [Next]_vars PROVE BudgetTypeOK'
<1>1. ASSUME NEW w \in Bounded, Spend(w) PROVE budget' \in [Bounded -> Nat]
  <2>1. budget[w] \in Nat /\ budget[w] > 0 BY Zenon, <1>1 DEF Spend, BudgetTypeOK
  <2>2. budget[w] - 1 \in Nat BY <2>1
  <2>. QED BY Zenon, <1>1, <2>2 DEF Spend, BudgetTypeOK
<1>2. /\ {"events", "flushes", "restarts", "tracks"} \subseteq Bounded
      /\ {"coldStarts", "streamFaults", "bucketFaults"} \subseteq Bounded
  BY Zenon DEF Bounded
<1>3. UNCHANGED budget \/ \E w \in Bounded : Spend(w)
  <2>1. CASE UNCHANGED vars BY Zenon, <2>1 DEF vars
  <2>2. CASE Engine BY Zenon, <1>2, <2>2 DEF Engine, StoreBlock, EvictBlock, ClearCache
  <2>3. CASE StartUp
    BY Zenon, <1>2, <2>3 DEF StartUp, StartRelay, EnsureAtStart, Attach, PostFlush, Flush,
                             Register
  <2>4. CASE Loop BY Zenon, <1>2, <2>4 DEF Loop, Forward, DropEvent, HealStream, Apply
  <2>5. CASE Write
    BY Zenon, <1>2, <2>5 DEF Write, Drain, IntervalPasses, PutDone, PutFails,
       PutMeetsStoreFailure, RebuildBucket, RebuildRaises, AnotherRebuilds
  <2>6. CASE Restart BY Zenon, <1>2, <2>6 DEF Restart
  <2>7. CASE Router
    BY Zenon, <1>2, <2>7 DEF Router, Track, Untrack, Subscribe, WatchBucket, OnMessage, Seed,
       ColdStart
  <2>. QED BY Zenon, <2>1, <2>2, <2>3, <2>4, <2>5, <2>6, <2>7 DEF Next
<1>4. key' \in Nat
  <2>1. UNCHANGED key \/ key' \in {key, key + 1}
    BY Zenon DEF vars, Next, Engine, StoreBlock, EvictBlock, ClearCache, UnchangedByEngine,
       StartUp, StartRelay, Attach, PostFlush, Flush, Register, Loop, Forward, DropEvent,
       HealStream, Receive, Apply, Write, Drain, IntervalPasses, PutDone, PutFails,
       PutMeetsStoreFailure, RebuildBucket, RebuildRaises, AnotherRebuilds, UnchangedByWrite,
       Restart, Router,
       Track, Untrack, Subscribe, WatchBucket, OnMessage, Seed, ColdStart, UnchangedByRouter
  <2>. QED BY <2>1 DEF BudgetTypeOK
<1>. QED BY Zenon, <1>1, <1>3, <1>4 DEF BudgetTypeOK

\* Engine, start-up and loop.
LEMMA FlagStep == ASSUME FlagTypeOK, [Next]_vars PROVE FlagTypeOK'
<1>1. CASE UNCHANGED <<engine, phase, attached, blurred, flushed, observed, looping, healed>>
  BY Zenon, <1>1 DEF FlagTypeOK
<1>2. CASE UNCHANGED vars BY Zenon, <1>1, <1>2 DEF vars, engineVars, startVars, relayVars
<1>3. CASE Engine
  <2>1. UNCHANGED <<phase, flushed, attached, observed, looping, healed>>
    BY Zenon, <1>3 DEF Engine, StoreBlock, EvictBlock, ClearCache, UnchangedByEngine, startVars,
       relayVars
  <2>2. engine' \in SUBSET Blocks
    BY Zenon, <1>3 DEF FlagTypeOK, Engine, StoreBlock, EvictBlock, ClearCache, Clear
  <2>3. blurred' \in BOOLEAN
    BY Zenon, <1>3 DEF FlagTypeOK, Engine, StoreBlock, EvictBlock, ClearCache, Clear
  <2>. QED BY Zenon, <2>1, <2>2, <2>3 DEF FlagTypeOK
<1>4. CASE StartRelay \/ Attach \/ PostFlush \/ Register
  BY Zenon, <1>4 DEF FlagTypeOK, StartRelay, Attach, PostFlush, Register, engineVars,
     startVars, relayVars
<1>5. CASE Flush
  BY Zenon, <1>5 DEF FlagTypeOK, Flush, Clear, UnchangedByEngine, relayVars
<1>6. CASE Forward \/ DropEvent \/ HealStream
  <2>1. UNCHANGED <<engine, phase, attached, blurred, flushed, observed, looping>>
    BY Zenon, <1>6 DEF Forward, DropEvent, HealStream, Receive, startVars
  <2>2. healed' \in BOOLEAN BY Zenon, <1>6 DEF FlagTypeOK, Forward, DropEvent, HealStream
  <2>. QED BY Zenon, <2>1, <2>2 DEF FlagTypeOK
<1>7. CASE Apply
  <2>1. UNCHANGED <<engine, phase, attached, blurred, flushed, looping, healed>>
    BY Zenon, <1>7 DEF Apply, engineVars, startVars
  <2>2. observed' \in BOOLEAN BY Zenon, <1>7 DEF FlagTypeOK, Apply, Anchors
  <2>. QED BY Zenon, <2>1, <2>2 DEF FlagTypeOK
<1>8. CASE Write
  <2>1. UNCHANGED <<engine, phase, attached, blurred, flushed, observed, healed>>
    BY Zenon, <1>8 DEF Write, Drain, IntervalPasses, PutDone, PutFails, PutMeetsStoreFailure,
       RebuildBucket, RebuildRaises, AnotherRebuilds, UnchangedByWrite, engineVars, startVars,
       relayVars
  <2>2. looping' \in BOOLEAN
    BY Zenon, <1>8 DEF FlagTypeOK, Write, Drain, IntervalPasses, PutDone, PutFails,
       PutMeetsStoreFailure, RebuildBucket, RebuildRaises, AnotherRebuilds, relayVars
  <2>. QED BY Zenon, <2>1, <2>2 DEF FlagTypeOK
<1>9. CASE Restart BY Zenon, <1>9 DEF FlagTypeOK, Restart
<1>10. CASE Router
  BY Zenon, <1>1, <1>10 DEF Router, Track, Untrack, Subscribe, WatchBucket, OnMessage, Seed,
     ColdStart, UnchangedByRouter, engineVars, startVars, relayVars
<1>. QED
  BY Zenon, <1>2, <1>3, <1>4, <1>5, <1>6, <1>7, <1>8, <1>9, <1>10 DEF Next, StartUp, Loop

\* A watched bucket pushes what it stores.
LEMMA StoreType ==
    ASSUME NEW views \in Seq(SUBSET Blocks), BucketTypeOK, Store(views)
    PROVE  bucket' \in SUBSET Blocks /\ feed' \in Seq(SUBSET Blocks)
<1>. DEFINE S == SUBSET Blocks
<1>1. bucket \in S /\ feed \in Seq(S) /\ views \in Seq(S) BY Zenon DEF BucketTypeOK
<1>2. /\ bucket' = IF views = <<>> THEN bucket ELSE views[Len(views)]
      /\ feed' = IF watch = "live" THEN feed \o views ELSE feed
  BY Zenon DEF Store
<1>. HIDE DEF S
<1>3. feed \o views \in Seq(S) BY Zenon, <1>1, ConcatProperties
<1>4. views # <<>> => views[Len(views)] \in S
  <2>1. views # <<>> => Len(views) \in Nat \ {0} BY Zenon, <1>1, EmptySeq
  <2>2. views # <<>> => Len(views) \in 1 .. Len(views) BY <2>1
  <2>. QED BY Zenon, <1>1, <2>2, ElementOfSeq
<1>5. bucket' \in S /\ feed' \in Seq(S) BY Zenon, <1>1, <1>2, <1>3, <1>4
<1>. QED BY Zenon, <1>5 DEF S

\* A view, as the only one stored or after others.
LEMMA OneView ==
    ASSUME NEW v \in SUBSET Blocks
    PROVE  <<>> \in Seq(SUBSET Blocks) /\ <<v>> \in Seq(SUBSET Blocks)
OBVIOUS

\* The bucket and what its writers know of it.
LEMMA BucketStep ==
    ASSUME WritesTypeOK, BucketTypeOK, [Next]_vars PROVE BucketTypeOK'
<1>0. ASSUME UNCHANGED <<bucket, feed, dirty, due, kvHealed, stale>> PROVE BucketTypeOK'
  BY Zenon, <1>0 DEF BucketTypeOK
<1>1. CASE UNCHANGED vars BY Zenon, <1>0, <1>1 DEF vars, writeVars
<1>2. CASE Engine
  BY Zenon, <1>0, <1>2 DEF Engine, StoreBlock, EvictBlock, ClearCache, UnchangedByEngine,
     writeVars
<1>3. CASE StartUp
  BY Zenon, <1>0, <1>3 DEF StartUp, StartRelay, Attach, PostFlush, Flush, Register,
     UnchangedByEngine, writeVars
<1>4. CASE Receive BY Zenon, <1>0, <1>4 DEF Receive, writeVars
<1>5. CASE Apply BY Zenon, <1>5 DEF Apply, BeginWrite, BucketTypeOK
<1>6. CASE Drain \/ IntervalPasses
  BY Zenon, <1>6 DEF Drain, IntervalPasses, BeginWrite, BucketTypeOK
<1>7. relay.view \in SUBSET Blocks /\ (puts # <<>> => Head(puts).view \in SUBSET Blocks)
  <2>1. puts # <<>> => Head(puts) \in Writes BY Zenon, HeadTailProperties DEF WritesTypeOK
  <2>. QED BY Zenon, <2>1 DEF WritesTypeOK, Caches, Writes
<1>8. CASE PutDone \/ PutFails
  <2>1. PICK views \in {<<>>, <<Head(puts).view>>} : Store(views)
    BY Zenon, <1>8 DEF PutDone, PutFails
  <2>2. puts # <<>> BY Zenon, <1>8 DEF PutDone, PutFails
  <2>3. views \in Seq(SUBSET Blocks) BY Zenon, <1>7, <2>2, OneView
  <2>4. bucket' \in SUBSET Blocks /\ feed' \in Seq(SUBSET Blocks)
    BY Zenon, <2>1, <2>3, StoreType
  <2>5. dirty' \in BOOLEAN BY Zenon, <1>8 DEF PutDone, PutFails, DirtyAfterFailure, BucketTypeOK
  <2>6. /\ stale' \in {"no", "restart", "heal", "shared"}
        /\ due' \in BOOLEAN /\ kvHealed' \in BOOLEAN
    BY Zenon, <1>8 DEF PutDone, PutFails, UnchangedByWrite, BucketTypeOK
  <2>. QED BY Zenon, <2>4, <2>5, <2>6 DEF BucketTypeOK
<1>9. CASE PutMeetsStoreFailure
  BY Zenon, <1>9 DEF PutMeetsStoreFailure, UnchangedByWrite, BucketTypeOK
<1>10. CASE RebuildBucket \/ RebuildRaises \/ AnotherRebuilds
  <2>1. bucket' \in SUBSET Blocks
    BY Zenon, <1>10 DEF RebuildBucket, RebuildRaises, AnotherRebuilds, DeleteBucket,
                        BucketTypeOK
  <2>. QED
    BY Zenon, <1>10, <2>1 DEF RebuildBucket, RebuildRaises, AnotherRebuilds, UnchangedByWrite,
                              BucketTypeOK
<1>11. CASE Restart
  <2>1. PICK n \in 0 .. Len(puts), last \in {<<>>, <<relay.view>>} :
            Store([i \in 1 .. n |-> puts[i].view] \o last)
    BY Zenon, <1>11 DEF Restart
  <2>. DEFINE S == SUBSET Blocks
              written == [i \in 1 .. n |-> puts[i].view]
  <2>2. \A i \in 1 .. Len(puts) : puts[i].view \in S
    <3>1. \A i \in 1 .. Len(puts) : puts[i] \in Writes BY Zenon, ElementOfSeq DEF WritesTypeOK
    <3>2. \A w \in Writes : w.view \in S BY Zenon DEF Writes
    <3>. QED BY Zenon, <3>1, <3>2
  <2>3. Len(puts) \in Nat /\ n \in Nat /\ 1 .. n \subseteq 1 .. Len(puts)
    <3>1. Len(puts) \in Nat BY Zenon, LenProperties DEF WritesTypeOK
    <3>. QED BY <3>1
  <2>4. last \in Seq(S) BY Zenon, <1>7, OneView
  <2>5. written \in [1 .. n -> S] BY Zenon, <2>2, <2>3
  <2>. HIDE DEF S, written
  <2>6. written \in Seq(S) BY <2>3, <2>5
  <2>7. written \o last \in Seq(S) BY Zenon, <2>4, <2>6, ConcatProperties
  <2>8. bucket' \in SUBSET Blocks /\ feed' \in Seq(SUBSET Blocks)
    BY Zenon, <2>1, <2>7, StoreType DEF S, written
  <2>. QED BY Zenon, <1>11, <2>8 DEF Restart, BucketTypeOK
<1>12. CASE WatchBucket
  <2>1. feed' \in Seq(SUBSET Blocks)
    BY Zenon, <1>12, OneView DEF WatchBucket, BucketTypeOK
  <2>. QED BY Zenon, <1>12, <2>1 DEF WatchBucket, UnchangedByRouter, BucketTypeOK
<1>13. CASE Seed
  <2>1. feed' \in Seq(SUBSET Blocks)
    BY Zenon, <1>13, HeadTailProperties DEF Seed, BucketTypeOK
  <2>. QED BY Zenon, <1>13, <2>1 DEF Seed, UnchangedByRouter, BucketTypeOK
<1>14. CASE ColdStart
  <2>1. <<>> \in Seq(SUBSET Blocks) BY Zenon, EmptySeq
  <2>. QED BY Zenon, <1>14, <2>1 DEF ColdStart, UnchangedByRouter, BucketTypeOK
<1>15. CASE Track \/ Untrack \/ Subscribe \/ OnMessage
  BY Zenon, <1>0, <1>15 DEF Track, Untrack, Subscribe, OnMessage, UnchangedByRouter
<1>. QED
  BY Zenon, <1>1, <1>2, <1>3, <1>4, <1>5, <1>6, <1>8, <1>9, <1>10, <1>11, <1>12, <1>13, <1>14,
     <1>15
  DEF Next, Loop, Forward, DropEvent, HealStream, Write, Router

\* The stream, and the places in it that router and history point at.
LEMMA StreamStep ==
    ASSUME EventsTypeOK, StreamTypeOK, [Next]_vars PROVE StreamTypeOK'
<1>0. ASSUME UNCHANGED <<stream, cursor, lossAt>> PROVE StreamTypeOK' BY Zenon, <1>0
                                                                         DEF StreamTypeOK
<1>1. Len(stream) \in Nat /\ lossAt \in 0 .. Len(stream) /\ cursor \in 0 .. Len(stream) + 1
  <2>1. Len(stream) \in Nat BY Zenon, LenProperties DEF StreamTypeOK
  <2>. QED BY <2>1 DEF StreamTypeOK
<1>2. <<>> \in Seq(Events) /\ Len(<<>>) = 0 BY Zenon, EmptySeq
<1>3. ASSUME NEW s \in Seq(Events), stream' = s, cursor' \in {0, 1}, lossAt' = 0
      PROVE  StreamTypeOK'
  <2>1. Len(s) \in Nat BY Zenon, LenProperties
  <2>2. cursor' \in Nat /\ cursor' <= Len(s) + 1 /\ lossAt' \in 0 .. Len(s) BY <1>3, <2>1
  <2>. QED BY Zenon, <1>3, <2>2 DEF StreamTypeOK
<1>4. ASSUME NEW e \in Events, stream' = Append(stream, e) \/ stream' = stream,
             UNCHANGED cursor, lossAt' \in {lossAt, Len(stream)}
      PROVE  StreamTypeOK'
  <2>1. stream' \in Seq(Events) /\ Len(stream') \in {Len(stream), Len(stream) + 1}
    <3>1. stream \in Seq(Events) BY Zenon DEF StreamTypeOK
    <3>2. /\ Append(stream, e) \in Seq(Events)
          /\ Len(Append(stream, e)) = Len(stream) + 1
      BY Zenon, <3>1, EventAppend
    <3>. QED BY Zenon, <1>4, <3>1, <3>2
  <2>2. cursor' \in Nat /\ cursor' <= Len(stream') + 1 /\ lossAt' \in 0 .. Len(stream')
    BY <1>1, <1>4, <2>1
  <2>. QED BY Zenon, <2>1, <2>2 DEF StreamTypeOK
<1>5. CASE UNCHANGED vars BY Zenon, <1>0, <1>5 DEF vars, streamVars, routerVars
<1>6. CASE Engine
  BY Zenon, <1>0, <1>6 DEF Engine, StoreBlock, EvictBlock, ClearCache, UnchangedByEngine,
     streamVars, routerVars
<1>7. CASE StartRelay
  <2>1. CASE UNCHANGED <<stream, lossAt, cursor, exact, budget>> BY Zenon, <1>0, <2>1
  <2>2. CASE EnsureEventStream(TRUE, <<>>)
    <3>1. stream' = <<>> \o <<>> /\ lossAt' = Len(<<>>) /\ cursor' \in {0, 1}
      BY Zenon, <2>2 DEF EnsureEventStream, ResumeAt
    <3>2. <<>> \o <<>> = <<>> BY Zenon, <1>2, ConcatEmptySeq
    <3>. QED BY Zenon, <1>2, <1>3, <3>1, <3>2
  <2>. QED BY Zenon, <1>7, <2>1, <2>2 DEF StartRelay, EnsureAtStart
<1>8. CASE Attach \/ PostFlush \/ Flush \/ Register
  BY Zenon, <1>0, <1>8 DEF Attach, PostFlush, Flush, Register, UnchangedByEngine, streamVars,
     routerVars
<1>9. ASSUME Receive PROVE hand' \in Events
  BY Zenon, <1>9, HeadTailProperties DEF Receive, EventsTypeOK
<1>10. CASE Forward BY Zenon, <1>4, <1>9, <1>10 DEF Forward
<1>11. CASE DropEvent BY Zenon, <1>4, <1>9, <1>11 DEF DropEvent
<1>12. CASE HealStream
  <2>1. PICK recreated \in BOOLEAN, sent \in {<<>>, <<hand'>>} :
            EnsureEventStream(recreated, sent)
    BY Zenon, <1>12 DEF HealStream
  <2>2. hand' \in Events BY Zenon, <1>9, <1>12 DEF HealStream
  <2>3. sent \in Seq(Events)
    <3>1. ASSUME NEW e \in Events PROVE <<e>> \in Seq(Events) OBVIOUS
    <3>. QED BY Zenon, <1>2, <2>2, <3>1
  <2>4. <<>> \o sent = sent /\ stream \o <<>> = stream
    BY Zenon, <2>3, ConcatEmptySeq DEF StreamTypeOK
  <2>5. stream \o <<hand'>> = Append(stream, hand') BY <2>2 DEF StreamTypeOK
  <2>6. CASE recreated
    <3>1. stream' = sent /\ lossAt' = 0 /\ cursor' \in {0, 1}
      BY Zenon, <1>2, <2>1, <2>4, <2>6 DEF EnsureEventStream, ResumeAt
    <3>. QED BY Zenon, <1>3, <2>3, <3>1
  <2>7. CASE ~recreated
    <3>1. stream' = stream \o sent /\ lossAt' \in {lossAt, Len(stream)} /\ UNCHANGED cursor
      BY Zenon, <2>1, <2>7 DEF EnsureEventStream
    <3>. QED BY Zenon, <1>4, <2>2, <2>4, <2>5, <3>1
  <2>. QED BY Zenon, <2>6, <2>7
<1>13. CASE Apply BY Zenon, <1>0, <1>13 DEF Apply, streamVars, routerVars
<1>14. CASE Write
  BY Zenon, <1>0, <1>14 DEF Write, Drain, IntervalPasses, PutDone, PutFails,
     PutMeetsStoreFailure, RebuildBucket, RebuildRaises, AnotherRebuilds, UnchangedByWrite,
     streamVars,
     routerVars
<1>15. CASE Restart
  <2>1. UNCHANGED <<stream, cursor>> /\ lossAt' = Len(stream) BY Zenon, <1>15 DEF Restart
  <2>2. Len(stream) \in 0 .. Len(stream) BY <1>1
  <2>. QED BY Zenon, <2>1, <2>2 DEF StreamTypeOK
<1>16. CASE Subscribe
  <2>1. cursor' = 1 /\ (UNCHANGED streamVars \/ (stream' = <<>> /\ lossAt' = 0))
    BY Zenon, <1>16 DEF Subscribe
  <2>2. CASE UNCHANGED streamVars
    <3>1. cursor' \in Nat /\ cursor' <= Len(stream) + 1 BY <1>1, <2>1
    <3>. QED BY Zenon, <2>2, <3>1 DEF streamVars, StreamTypeOK
  <2>. QED BY Zenon, <1>2, <1>3, <2>1, <2>2
<1>17. CASE OnMessage
  <2>1. cursor \in 1 .. Len(stream) /\ cursor' = cursor + 1 /\ UNCHANGED streamVars
    BY Zenon, <1>17 DEF OnMessage
  <2>2. cursor' \in Nat /\ cursor' <= Len(stream) + 1 BY <1>1, <2>1
  <2>. QED BY Zenon, <2>1, <2>2 DEF streamVars, StreamTypeOK
<1>18. CASE ColdStart
  <2>1. cursor' = 0 /\ UNCHANGED streamVars BY Zenon, <1>18 DEF ColdStart
  <2>2. cursor' \in Nat /\ cursor' <= Len(stream) + 1 BY <1>1, <2>1
  <2>. QED BY Zenon, <2>1, <2>2 DEF streamVars, StreamTypeOK
<1>19. CASE Track \/ Untrack \/ WatchBucket \/ Seed
  BY Zenon, <1>0, <1>19 DEF Track, Untrack, WatchBucket, Seed, streamVars
<1>. QED
  BY Zenon, <1>5, <1>6, <1>7, <1>8, <1>10, <1>11, <1>12, <1>13, <1>14, <1>15, <1>16, <1>17,
     <1>18, <1>19
  DEF Next, StartUp, Loop, Router

\* The router's side.
LEMMA RouterStep ==
    ASSUME StreamTypeOK, BucketTypeOK, BudgetTypeOK, RouterTypeOK, [Next]_vars
    PROVE  RouterTypeOK'
<1>0. ASSUME UNCHANGED <<sub, started, watch>>, exact' \in BOOLEAN PROVE RouterTypeOK'
  BY Zenon, <1>0 DEF RouterTypeOK
<1>1. CASE UNCHANGED vars BY Zenon, <1>1 DEF vars, routerVars, RouterTypeOK
<1>2. CASE Engine
  BY Zenon, <1>2 DEF Engine, StoreBlock, EvictBlock, ClearCache, UnchangedByEngine, routerVars,
     RouterTypeOK
<1>3. CASE StartUp
  BY Zenon, <1>3 DEF StartUp, StartRelay, EnsureAtStart, EnsureEventStream, Attach, PostFlush,
     Flush, Register, UnchangedByEngine, routerVars, RouterTypeOK
<1>4. CASE Loop
  BY Zenon, <1>4 DEF Loop, Forward, DropEvent, HealStream, EnsureEventStream, Receive, Apply,
     routerVars, RouterTypeOK
<1>5. CASE Write
  BY Zenon, <1>5 DEF Write, Drain, IntervalPasses, PutDone, PutFails, PutMeetsStoreFailure,
     RebuildBucket, RebuildRaises, AnotherRebuilds, DeleteBucket, UnchangedByWrite, routerVars,
     RouterTypeOK
<1>6. CASE Restart BY Zenon, <1>6 DEF Restart, RouterTypeOK
<1>7. CASE Track
  <2>1. sub' \in Subs BY Zenon, <1>7 DEF Track, Subs, BudgetTypeOK
  <2>. QED BY Zenon, <1>7, <2>1 DEF Track, RouterTypeOK
<1>8. CASE Untrack \/ Subscribe \/ WatchBucket \/ ColdStart
  BY Zenon, <1>8 DEF Untrack, Subscribe, WatchBucket, ColdStart, RouterTypeOK
<1>9. CASE OnMessage
  <2>1. stream[cursor] \in Events BY Zenon, <1>9, ElementOfSeq DEF OnMessage, StreamTypeOK
  <2>2. sub # None => HandleEvent(sub, stream[cursor]) \in Subs
    BY Zenon, <2>1, HandleCore DEF RouterTypeOK
  <2>3. sub' \in Subs \cup {None} BY Zenon, <1>9, <2>2 DEF OnMessage, RouterTypeOK
  <2>4. exact' \in BOOLEAN BY Zenon, <1>9 DEF OnMessage, RouterTypeOK
  <2>. QED BY Zenon, <1>9, <2>3, <2>4 DEF OnMessage, RouterTypeOK
<1>10. CASE Seed
  <2>1. Head(feed) \in SUBSET Blocks
    BY Zenon, <1>10, HeadTailProperties DEF Seed, BucketTypeOK
  <2>2. sub # None => [sub EXCEPT !.view = Head(feed)] \in Subs
    BY Zenon, <2>1 DEF RouterTypeOK, Subs
  <2>3. sub' \in Subs \cup {None} BY Zenon, <1>10, <2>2 DEF Seed, Seeds, RouterTypeOK
  <2>4. exact' \in BOOLEAN BY Zenon, <1>10 DEF Seed, RouterTypeOK
  <2>. QED BY Zenon, <1>10, <2>3, <2>4 DEF Seed, RouterTypeOK
<1>. QED
  BY Zenon, <1>1, <1>2, <1>3, <1>4, <1>5, <1>6, <1>7, <1>8, <1>9, <1>10 DEF Next, Router

-----------------------------------------------------------------------------
(* The relay and the engine                                                *)

\* The relay's view and map once the event in hand is applied.
There == IF hand = None THEN relay ELSE HandleEvent(relay, hand)

\* A clear has been published to the relay.
ClearSeen ==
    \/ observed
    \/ hand # None /\ hand.kind = "cleared"
    \/ \E i \in 1 .. Len(wire) : wire[i].kind = "cleared"

\* The events on their way lead the relay, from a clear on, to what the engine
\* holds.
Tracks ==
    /\ ClearSeen => attached
    /\ \E d \in Caches :
           /\ Leads(There, wire, d)
           /\ ClearSeen /\ ~blurred => d.view = engine /\ d.map = engine

\* What an event makes of a view and map, field by field.
LEMMA HandleIs ==
    ASSUME NEW c \in Caches, NEW e
    PROVE  /\ e.kind = "stored" /\ Parent[e.block] \in c.map \cup {Root} /\ e.aligned =>
                 /\ HandleEvent(c, e).view = c.view \cup {e.block}
                 /\ HandleEvent(c, e).map = c.map \cup {e.block}
           /\ e.kind = "removed" /\ e.block \in c.map =>
                 /\ HandleEvent(c, e).view = c.view \ {e.block}
                 /\ HandleEvent(c, e).map = c.map \ {e.block}
           /\ e.kind = "cleared" => HandleEvent(c, e) = Empty
<1>2. /\ e.kind = "stored" => HandleEvent(c, e) = OnBlockStored(c, e)
      /\ e.kind = "removed" => HandleEvent(c, e) = OnBlockRemoved(c, e)
      /\ e.kind = "cleared" => HandleEvent(c, e) = [c EXCEPT !.view = {}, !.map = {}]
  BY DEF HandleEvent
<1>3. e.kind = "stored" /\ Parent[e.block] \in c.map \cup {Root} /\ e.aligned =>
          /\ HandleEvent(c, e).view = c.view \cup {e.block}
          /\ HandleEvent(c, e).map = c.map \cup {e.block}
  <2>1. OnBlockStored(c, e).view =
            IF Parent[e.block] \in c.map \cup {Root} THEN c.view \cup {e.block} ELSE c.view
    BY Zenon DEF OnBlockStored, Caches
  <2>2. OnBlockStored(c, e).map =
            IF Parent[e.block] \in c.map \cup {Root} /\ e.aligned THEN c.map \cup {e.block}
            ELSE c.map
    BY Zenon DEF OnBlockStored, Caches
  <2>. QED BY Zenon, <1>2, <2>1, <2>2
<1>4. e.kind = "removed" /\ e.block \in c.map =>
          /\ HandleEvent(c, e).view = c.view \ {e.block}
          /\ HandleEvent(c, e).map = c.map \ {e.block}
  <2>1. /\ OnBlockRemoved(c, e).view =
                IF e.block \in c.map THEN c.view \ {e.block} ELSE c.view
        /\ OnBlockRemoved(c, e).map = c.map \ {e.block}
    BY Zenon DEF OnBlockRemoved, Caches
  <2>. QED BY Zenon, <1>2, <2>1
<1>5. [c EXCEPT !.view = {}, !.map = {}] = Empty
  <2>. DEFINE x == [c EXCEPT !.view = {}, !.map = {}]
  <2>1. x \in [view : {{}}, map : {{}}] BY Zenon DEF Caches
  <2>. HIDE DEF x
  <2>2. x = [view |-> {}, map |-> {}] BY <2>1
  <2>. QED BY Zenon, <2>2 DEF x, Empty
<1>. QED BY Zenon, <1>2, <1>3, <1>4, <1>5

\* What is there is a view and a map.
LEMMA ThereType == ASSUME EventsTypeOK, WritesTypeOK PROVE There \in Caches
<1>1. hand # None => HandleEvent(relay, hand) \in Caches
  BY Zenon, HandleKeepsCaches DEF EventsTypeOK, WritesTypeOK
<1>. QED BY Zenon, <1>1 DEF There, WritesTypeOK

\* Taking an event into the hand is as good as applying it ...
LEMMA ReceiveThere ==
    ASSUME EventsTypeOK, Receive
    PROVE  /\ Head(wire) \in Events /\ hand' = Head(wire) /\ wire' = Tail(wire) /\ wire # <<>>
           /\ hand' # None /\ There = relay /\ There' = HandleEvent(There, Head(wire))
<1>1. wire # <<>> /\ hand = None /\ hand' = Head(wire) /\ wire' = Tail(wire) /\ relay' = relay
  BY Zenon DEF Receive
<1>2. Head(wire) \in Events BY Zenon, <1>1, HeadTailProperties DEF EventsTypeOK
<1>3. hand' # None BY Zenon, <1>1, <1>2, KvConfig
<1>4. There = relay BY Zenon, <1>1 DEF There
<1>5. There' = HandleEvent(relay', hand') BY Zenon, <1>3 DEF There
<1>. QED BY Zenon, <1>1, <1>2, <1>3, <1>4, <1>5

\* ... and applying it then changes nothing.
LEMMA ApplyThere == ASSUME Apply PROVE There' = There
<1>1. hand # None /\ hand' = None /\ relay' = HandleEvent(relay, hand) BY Zenon DEF Apply
<1>. QED BY Zenon, <1>1 DEF There

\* An index of a sequence one element longer is its last one, or an index of the shorter one.
LEMMA LastOrBefore ==
  ASSUME NEW n \in Nat, NEW i \in 1 .. n + 1
  PROVE  i \in 1 .. n \/ i = n + 1
OBVIOUS

\* An event that the engine publishes.
LEMMA PublishTracks ==
    ASSUME EventsTypeOK, WritesTypeOK, Tracks, NEW e \in Events, Publish(e),
           UNCHANGED <<attached, relay, hand, observed>>,
           ASSUME NEW d \in Caches, ~blurred',
                  e.kind = "cleared" \/ (~blurred /\ d.view = engine /\ d.map = engine)
           PROVE  HandleEvent(d, e).view = engine' /\ HandleEvent(d, e).map = engine',
           ~blurred' /\ e.kind # "cleared" => ~blurred
    PROVE  Tracks'
<1>1. There' = There /\ There \in Caches BY Zenon, ThereType DEF There
<1>2. PICK d \in Caches :
          Leads(There, wire, d) /\ (ClearSeen /\ ~blurred => d.view = engine /\ d.map = engine)
  BY Zenon DEF Tracks
<1>3. wire \in Seq(Events) BY Zenon DEF EventsTypeOK
<1>4. CASE ~attached
  <2>1. wire' = wire /\ ~ClearSeen BY Zenon, <1>4 DEF Publish, Tracks
  <2>2. ~ClearSeen' BY Zenon, <2>1 DEF ClearSeen
  <2>. QED BY Zenon, <1>1, <1>2, <2>1, <2>2 DEF Tracks
<1>5. CASE attached
  <2>1. wire' = Append(wire, e) BY Zenon, <1>5 DEF Publish
  <2>. DEFINE c == HandleEvent(d, e)
  <2>2. c \in Caches BY Zenon, HandleKeepsCaches
  <2>3. Leads(There', wire', c) BY Zenon, <1>1, <1>2, <1>3, <2>1, LeadsAppend
  <2>4. ClearSeen' => ClearSeen \/ e.kind = "cleared"
    <3>1. ASSUME NEW i \in 1 .. Len(wire')
          PROVE  wire'[i] = e \/ \E j \in 1 .. Len(wire) : wire'[i] = wire[j]
      <4>. DEFINE p == Append(wire, e)
                  n == Len(wire)
      <4>1. /\ Len(p) = n + 1 /\ p[n + 1] = e
            /\ \A j \in 1 .. Len(wire) : p[j] = wire[j]
        BY Zenon, <1>3, EventAppend
      <4>2. n \in Nat /\ wire' = p BY Zenon, <1>3, <2>1, LenProperties
      <4>. HIDE DEF p, n
      <4>3. i \in 1 .. n + 1 BY Zenon, <4>1, <4>2
      <4>4. i \in 1 .. n \/ i = n + 1 BY Zenon, <4>2, <4>3, LastOrBefore
      <4>. QED BY Zenon, <4>1, <4>2, <4>4 DEF n
    <3>. QED BY Zenon, <3>1 DEF ClearSeen
  <2>5. ClearSeen' /\ ~blurred' => c.view = engine' /\ c.map = engine'
    BY Zenon, <1>2, <2>4
  <2>6. attached' BY Zenon, <1>5
  <2>. HIDE DEF c
  <2>. QED BY Zenon, <2>2, <2>3, <2>5, <2>6 DEF Tracks
<1>. QED BY Zenon, <1>4, <1>5

\* Every step keeps the relay on the engine's track.
LEMMA TracksStep ==
    ASSUME EventsTypeOK, WritesTypeOK, FlagTypeOK, Tracks, [Next]_vars PROVE Tracks'
<1>0. ASSUME UNCHANGED <<relay, hand, wire, observed, engine, blurred>>, attached' \/ ~attached
      PROVE  Tracks'
  <2>1. There' = There /\ ClearSeen' = ClearSeen BY Zenon, <1>0 DEF There, ClearSeen
  <2>. QED BY Zenon, <1>0, <2>1 DEF Tracks
<1>1. CASE UNCHANGED vars BY Zenon, <1>0, <1>1 DEF vars, engineVars, relayVars
<1>2. ASSUME NEW b \in Blocks, NEW aligned \in BOOLEAN, StoreBlock(b, aligned)
      PROVE  Tracks'
  <2>. DEFINE e == [kind |-> "stored", block |-> b, aligned |-> aligned]
  <2>1. e \in Events /\ e.kind = "stored" /\ e.block = b /\ e.aligned = aligned BY DEF Events
  <2>2. e.kind # "cleared" BY <2>1
  <2>3. /\ Publish(e) /\ engine' = engine \cup {b} /\ blurred' = (blurred \/ ~aligned)
        /\ Parent[b] \in engine \cup {Root}
        /\ UNCHANGED <<attached, relay, hand, observed>>
    BY Zenon, <1>2 DEF StoreBlock, UnchangedByEngine, relayVars
  <2>. HIDE DEF e
  <2>4. ~blurred' => ~blurred /\ aligned BY Zenon, <2>3
  <2>5. ASSUME NEW d \in Caches, ~blurred', d.view = engine /\ d.map = engine
        PROVE  HandleEvent(d, e).view = engine' /\ HandleEvent(d, e).map = engine'
    <3>1. e.aligned /\ Parent[e.block] \in d.map \cup {Root} BY Zenon, <2>1, <2>3, <2>4, <2>5
    <3>2. /\ HandleEvent(d, e).view = d.view \cup {e.block}
          /\ HandleEvent(d, e).map = d.map \cup {e.block}
      BY Zenon, <2>1, <3>1, HandleIs
    <3>. QED BY Zenon, <2>1, <2>3, <2>5, <3>2
  <2>. QED BY Zenon, <2>1, <2>2, <2>3, <2>4, <2>5, PublishTracks
<1>3. ASSUME NEW b \in Blocks, EvictBlock(b) PROVE Tracks'
  <2>. DEFINE e == [kind |-> "removed", block |-> b]
  <2>1. e \in Events /\ e.kind = "removed" /\ e.block = b BY DEF Events
  <2>2. e.kind # "cleared" BY <2>1
  <2>3. /\ Publish(e) /\ engine' = engine \ {b} /\ blurred' = blurred /\ b \in engine
        /\ UNCHANGED <<attached, relay, hand, observed>>
    BY Zenon, <1>3 DEF EvictBlock, UnchangedByEngine, relayVars
  <2>. HIDE DEF e
  <2>4. ASSUME NEW d \in Caches, d.view = engine /\ d.map = engine
        PROVE  HandleEvent(d, e).view = engine' /\ HandleEvent(d, e).map = engine'
    <3>1. /\ HandleEvent(d, e).view = d.view \ {e.block}
          /\ HandleEvent(d, e).map = d.map \ {e.block}
      BY Zenon, <2>1, <2>3, <2>4, HandleIs
    <3>. QED BY Zenon, <2>1, <2>3, <2>4, <3>1
  <2>. QED BY Zenon, <2>1, <2>2, <2>3, <2>4, PublishTracks
<1>4. ASSUME Clear, UNCHANGED <<attached, relay, hand, observed>> PROVE Tracks'
  <2>1. Cleared \in Events /\ Cleared.kind = "cleared" BY DEF Events, Cleared
  <2>2. Publish(Cleared) /\ engine' = {} BY Zenon, <1>4 DEF Clear
  <2>3. Empty.view = {} /\ Empty.map = {} BY DEF Empty
  <2>4. ASSUME NEW d \in Caches
        PROVE  HandleEvent(d, Cleared).view = engine' /\ HandleEvent(d, Cleared).map = engine'
    <3>1. HandleEvent(d, Cleared) = Empty BY Zenon, <2>1, HandleIs
    <3>. QED BY Zenon, <2>2, <2>3, <3>1
  <2>. QED BY Zenon, <1>4, <2>1, <2>2, <2>4, PublishTracks
<1>5. CASE ClearCache BY Zenon, <1>4, <1>5 DEF ClearCache, UnchangedByEngine, relayVars
<1>6. CASE Flush
  BY Zenon, <1>0, <1>4, <1>6 DEF Flush, UnchangedByEngine, relayVars
<1>7. CASE StartRelay \/ Attach \/ PostFlush \/ Register
  BY Zenon, <1>0, <1>7 DEF StartRelay, Attach, PostFlush, Register, engineVars, relayVars
<1>8. CASE Receive
  <2>1. /\ Head(wire) \in Events /\ hand' = Head(wire) /\ wire' = Tail(wire) /\ wire # <<>>
        /\ There' = HandleEvent(There, Head(wire))
    BY Zenon, <1>8, ReceiveThere
  <2>2. UNCHANGED <<engine, blurred, attached, observed>> BY Zenon, <1>8 DEF Receive
  <2>3. wire \in Seq(Events) /\ There \in Caches BY Zenon, ThereType DEF EventsTypeOK
  <2>4. PICK d \in Caches :
            Leads(There, wire, d) /\ (ClearSeen /\ ~blurred => d.view = engine /\ d.map = engine)
    BY Zenon DEF Tracks
  <2>5. Leads(There', wire', d) BY Zenon, <2>1, <2>3, <2>4, LeadsTail
  <2>6. ClearSeen' => ClearSeen
    <3>1. /\ Head(wire) = wire[1] /\ 1 \in 1 .. Len(wire)
          /\ \A i \in 1 .. Len(wire') : wire'[i] = wire[i + 1] /\ i + 1 \in 1 .. Len(wire)
      BY <2>1, <2>3
    <3>. QED BY Zenon, <2>1, <2>2, <3>1 DEF ClearSeen
  <2>. QED BY Zenon, <2>2, <2>4, <2>5, <2>6 DEF Tracks
<1>9. CASE Apply
  <2>1. UNCHANGED <<engine, blurred, attached, wire>> /\ There' = There
    BY Zenon, <1>9, ApplyThere DEF Apply, engineVars
  <2>2. ClearSeen' = ClearSeen
    BY Zenon, <1>9, <2>1 DEF Apply, Anchors, ClearSeen
  <2>. QED BY Zenon, <2>1, <2>2 DEF Tracks
<1>10. CASE Write
  BY Zenon, <1>0, <1>10 DEF Write, Drain, IntervalPasses, PutDone, PutFails,
     PutMeetsStoreFailure, RebuildBucket, RebuildRaises, AnotherRebuilds, UnchangedByWrite,
     engineVars, relayVars
<1>11. CASE Restart
  <2>1. wire' = <<>> /\ hand' = None /\ relay' = Empty /\ ~observed' BY Zenon, <1>11 DEF Restart
  <2>2. There' = Empty /\ Empty \in Caches BY Zenon, <2>1 DEF There, Empty, Caches
  <2>3. ~ClearSeen'
    <3>1. 1 .. Len(<<>>) = {} OBVIOUS
    <3>. QED BY Zenon, <2>1, <3>1 DEF ClearSeen
  <2>4. Leads(There', wire', Empty) BY Zenon, <2>1, <2>2, LeadsEmpty
  <2>. QED BY Zenon, <2>2, <2>3, <2>4 DEF Tracks
<1>12. CASE Router
  BY Zenon, <1>0, <1>12 DEF Router, Track, Untrack, Subscribe, WatchBucket, OnMessage, Seed,
     ColdStart, UnchangedByRouter, engineVars, relayVars
<1>. QED
  BY Zenon, <1>1, <1>2, <1>3, <1>5, <1>6, <1>7, <1>8, <1>9, <1>10, <1>11, <1>12
  DEF Next, Engine, StartUp, Loop, Forward, DropEvent, HealStream

-----------------------------------------------------------------------------
(* The stream and the router                                               *)

\* Since the last loss, what follows a clear in the stream leads to the relay.
StreamFollows ==
    \A k \in 1 .. Len(stream) :
        k > lossAt /\ stream[k].kind = "cleared"
            => Leads(Empty, SubSeq(stream, k + 1, Len(stream)), There)

\* What a router that is exact has still to be delivered leads it there.
RouterFollows ==
    exact => /\ sub # None /\ started /\ cursor \in 1 .. Len(stream) + 1
             /\ Leads(Core(sub), SubSeq(stream, cursor, Len(stream)), There)

\* A part of a sequence of events.
LEMMA PartOf ==
    ASSUME NEW q, NEW m \in Int, NEW n \in Int, \A i \in m .. n : q[i] \in Events
    PROVE  /\ SubSeq(q, m, n) \in Seq(Events)
           /\ Len(SubSeq(q, m, n)) = (IF m <= n THEN n - m + 1 ELSE 0)
           /\ \A i \in 1 .. n - m + 1 : SubSeq(q, m, n)[i] = q[m + i - 1]
BY SubSeqProperties

\* What is left of a stream, and of one that grows.
LEMMA RestOf ==
    ASSUME NEW q \in Seq(Events), NEW k \in 1 .. Len(q) + 1
    PROVE  /\ SubSeq(q, k, Len(q)) \in Seq(Events)
           /\ k = Len(q) + 1 => SubSeq(q, k, Len(q)) = <<>>
           /\ k \in 1 .. Len(q) =>
                 /\ SubSeq(q, k, Len(q)) # <<>> /\ Head(SubSeq(q, k, Len(q))) = q[k]
                 /\ Tail(SubSeq(q, k, Len(q))) = SubSeq(q, k + 1, Len(q))
           /\ \A e \in Events :
                 SubSeq(Append(q, e), k, Len(q) + 1) = Append(SubSeq(q, k, Len(q)), e)
<1>. DEFINE L == Len(q)
            r == SubSeq(q, k, L)
<1>1. L \in Nat /\ k \in Nat \ {0} /\ k <= L + 1 OBVIOUS
<1>2. \A i \in 1 .. L : q[i] \in Events BY Zenon, ElementOfSeq
<1>3. \A i \in k .. L : q[i] \in Events BY <1>1, <1>2
<1>4. k \in Int /\ L \in Int BY <1>1
<1>. HIDE DEF L
<1>5. /\ r \in Seq(Events) /\ Len(r) = (IF k <= L THEN L - k + 1 ELSE 0)
      /\ \A i \in 1 .. L - k + 1 : r[i] = q[k + i - 1]
  BY Zenon, <1>3, <1>4, PartOf
<1>. HIDE DEF r
<1>6. Len(r) = L - k + 1 BY <1>1, <1>5
<1>7. k = L + 1 => r = <<>>
  <2>1. k = L + 1 => Len(r) = 0 BY <1>1, <1>6
  <2>. QED BY Zenon, <1>5, <2>1, EmptySeq
<1>8. ASSUME k \in 1 .. L PROVE r # <<>> /\ Head(r) = q[k] /\ Tail(r) = SubSeq(q, k + 1, L)
  <2>1. Len(r) > 0 BY <1>1, <1>6, <1>8
  <2>2. r # <<>> BY <2>1
  <2>3. k \in 1 .. Len(q) /\ L \in k .. Len(q) BY <1>1, <1>8 DEF L
  <2>4. Head(SubSeq(q, k, L)) = q[k] /\ Tail(SubSeq(q, k, L)) = SubSeq(q, k + 1, L)
    BY Zenon, <2>3, HeadTailOfSubSeq
  <2>. QED BY Zenon, <2>2, <2>4 DEF r
<1>9. ASSUME NEW e \in Events PROVE SubSeq(Append(q, e), k, L + 1) = Append(r, e)
  <2>. DEFINE a == Append(q, e)
              M == L + 1
              s == SubSeq(a, k, M)
              t == Append(r, e)
  <2>1. /\ a \in Seq(Events) /\ Len(a) = L + 1 /\ \A i \in 1 .. L : a[i] = q[i]
        /\ a[L + 1] = e
    BY Zenon, EventAppend DEF L
  <2>2. /\ t \in Seq(Events) /\ Len(t) = Len(r) + 1 /\ \A i \in 1 .. Len(r) : t[i] = r[i]
        /\ t[Len(r) + 1] = e
    BY Zenon, <1>5, EventAppend
  <2>. HIDE DEF a, t
  <2>3. \A i \in k .. L + 1 : a[i] \in Events BY <1>1, <1>2, <2>1
  <2>4. M = L + 1 OBVIOUS
  <2>5. k \in Int /\ M \in Int /\ \A i \in k .. M : a[i] \in Events BY <1>1, <2>3
  <2>. HIDE DEF M
  <2>6. /\ s \in Seq(Events)
        /\ Len(s) = (IF k <= M THEN M - k + 1 ELSE 0)
        /\ \A i \in 1 .. M - k + 1 : s[i] = a[k + i - 1]
    BY Zenon, <2>5, PartOf
  <2>. HIDE DEF s
  <2>7. Len(s) = Len(t) /\ Len(s) = M - k + 1 BY <1>1, <1>6, <2>2, <2>4, <2>6
  <2>8. ASSUME NEW i \in 1 .. Len(s) PROVE s[i] = t[i]
    <3>1. i \in Nat /\ s[i] = a[k + i - 1] BY <1>1, <2>6, <2>7
    <3>2. CASE i = Len(r) + 1
      <4>1. k + i - 1 = L + 1 BY <1>1, <1>6, <3>2
      <4>. QED BY Zenon, <2>1, <2>2, <3>1, <3>2, <4>1
    <3>3. CASE i \in 1 .. Len(r)
      <4>1. k + i - 1 \in 1 .. L /\ i \in 1 .. L - k + 1 BY <1>1, <1>6, <3>3
      <4>. QED BY Zenon, <1>5, <2>1, <2>2, <3>1, <3>3, <4>1
    <3>4. i = Len(r) + 1 \/ i \in 1 .. Len(r) BY <1>1, <1>6, <2>4, <2>7, <3>1
    <3>. QED BY Zenon, <3>2, <3>3, <3>4
  <2>9. s = t BY Zenon, <2>2, <2>6, <2>7, <2>8, SeqEqual
  <2>. QED BY Zenon, <2>9 DEF s, t, a, M
<1>. QED BY Zenon, <1>5, <1>7, <1>8, <1>9 DEF L, r

\* An event that goes into the stream goes into the hand: what led to the
\* relay still does.
LEMMA ForwardLeads ==
    ASSUME EventsTypeOK, WritesTypeOK, StreamTypeOK, Receive, stream' = Append(stream, hand'),
           NEW c \in Caches, NEW k \in 1 .. Len(stream) + 1,
           Leads(c, SubSeq(stream, k, Len(stream)), There)
    PROVE  Leads(c, SubSeq(stream', k, Len(stream')), There')
<1>. DEFINE r == SubSeq(stream, k, Len(stream))
<1>1. stream \in Seq(Events) /\ There \in Caches BY Zenon, ThereType DEF StreamTypeOK
<1>2. hand' \in Events /\ There' = HandleEvent(There, hand') BY Zenon, ReceiveThere
<1>3. r \in Seq(Events) BY Zenon, <1>1, RestOf
<1>4. Len(stream') = Len(stream) + 1 BY Zenon, <1>1, <1>2, EventAppend
<1>5. SubSeq(stream', k, Len(stream')) = Append(r, hand')
  <2>1. SubSeq(Append(stream, hand'), k, Len(stream) + 1) = Append(r, hand')
    BY Zenon, <1>1, <1>2, RestOf
  <2>. QED BY Zenon, <1>4, <2>1
<1>6. Leads(c, r, There) OBVIOUS
<1>. HIDE DEF r
<1>7. Leads(c, Append(r, hand'), HandleEvent(There, hand'))
  BY Zenon, <1>1, <1>2, <1>3, <1>6, LeadsAppend
<1>. QED BY Zenon, <1>2, <1>5, <1>7

\* From a clear that goes into the stream the relay starts again.
LEMMA ClearLeads ==
    ASSUME EventsTypeOK, WritesTypeOK, Receive, hand'.kind = "cleared"
    PROVE  Leads(Empty, <<>>, There')
<1>1. There \in Caches /\ There' = HandleEvent(There, hand') BY Zenon, ReceiveThere, ThereType
<1>2. There' = Empty BY Zenon, <1>1, HandleIs
<1>3. Empty \in Caches BY Zenon DEF Empty, Caches
<1>. QED BY Zenon, <1>2, <1>3, LeadsEmpty

\* So the stream leads to the relay after an event is forwarded.
LEMMA ForwardFollows ==
    ASSUME EventsTypeOK, WritesTypeOK, StreamTypeOK, StreamFollows, Receive,
           stream' = Append(stream, hand'), UNCHANGED lossAt
    PROVE  StreamFollows'
<1>1. stream \in Seq(Events) /\ Len(stream) \in Nat BY Zenon, LenProperties DEF StreamTypeOK
<1>2. hand' \in Events BY Zenon, ReceiveThere
<1>3. /\ Len(stream') = Len(stream) + 1 /\ \A i \in 1 .. Len(stream) : stream'[i] = stream[i]
      /\ stream'[Len(stream) + 1] = hand' /\ stream' \in Seq(Events)
  BY Zenon, <1>1, <1>2, EventAppend
<1>4. Empty \in Caches BY Zenon DEF Empty, Caches
<1>. SUFFICES ASSUME NEW k \in 1 .. Len(stream'), k > lossAt', stream'[k].kind = "cleared"
     PROVE  Leads(Empty, SubSeq(stream', k + 1, Len(stream')), There')
  BY Zenon DEF StreamFollows
<1>5. CASE k = Len(stream) + 1
  <2>1. hand'.kind = "cleared" BY Zenon, <1>3, <1>5
  <2>2. k + 1 \in 1 .. Len(stream') + 1 /\ k + 1 = Len(stream') + 1 BY <1>1, <1>3, <1>5
  <2>3. SubSeq(stream', k + 1, Len(stream')) = <<>> BY Zenon, <1>3, <2>2, RestOf
  <2>. QED BY Zenon, <2>1, <2>3, ClearLeads
<1>6. CASE k \in 1 .. Len(stream)
  <2>1. stream[k].kind = "cleared" /\ k > lossAt BY Zenon, <1>3, <1>6
  <2>2. Leads(Empty, SubSeq(stream, k + 1, Len(stream)), There)
    BY Zenon, <1>6, <2>1 DEF StreamFollows
  <2>3. k + 1 \in 1 .. Len(stream) + 1 BY <1>1, <1>6
  <2>. QED BY Zenon, <1>4, <2>2, <2>3, ForwardLeads
<1>7. k = Len(stream) + 1 \/ k \in 1 .. Len(stream) BY <1>1, <1>3
<1>. QED BY Zenon, <1>5, <1>6, <1>7

\* Where everything in the stream is from before a loss, nothing need follow.
LEMMA LossFollows ==
    ASSUME stream' \in Seq(Events), lossAt' = Len(stream') PROVE StreamFollows'
<1>1. Len(stream') \in Nat BY Zenon, LenProperties
<1>2. \A k \in 1 .. Len(stream') : ~(k > lossAt') BY <1>1
<1>. QED BY Zenon, <1>2 DEF StreamFollows

\* Every step: the stream still leads to the relay.
LEMMA StreamFollowsStep ==
    ASSUME EventsTypeOK, WritesTypeOK, StreamTypeOK, StreamTypeOK', StreamFollows, [Next]_vars
    PROVE  StreamFollows'
<1>0. ASSUME UNCHANGED <<stream, lossAt>>, There' = There PROVE StreamFollows'
  BY Zenon, <1>0 DEF StreamFollows
<1>1. ASSUME UNCHANGED <<relay, hand>> PROVE There' = There BY Zenon, <1>1 DEF There
<1>2. stream' \in Seq(Events) /\ Len(<<>>) = 0 BY Zenon, EmptySeq DEF StreamTypeOK
<1>3. CASE UNCHANGED vars BY Zenon, <1>0, <1>1, <1>3 DEF vars, relayVars, streamVars
<1>4. CASE Engine
  BY Zenon, <1>0, <1>1, <1>4 DEF Engine, StoreBlock, EvictBlock, ClearCache, UnchangedByEngine,
     relayVars, streamVars
<1>5. CASE Attach \/ PostFlush \/ Flush \/ Register
  BY Zenon, <1>0, <1>1, <1>5 DEF Attach, PostFlush, Flush, Register, UnchangedByEngine,
     relayVars, streamVars
<1>6. CASE StartRelay
  <2>1. UNCHANGED <<relay, hand>> BY Zenon, <1>6 DEF StartRelay
  <2>2. CASE UNCHANGED <<stream, lossAt, cursor, exact, budget>> BY Zenon, <1>0, <1>1, <2>1,
                                                                    <2>2
  <2>3. CASE EnsureEventStream(TRUE, <<>>)
    <3>1. stream' = <<>> \o <<>> /\ lossAt' = Len(<<>>) BY Zenon, <2>3 DEF EnsureEventStream
    <3>2. <<>> \o <<>> = <<>> BY Zenon, EmptySeq, ConcatEmptySeq
    <3>. QED BY Zenon, <1>2, <3>1, <3>2, LossFollows
  <2>. QED BY Zenon, <1>6, <2>2, <2>3 DEF StartRelay, EnsureAtStart
<1>7. CASE Forward BY Zenon, <1>7, ForwardFollows DEF Forward
<1>8. CASE DropEvent BY Zenon, <1>2, <1>8, LossFollows DEF DropEvent
<1>9. CASE HealStream
  <2>1. PICK recreated \in BOOLEAN, sent \in {<<>>, <<hand'>>} :
            EnsureEventStream(recreated, sent)
    BY Zenon, <1>9 DEF HealStream
  <2>2. Receive BY Zenon, <1>9 DEF HealStream
  <2>3. hand' \in Events /\ stream \in Seq(Events) BY Zenon, <2>2, ReceiveThere DEF StreamTypeOK
  <2>4. /\ stream \o <<>> = stream /\ stream \o <<hand'>> = Append(stream, hand')
        /\ <<>> \o <<>> = <<>> /\ <<>> \o <<hand'>> = <<hand'>> /\ <<hand'>> # <<>>
    BY <2>3
  <2>5. CASE sent = <<>>
    <3>1. stream' = (IF recreated THEN <<>> ELSE stream) \o <<>>
      BY Zenon, <2>1, <2>5 DEF EnsureEventStream
    <3>2. lossAt' = Len(IF recreated THEN <<>> ELSE stream)
      BY Zenon, <2>1, <2>5 DEF EnsureEventStream
    <3>3. lossAt' = Len(stream') BY Zenon, <2>4, <3>1, <3>2
    <3>. QED BY Zenon, <1>2, <3>3, LossFollows
  <2>6. CASE sent = <<hand'>> /\ recreated
    <3>1. stream' = <<hand'>> BY Zenon, <2>1, <2>4, <2>6 DEF EnsureEventStream
    <3>. SUFFICES ASSUME NEW k \in 1 .. Len(stream'), stream'[k].kind = "cleared"
         PROVE  Leads(Empty, SubSeq(stream', k + 1, Len(stream')), There')
      BY Zenon DEF StreamFollows
    <3>2. k = 1 /\ Len(stream') = 1 /\ stream'[1] = hand' BY <3>1
    <3>3. k + 1 \in 1 .. Len(stream') + 1 /\ k + 1 = Len(stream') + 1 BY <3>2
    <3>4. SubSeq(stream', k + 1, Len(stream')) = <<>> BY Zenon, <1>2, <3>3, RestOf
    <3>. QED BY Zenon, <2>2, <3>2, <3>4, ClearLeads
  <2>7. CASE sent = <<hand'>> /\ ~recreated
    <3>1. stream' = Append(stream, hand') /\ UNCHANGED lossAt
      BY Zenon, <2>1, <2>4, <2>7 DEF EnsureEventStream
    <3>. QED BY Zenon, <2>2, <3>1, ForwardFollows
  <2>. QED BY Zenon, <2>5, <2>6, <2>7
<1>10. CASE Apply BY Zenon, <1>0, <1>10, ApplyThere DEF Apply, streamVars
<1>11. CASE Write
  BY Zenon, <1>0, <1>1, <1>11 DEF Write, Drain, IntervalPasses, PutDone, PutFails,
     PutMeetsStoreFailure, RebuildBucket, RebuildRaises, AnotherRebuilds, UnchangedByWrite,
     relayVars, streamVars
<1>12. CASE Restart BY Zenon, <1>2, <1>12, LossFollows DEF Restart
<1>13. CASE Subscribe
  <2>1. UNCHANGED <<relay, hand>> BY Zenon, <1>13 DEF Subscribe, UnchangedByRouter, relayVars
  <2>. QED BY Zenon, <1>0, <1>1, <1>2, <1>13, <2>1, LossFollows DEF Subscribe, streamVars
<1>14. CASE Track \/ Untrack \/ WatchBucket \/ OnMessage \/ Seed \/ ColdStart
  BY Zenon, <1>0, <1>1, <1>14 DEF Track, Untrack, WatchBucket, OnMessage, Seed, ColdStart,
     UnchangedByRouter, relayVars, streamVars
<1>. QED
  BY Zenon, <1>3, <1>4, <1>5, <1>6, <1>7, <1>8, <1>9, <1>10, <1>11, <1>12, <1>13, <1>14
  DEF Next, StartUp, Loop, Router

\* Messages are delivered to a router that has subscribed.
Reads == cursor # 0 => started

\* Every step keeps it so.
LEMMA ReadsStep == ASSUME Reads, [Next]_vars PROVE Reads'
<1>1. CASE UNCHANGED vars BY Zenon, <1>1 DEF vars, routerVars, Reads
<1>2. CASE Engine
  BY Zenon, <1>2 DEF Engine, StoreBlock, EvictBlock, ClearCache, UnchangedByEngine, routerVars,
     Reads
<1>3. CASE StartUp
  BY Zenon, <1>3 DEF StartUp, StartRelay, EnsureAtStart, EnsureEventStream, ResumeAt, Attach,
     PostFlush, Flush, Register, UnchangedByEngine, routerVars, Reads
<1>4. CASE Loop
  BY Zenon, <1>4 DEF Loop, Forward, DropEvent, HealStream, EnsureEventStream, ResumeAt, Receive,
     Apply, routerVars, Reads
<1>5. CASE Write
  BY Zenon, <1>5 DEF Write, Drain, IntervalPasses, PutDone, PutFails, PutMeetsStoreFailure,
     RebuildBucket, RebuildRaises, AnotherRebuilds, UnchangedByWrite, routerVars, Reads
<1>6. CASE Restart BY Zenon, <1>6 DEF Restart, Reads
<1>7. CASE Track \/ Untrack \/ Subscribe \/ WatchBucket \/ Seed \/ ColdStart
  BY Zenon, <1>7 DEF Track, Untrack, Subscribe, WatchBucket, Seed, ColdStart, Reads
<1>8. CASE OnMessage
  <2>1. cursor # 0 /\ UNCHANGED started
    <3>1. \A n : 0 \notin 1 .. n OBVIOUS
    <3>. QED BY Zenon, <1>8, <3>1 DEF OnMessage
  <2>. QED BY Zenon, <2>1 DEF Reads
<1>. QED BY Zenon, <1>1, <1>2, <1>3, <1>4, <1>5, <1>6, <1>7, <1>8 DEF Next, Router

\* Every step: so does what an exact router has still to be delivered.
LEMMA RouterFollowsStep ==
    ASSUME EventsTypeOK, WritesTypeOK, StreamTypeOK, RouterTypeOK, StreamFollows, Reads,
           RouterFollows, [Next]_vars
    PROVE  RouterFollows'
<1>0. ASSUME UNCHANGED <<sub, started, cursor, stream, exact>>, There' = There
      PROVE  RouterFollows'
  BY Zenon, <1>0 DEF RouterFollows
<1>1. ASSUME UNCHANGED <<relay, hand>> PROVE There' = There BY Zenon, <1>1 DEF There
<1>2. ASSUME ~exact' PROVE RouterFollows' BY Zenon, <1>2 DEF RouterFollows
<1>3. stream \in Seq(Events) /\ Len(stream) \in Nat BY Zenon, LenProperties DEF StreamTypeOK
<1>4. \A s \in Subs : Core(s) \in Caches BY Zenon DEF Core, Subs, Caches
<1>5. CASE UNCHANGED vars BY Zenon, <1>0, <1>1, <1>5 DEF vars, relayVars, streamVars, routerVars
<1>6. CASE Engine
  BY Zenon, <1>0, <1>1, <1>6 DEF Engine, StoreBlock, EvictBlock, ClearCache, UnchangedByEngine,
     relayVars, streamVars, routerVars
<1>7. CASE StartUp
  <2>1. CASE StartRelay
    <3>1. UNCHANGED <<relay, hand, sub, started>> BY Zenon, <2>1 DEF StartRelay
    <3>2. UNCHANGED <<stream, cursor, exact>> \/ ~exact'
      BY Zenon, <2>1 DEF StartRelay, EnsureAtStart, EnsureEventStream
    <3>. QED BY Zenon, <1>0, <1>1, <1>2, <3>1, <3>2
  <2>2. CASE Attach \/ PostFlush \/ Flush \/ Register
    BY Zenon, <1>0, <1>1, <2>2 DEF Attach, PostFlush, Flush, Register, UnchangedByEngine,
       relayVars, streamVars, routerVars
  <2>. QED BY Zenon, <1>7, <2>1, <2>2 DEF StartUp
<1>8. ASSUME Receive, stream' = Append(stream, hand'), UNCHANGED cursor, exact' => exact
      PROVE  RouterFollows'
  <2>. SUFFICES ASSUME exact'
       PROVE  /\ sub' # None /\ started' /\ cursor' \in 1 .. Len(stream') + 1
              /\ Leads(Core(sub'), SubSeq(stream', cursor', Len(stream')), There')
    BY Zenon DEF RouterFollows
  <2>1. /\ sub # None /\ started /\ cursor \in 1 .. Len(stream) + 1
        /\ Leads(Core(sub), SubSeq(stream, cursor, Len(stream)), There)
    BY Zenon, <1>8 DEF RouterFollows
  <2>2. UNCHANGED <<sub, started>> BY Zenon, <1>8 DEF Receive
  <2>3. Core(sub) \in Caches BY Zenon, <1>4, <2>1 DEF RouterTypeOK
  <2>4. Leads(Core(sub), SubSeq(stream', cursor, Len(stream')), There')
    BY Zenon, <1>8, <2>1, <2>3, ForwardLeads
  <2>5. hand' \in Events BY Zenon, <1>8, ReceiveThere
  <2>6. Len(stream') = Len(stream) + 1 BY Zenon, <1>3, <1>8, <2>5, EventAppend
  <2>7. cursor' \in 1 .. Len(stream') + 1 BY <1>3, <1>8, <2>1, <2>6
  <2>. QED BY Zenon, <1>8, <2>1, <2>2, <2>4, <2>7
<1>9. CASE Forward BY Zenon, <1>8, <1>9 DEF Forward
<1>10. CASE DropEvent BY Zenon, <1>2, <1>10 DEF DropEvent
<1>11. CASE HealStream
  <2>1. PICK recreated \in BOOLEAN, sent \in {<<>>, <<hand'>>} :
            EnsureEventStream(recreated, sent)
    BY Zenon, <1>11 DEF HealStream
  <2>2. Receive BY Zenon, <1>11 DEF HealStream
  <2>3. exact' => exact /\ ~recreated /\ sent = <<hand'>> BY Zenon, <2>1 DEF EnsureEventStream
  <2>4. CASE exact'
    <3>1. stream' = stream \o <<hand'>> /\ UNCHANGED cursor
      BY Zenon, <2>1, <2>3, <2>4 DEF EnsureEventStream
    <3>2. hand' \in Events BY Zenon, <2>2, ReceiveThere
    <3>3. stream' = Append(stream, hand') BY <1>3, <3>1, <3>2
    <3>. QED BY Zenon, <1>8, <2>2, <2>3, <3>1, <3>3
  <2>. QED BY Zenon, <1>2, <2>4
<1>12. CASE Apply
  BY Zenon, <1>0, <1>12, ApplyThere DEF Apply, streamVars, routerVars
<1>13. CASE Write
  BY Zenon, <1>0, <1>1, <1>13 DEF Write, Drain, IntervalPasses, PutDone, PutFails,
     PutMeetsStoreFailure, RebuildBucket, RebuildRaises, AnotherRebuilds, UnchangedByWrite,
     relayVars,
     streamVars,
     routerVars
<1>14. CASE Restart \/ Track \/ Untrack \/ ColdStart
  BY Zenon, <1>2, <1>14 DEF Restart, Track, Untrack, ColdStart
<1>15. CASE Subscribe BY Zenon, <1>2, <1>15 DEF Subscribe, RouterFollows
<1>16. CASE WatchBucket
  BY Zenon, <1>0, <1>1, <1>16 DEF WatchBucket, UnchangedByRouter, relayVars, streamVars
<1>17. CASE Seed
  <2>1. UNCHANGED <<relay, hand, started, cursor, stream>>
    BY Zenon, <1>17 DEF Seed, UnchangedByRouter, relayVars, streamVars
  <2>2. UNCHANGED <<sub, exact>> \/ ~exact' BY Zenon, <1>17 DEF Seed, Seeds
  <2>. QED BY Zenon, <1>0, <1>1, <1>2, <2>1, <2>2
<1>18. CASE OnMessage
  <2>1. /\ cursor \in 1 .. Len(stream) /\ cursor' = cursor + 1
        /\ UNCHANGED <<started, stream, lossAt, relay, hand>>
    BY Zenon, <1>18 DEF OnMessage, UnchangedByRouter, relayVars, streamVars
  <2>2. There' = There /\ There \in Caches BY Zenon, <1>1, <2>1, ThereType
  <2>3. CASE sub = None
    BY Zenon, <1>2, <1>18, <2>3 DEF OnMessage, RouterFollows
  <2>4. CASE sub # None
    <3>. DEFINE e == stream[cursor]
                r == SubSeq(stream, cursor, Len(stream))
    <3>1. sub \in Subs /\ e \in Events
      BY Zenon, <1>3, <2>1, <2>4, ElementOfSeq DEF RouterTypeOK
    <3>2. /\ sub' = HandleEvent(sub, e)
          /\ exact' = (exact \/ (e.kind = "cleared" /\ cursor > lossAt))
      BY Zenon, <1>18, <2>4 DEF OnMessage
    <3>3. sub' \in Subs /\ Core(sub') = HandleEvent(Core(sub), e)
      BY Zenon, <3>1, <3>2, HandleCore
    <3>4. sub' # None BY Zenon, <3>3, KvConfig
    <3>5. cursor \in 1 .. Len(stream) + 1 /\ cursor' \in 1 .. Len(stream) + 1 BY <1>3, <2>1
    <3>6. /\ r \in Seq(Events) /\ r # <<>> /\ Head(r) = e
          /\ Tail(r) = SubSeq(stream, cursor', Len(stream))
      BY Zenon, <1>3, <2>1, <3>5, RestOf
    <3>. HIDE DEF e, r
    <3>7. CASE exact
      <4>1. started /\ Leads(Core(sub), r, There) BY Zenon, <3>7 DEF RouterFollows, r
      <4>2. Core(sub) \in Caches BY Zenon, <1>4, <3>1
      <4>3. Leads(HandleEvent(Core(sub), e), Tail(r), There)
        BY Zenon, <2>2, <3>6, <4>1, <4>2, LeadsTail
      <4>. QED BY Zenon, <2>1, <2>2, <3>3, <3>4, <3>5, <3>6, <4>1, <4>3 DEF RouterFollows
    <3>8. CASE e.kind = "cleared" /\ cursor > lossAt
      <4>1. Leads(Empty, SubSeq(stream, cursor', Len(stream)), There)
        BY Zenon, <2>1, <3>8 DEF StreamFollows, e
      <4>2. Core(sub') = Empty BY Zenon, <1>4, <3>1, <3>3, <3>8, HandleIs
      <4>3. started
        <5>1. cursor # 0 BY <2>1
        <5>. QED BY Zenon, <5>1 DEF Reads
      <4>. QED BY Zenon, <2>1, <2>2, <3>4, <3>5, <4>1, <4>2, <4>3 DEF RouterFollows
    <3>. QED BY Zenon, <1>2, <3>2, <3>7, <3>8
  <2>. QED BY Zenon, <2>3, <2>4
<1>. QED
  BY Zenon, <1>5, <1>6, <1>7, <1>9, <1>10, <1>11, <1>12, <1>13, <1>14, <1>15, <1>16, <1>17,
     <1>18
  DEF Next, Loop, Router

-----------------------------------------------------------------------------
(* The theorems                                                            *)

\* At first every variable has its type ...
LEMMA InitTypes ==
    ASSUME Init
    PROVE  /\ EventsTypeOK /\ WritesTypeOK /\ FlagTypeOK /\ BucketTypeOK
           /\ StreamTypeOK /\ RouterTypeOK /\ BudgetTypeOK
<1>1. EventsTypeOK BY DEF Init, EventsTypeOK
<1>2. WritesTypeOK
  <2>1. <<>> \in Seq(Writes) BY Zenon, EmptySeq
  <2>2. Empty \in Caches BY Zenon DEF Empty, Caches
  <2>. QED BY Zenon, <2>1, <2>2 DEF Init, WritesTypeOK
<1>3. FlagTypeOK BY Zenon DEF Init, FlagTypeOK
<1>4. BucketTypeOK
  <2>1. <<>> \in Seq(SUBSET Blocks) OBVIOUS
  <2>. QED BY Zenon, <2>1 DEF Init, BucketTypeOK
<1>5. StreamTypeOK BY DEF Init, StreamTypeOK
<1>6. RouterTypeOK BY Zenon DEF Init, RouterTypeOK
<1>7. BudgetTypeOK
  <2>1. 1 \in Nat OBVIOUS
  <2>. QED BY Zenon, <2>1, KvConfig DEF Init, BudgetTypeOK
<1>. QED BY Zenon, <1>1, <1>2, <1>3, <1>4, <1>5, <1>6, <1>7

\* ... and there is nothing to follow.
LEMMA InitFollows == ASSUME Init PROVE Tracks /\ StreamFollows /\ Reads /\ RouterFollows
<1>1. There = Empty /\ Empty \in Caches BY Zenon DEF Init, There, Empty, Caches
<1>2. Leads(There, wire, Empty) BY Zenon, <1>1, LeadsEmpty DEF Init
<1>3. 1 .. Len(<<>>) = {} OBVIOUS
<1>4. ~ClearSeen BY Zenon, <1>3 DEF Init, ClearSeen
<1>5. Tracks BY Zenon, <1>1, <1>2, <1>4 DEF Tracks
<1>6. StreamFollows BY Zenon, <1>3 DEF Init, StreamFollows
<1>. QED BY Zenon, <1>5, <1>6 DEF Init, Reads, RouterFollows

\* All of it together.
KvInv ==
    /\ EventsTypeOK /\ WriteInv /\ FlagTypeOK /\ BucketTypeOK
    /\ StreamTypeOK /\ RouterTypeOK /\ BudgetTypeOK
    /\ Tracks /\ StreamFollows /\ Reads /\ RouterFollows

\* It holds at first ...
LEMMA InitInv == Init => KvInv
<1>. SUFFICES ASSUME Init PROVE KvInv
  OBVIOUS
<1>1. 1 .. Len(<<>>) = {} /\ ~(Len(<<>>) > 1) OBVIOUS
<1>2. puts = <<>> /\ rebuilding = None /\ hand = None /\ bucket = {} /\ relay = Empty
  BY Zenon DEF Init
<1>3. OnePerWriter /\ OneRebuild BY Zenon, <1>1, <1>2 DEF OnePerWriter, OneRebuild
<1>4. LoopIsCurrent /\ LastIsCurrent BY Zenon, <1>1, <1>2 DEF LoopIsCurrent, LastIsCurrent
<1>5. CleanIsComing
  <2>1. Empty.view = {} BY DEF Empty
  <2>. QED BY Zenon, <1>2, <2>1 DEF CleanIsComing
<1>. QED BY Zenon, <1>3, <1>4, <1>5, InitTypes, InitFollows DEF KvInv, WriteInv

\* ... and every step keeps it.
LEMMA NextInv == KvInv /\ [Next]_vars => KvInv'
<1>. SUFFICES ASSUME KvInv, [Next]_vars PROVE KvInv'
  OBVIOUS
<1>1. /\ EventsTypeOK /\ WritesTypeOK /\ WriteInv /\ FlagTypeOK /\ BucketTypeOK
      /\ StreamTypeOK /\ RouterTypeOK /\ BudgetTypeOK
      /\ Tracks /\ StreamFollows /\ Reads /\ RouterFollows
  BY Zenon DEF KvInv, WriteInv
<1>2. EventsTypeOK' /\ WriteInv' BY Zenon, <1>1, EventsStep, WriteStep
<1>3. FlagTypeOK' /\ BucketTypeOK' BY Zenon, <1>1, FlagStep, BucketStep
<1>4. StreamTypeOK' /\ RouterTypeOK' BY Zenon, <1>1, StreamStep, RouterStep
<1>5. BudgetTypeOK' BY Zenon, <1>1, BudgetStep
<1>6. Tracks' /\ Reads' BY Zenon, <1>1, TracksStep, ReadsStep
<1>7. StreamFollows' BY Zenon, <1>1, <1>4, StreamFollowsStep
<1>8. RouterFollows' BY Zenon, <1>1, RouterFollowsStep
<1>. QED BY Zenon, <1>2, <1>3, <1>4, <1>5, <1>6, <1>7, <1>8 DEF KvInv

\* A relay that has caught up is where the events lead.
LEMMA TracksIs ==
    ASSUME EventsTypeOK, WritesTypeOK, Tracks PROVE RelayTracksEngine
<1>. SUFFICES ASSUME observed, wire = <<>>, hand = None, ~blurred
     PROVE  relay.view = engine /\ relay.map = engine
  BY Zenon DEF RelayTracksEngine
<1>1. There = relay /\ relay \in Caches BY Zenon DEF There, WritesTypeOK
<1>2. ClearSeen BY Zenon DEF ClearSeen
<1>3. PICK d \in Caches : Leads(There, wire, d) /\ d.view = engine /\ d.map = engine
  BY Zenon, <1>2 DEF Tracks
<1>4. d = relay BY Zenon, <1>1, <1>3, LeadsEmpty
<1>. QED BY Zenon, <1>3, <1>4

\* What the router has still to be delivered, replayed, leads it to the relay.
LEMMA FollowsIs ==
    ASSUME EventsTypeOK, WritesTypeOK, StreamTypeOK, RouterTypeOK, RouterFollows
    PROVE  ExactReplay
<1>. SUFFICES ASSUME exact
     PROVE  LET ahead == Replay(sub, SubSeq(stream, cursor, Len(stream)))
            IN  ahead.view = There.view /\ ahead.map = There.map
  BY Zenon DEF ExactReplay, There
<1>. DEFINE q == SubSeq(stream, cursor, Len(stream))
            ahead == Replay(sub, q)
<1>1. /\ sub \in Subs /\ cursor \in 1 .. Len(stream) + 1
      /\ Leads(Core(sub), q, There)
  BY Zenon DEF RouterFollows, RouterTypeOK
<1>2. q \in Seq(Events) BY Zenon, <1>1, RestOf DEF StreamTypeOK
<1>. HIDE DEF q
<1>3. Core(ahead) = There BY Zenon, <1>1, <1>2, ThereType, ReplayLeads
<1>. HIDE DEF ahead
<1>4. Core(ahead).view = ahead.view /\ Core(ahead).map = ahead.map BY DEF Core
<1>5. ahead.view = There.view /\ ahead.map = There.map BY Zenon, <1>3, <1>4
<1>. QED BY Zenon, <1>5 DEF ahead, q

\* Engine, relay, broker and router keep to the types of KvView: no event,
\* write or subscription of another shape, no place outside the stream.
THEOREM TypeCorrect == Spec => []TypeOK
<1>1. ASSUME KvInv PROVE TypeOK
  <2>1. EventsTypeOK /\ WritesTypeOK /\ StreamTypeOK /\ BudgetTypeOK
    BY Zenon, <1>1 DEF KvInv, WriteInv
  <2>2. FlagTypeOK /\ BucketTypeOK /\ RouterTypeOK BY Zenon, <1>1 DEF KvInv
  <2>3. {attached, blurred, flushed, observed, looping, dirty, due, kvHealed, healed, started,
         exact} \subseteq BOOLEAN
    BY Zenon, <2>2 DEF FlagTypeOK, BucketTypeOK, RouterTypeOK
  <2>4. /\ engine \subseteq Blocks /\ bucket \subseteq Blocks /\ feed \in Seq(SUBSET Blocks)
        /\ phase \in {"launched", "anchoring", "flushing", "registered"}
        /\ sub \in Subs \cup {None} /\ watch \in {"no", "live", "dead"}
        /\ stale \in {"no", "restart", "heal", "shared"}
    BY Zenon, <2>2 DEF FlagTypeOK, BucketTypeOK, RouterTypeOK
  <2>. QED
    BY Zenon, <2>1, <2>3, <2>4 DEF EventsTypeOK, WritesTypeOK, StreamTypeOK, BudgetTypeOK,
                                   TypeOK
<1>. QED BY <1>1, InitInv, NextInv, PTL DEF Spec

\* However _loop and _drain_dirty interleave, whatever writes fail and
\* whenever the bucket is rebuilt, a view that is clean with no write on its
\* way is in the bucket, but for the three cases stale names: a restart, the retry
\* after a rebuild, and another worker's rebuild of the bucket they share.
THEOREM CleanViewIsInBucket == Spec => []CleanIsWritten
<1>1. KvInv => CleanIsWritten BY DEF KvInv, WriteInv, CleanIsComing, CleanIsWritten
<1>. QED BY <1>1, InitInv, NextInv, PTL DEF Spec

\* anchor_kv_chain: whatever was cached before the relay was attached and
\* whichever flushes were lost or refused, a relay that has observed a clear
\* and caught up holds what the engine holds, until a block is announced with
\* lengths that do not agree.
THEOREM RelayHoldsEngine == Spec => []RelayTracksEngine
<1>1. KvInv => RelayTracksEngine BY Zenon, TracksIs DEF KvInv, WriteInv
<1>. QED BY <1>1, InitInv, NextInv, PTL DEF Spec

\* _on_message: whatever restarts, is lost or is seeded from the bucket, a
\* router that has applied a clear after the last loss, and all that followed
\* it, is behind the relay by exactly the messages still to come.
THEOREM RouterReplays == Spec => []ExactReplay
<1>1. KvInv => ExactReplay BY Zenon, FollowsIs DEF KvInv, WriteInv
<1>. QED BY <1>1, InitInv, NextInv, PTL DEF Spec
=============================================================================
