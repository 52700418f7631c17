------------------------- MODULE TaskProtocolProofs -------------------------
(***************************************************************************)
(* The protocol of TaskAttempt: every step of a thread, of the monitor, of *)
(* the scheduler and of the CLI keeps what the attempts, the records they  *)
(* put and the monitor that reads them know of each other (the definitions *)
(* are in TaskInvariants).  TaskOutcomeProofs builds its theorems on it.   *)
(***************************************************************************)
EXTENDS TaskInvariants, TLAPS

\* Where the three steps that seal go, and what they leave alone.
LEMMA SealFrame ==
  ASSUME NEW a, Seal(a) \/ Reject(a) \/ Exit(a)
  PROVE  /\ Seal(a) => Goto(a, "done") \/ Goto(a, "crash")
         /\ Reject(a) => Goto(a, "exit") \/ Goto(a, "crash")
         /\ Exit(a) => Goto(a, "none")
         /\ holds' = [holds EXCEPT ![a] = FALSE]
         /\ UNCHANGED <<scheduler, stored, sealed, current, halted, woken, monitor, todo>>
<1>1. ASSUME NEW p, NEW k, NEW l, SealAs(a, p, k, l)
      PROVE  /\ Goto(a, k) \/ Goto(a, l)
             /\ holds' = [holds EXCEPT ![a] = FALSE]
             /\ UNCHANGED <<scheduler, stored, sealed, current, halted, woken, monitor, todo>>
  BY Zenon, <1>1 DEF SealAs
<1> QED BY Zenon, <1>1 DEF Seal, Reject, Exit

\* A launch that fails leaves the attempt in the map that was there, or one that
\* it has counted.
LEMMA FailsFrame ==
  ASSUME NEW t \in Tasks, LaunchFails(t)
  PROVE  \E pushed \in BOOLEAN :
            /\ AbortLaunch(t, pushed)
            /\ UNCHANGED current \/ (pushed /\ current' = [current EXCEPT ![t] = tries'[t]])
  BY Zenon DEF LaunchFails

\* What a queue holds after a record is put.
LEMMA AppendItems ==
  ASSUME NEW S, NEW q \in Seq(S), NEW r \in S
  PROVE  /\ \A i \in DOMAIN q : i \in DOMAIN Append(q, r) /\ Append(q, r)[i] = q[i]
         /\ \E k \in DOMAIN Append(q, r) :
               /\ k \notin DOMAIN q /\ Append(q, r)[k] = r
               /\ \A i \in DOMAIN Append(q, r) : i = k \/ i \in DOMAIN q
<1>1. \A i \in DOMAIN q : i \in DOMAIN Append(q, r) /\ Append(q, r)[i] = q[i]
  OBVIOUS
<1> DEFINE k == Len(q) + 1
<1>2. k \in DOMAIN Append(q, r) /\ k \notin DOMAIN q /\ Append(q, r)[k] = r
  OBVIOUS
<1>3. \A i \in DOMAIN Append(q, r) : i = k \/ i \in DOMAIN q
  OBVIOUS
<1> QED BY Zenon, <1>1, <1>2, <1>3

\* A record at the end of the queue, whether or not it is one of the attempt.
LEMMA AppendHas ==
  ASSUME NEW S, NEW q \in Seq(S), NEW r \in S, NEW t, NEW n, NEW s
  PROVE  /\ Has(Append(q, r), t, n) <=> Has(q, t, n) \/ Reports(r, t, n)
         /\ Once(q, t, n) /\ ~(Has(q, t, n) /\ Reports(r, t, n)) => Once(Append(q, r), t, n)
         /\ Says(q, t, n, s) /\ (Reports(r, t, n) => r.phase = s) => Says(Append(q, r), t, n, s)
<1> DEFINE p == Append(q, r)
<1>1. /\ \A i \in DOMAIN q : i \in DOMAIN p /\ p[i] = q[i]
      /\ \E k \in DOMAIN p : /\ k \notin DOMAIN q /\ p[k] = r
                             /\ \A i \in DOMAIN p : i = k \/ i \in DOMAIN q
  BY Zenon, AppendItems
<1> HIDE DEF p
<1>2. Has(p, t, n) <=> Has(q, t, n) \/ Reports(r, t, n)
  BY Zenon, <1>1 DEF Has
<1>3. Once(q, t, n) /\ ~(Has(q, t, n) /\ Reports(r, t, n)) => Once(p, t, n)
  BY Zenon, <1>1 DEF Has, Once
<1>4. Says(q, t, n, s) /\ (Reports(r, t, n) => r.phase = s) => Says(p, t, n, s)
  BY Zenon, <1>1 DEF Says
<1> QED BY Zenon, <1>2, <1>3, <1>4 DEF p

\* What a queue holds after a record is taken.
LEMMA TailItems ==
  ASSUME NEW S, NEW q \in Seq(S), q # <<>>
  PROVE  /\ Head(q) \in S /\ Tail(q) \in Seq(S) /\ 1 \in DOMAIN q /\ q[1] = Head(q)
         /\ \A i \in DOMAIN Tail(q) : i + 1 \in DOMAIN q /\ Tail(q)[i] = q[i + 1] /\ i + 1 # 1
         /\ \A i, j \in DOMAIN Tail(q) : i + 1 = j + 1 => i = j
         /\ \A i \in DOMAIN q : i # 1 => i - 1 \in DOMAIN Tail(q) /\ Tail(q)[i - 1] = q[i]
  OBVIOUS

\* The record at the head leaves the queue, whether or not it is one of the attempt.
LEMMA TailHas ==
  ASSUME NEW S, NEW q \in Seq(S), q # <<>>, NEW t, NEW n, NEW s
  PROVE  /\ Has(Tail(q), t, n) => Has(q, t, n)
         /\ Has(q, t, n) => Has(Tail(q), t, n) \/ Reports(Head(q), t, n)
         /\ Once(q, t, n) /\ Reports(Head(q), t, n) => ~Has(Tail(q), t, n)
         /\ Once(q, t, n) => Once(Tail(q), t, n)
         /\ Says(q, t, n, s) => Says(Tail(q), t, n, s)
<1> DEFINE p == Tail(q)
<1>1. /\ 1 \in DOMAIN q /\ q[1] = Head(q)
      /\ \A i \in DOMAIN p : i + 1 \in DOMAIN q /\ p[i] = q[i + 1] /\ i + 1 # 1
      /\ \A i, j \in DOMAIN p : i + 1 = j + 1 => i = j
      /\ \A i \in DOMAIN q : i # 1 => i - 1 \in DOMAIN p /\ p[i - 1] = q[i]
  BY Zenon, TailItems
<1> HIDE DEF p
<1>2. Has(p, t, n) => Has(q, t, n)
  BY Zenon, <1>1 DEF Has
<1>3. Has(q, t, n) => Has(p, t, n) \/ Reports(Head(q), t, n)
  BY Zenon, <1>1 DEF Has
<1>4. Once(q, t, n) /\ Reports(Head(q), t, n) => ~Has(p, t, n)
  BY Zenon, <1>1 DEF Has, Once
<1>5. Once(q, t, n) => Once(p, t, n)
  BY Zenon, <1>1 DEF Once
<1>6. Says(q, t, n, s) => Says(p, t, n, s)
  <2> SUFFICES ASSUME Says(q, t, n, s), NEW i \in DOMAIN p, Reports(p[i], t, n)
               PROVE  p[i].phase = s
    BY Zenon DEF Says
  <2>1. i + 1 \in DOMAIN q /\ p[i] = q[i + 1]
    BY Zenon, <1>1
  <2> QED BY Zenon, <2>1 DEF Says
<1> QED BY Zenon, <1>2, <1>3, <1>4, <1>5, <1>6 DEF p

\* The records of a queue that grows or shrinks.
LEMMA QueueItems ==
  ASSUME NEW S, NEW q \in Seq(S)
  PROVE  /\ \A r \in S : Items(Append(q, r)) = Items(q) \cup {r}
         /\ q # <<>> => Head(q) \in Items(q) /\ Items(Tail(q)) \subseteq Items(q)
<1>1. ASSUME NEW r \in S PROVE Items(Append(q, r)) = Items(q) \cup {r}
  <2> DEFINE p == Append(q, r)
  <2>1. /\ \A i \in DOMAIN q : i \in DOMAIN p /\ p[i] = q[i]
        /\ \E k \in DOMAIN p : /\ k \notin DOMAIN q /\ p[k] = r
                               /\ \A i \in DOMAIN p : i = k \/ i \in DOMAIN q
    BY Zenon, AppendItems
  <2> HIDE DEF p
  <2>2. Items(p) = Items(q) \cup {r}
    BY Zenon, <2>1 DEF Items
  <2> QED BY Zenon, <2>2 DEF p
<1>2. ASSUME q # <<>> PROVE Head(q) \in Items(q) /\ Items(Tail(q)) \subseteq Items(q)
  <2> DEFINE p == Tail(q)
  <2>1. /\ 1 \in DOMAIN q /\ q[1] = Head(q)
        /\ \A i \in DOMAIN p : i + 1 \in DOMAIN q /\ p[i] = q[i + 1]
    BY Zenon, <1>2, TailItems
  <2> HIDE DEF p
  <2>2. Head(q) \in Items(q)
    BY Zenon, <2>1 DEF Items
  <2>3. ASSUME NEW i \in DOMAIN p PROVE p[i] \in Items(q)
    <3>1. i + 1 \in DOMAIN q /\ p[i] = q[i + 1]
      BY Zenon, <2>1
    <3> QED BY Zenon, <3>1 DEF Items
  <2>4. Items(p) \subseteq Items(q)
    BY Zenon, <2>3 DEF Items
  <2> QED BY Zenon, <2>2, <2>4 DEF p
<1> QED BY Zenon, <1>1, <1>2
\* A step that leaves a task and its attempt where they are keeps the protocol.
LEMMA CalmFollows ==
  ASSUME NEW u \in Tasks, Follows(u), Calm(u)
  PROVE  Follows(u)'
<1>1. Me(u)' = Me(u)
  BY Zenon DEF Me, Calm
<1>2. Published(u) => Published(u)'
  BY Zenon DEF Published, Calm
<1>3. Busy(u)' <=> Busy(u)
  BY Zenon DEF Busy, Calm, IsLeaf, Children
<1>4. Place(u)'
  BY ZenonT(30), <1>1, <1>2, <1>3 DEF Follows, Place, Calm, IsLeaf, Children
<1> QED BY Zenon, <1>4 DEF Follows, Calm
\* So does one that leaves the attempt, its records and the hand alone, where the
\* task was in a phase before.
LEMMA RestsFollow ==
  ASSUME NEW u \in Tasks, Steady(u) => Follows(u), Steady(u)',
         status'[u] \in Phases => status'[u] = status[u], Keeps(u),
         ThreadRests(u), QueueRests(u), HandRests(u), stored \subseteq stored'
  PROVE  Follows(u)'
<1>1. status'[u] = status[u]
  BY Zenon DEF Steady
<1>2. Steady(u)
  BY Zenon, <1>1 DEF Steady, Keeps, ThreadRests
<1>3. Calm(u)
  BY Zenon, <1>1 DEF Calm, Keeps, ThreadRests, QueueRests, HandRests, Own
<1> QED BY Zenon, <1>2, <1>3, CalmFollows

\* No record was put or taken.
LEMMA UnchangedQueue ==
  ASSUME NEW u \in Tasks, UNCHANGED planned
  PROVE  QueueRests(u)
  BY Zenon DEF QueueRests

\* The monitor did nothing.
LEMMA UnchangedHand ==
  ASSUME NEW u \in Tasks, UNCHANGED mon, current'[u] = current[u]
  PROVE  HandRests(u)
  BY Zenon DEF HandRests, InHand

\* A note on a task.
LEMMA NoteKeeps ==
  ASSUME WhyType, NEW t \in Tasks, NEW reason \in Reasons, reason # "", Note(t, reason)
  PROVE  /\ \A u \in Tasks : Keeps(u) /\ (u # t => why'[u] = why[u])
         /\ why'[t] # ""
         /\ reason \in {"stale", "raced"} => Hurried(t)'
         /\ why[t] = "raced" => why'[t] = "raced"
         /\ why'[t] = "raced" => why[t] = "raced" \/ reason = "raced"
<1>1. \A u \in Tasks : u # t => why'[u] = why[u]
  BY Zenon DEF Note, WhyType
<1>2. why'[t] = IF why[t] = "" \/ reason = "raced" \/ (reason = "stale" /\ why[t] # "raced")
                THEN reason ELSE why[t]
  BY Zenon DEF Note, WhyType
<1> QED BY Zenon, <1>1, <1>2 DEF Keeps, Hurried

\* No note.
LEMMA NoNoteKeeps ==
  ASSUME UNCHANGED why
  PROVE  \A u \in Tasks : Keeps(u)
  BY Zenon DEF Keeps, Hurried

\* _try_dispatch changes the status of tasks that wait, to one of those that wait.
LEMMA Lands ==
  ASSUME NEW st \in [Tasks -> Statuses], TryDispatch(st)
  PROVE  \A u \in Tasks : status'[u] = st[u] \/ (st[u] \in Waiting /\ status'[u] \in Waiting)
  BY Zenon DEF TryDispatch, Landing, Waiting

\* _try_dispatch after the status of one task was set.
LEMMA LandsBut ==
  ASSUME PoolType, NEW t \in Tasks, NEW s \in Statuses, TryDispatch([status EXCEPT ![t] = s])
  PROVE  /\ \A u \in Tasks : u # t => Rests(u)
         /\ status'[t] = s \/ (s \in Waiting /\ status'[t] \in Waiting)
<1> DEFINE st == [status EXCEPT ![t] = s]
<1>1. st \in [Tasks -> Statuses] /\ st[t] = s /\ \A u \in Tasks : u # t => st[u] = status[u]
  BY Zenon DEF PoolType
<1>2. TryDispatch(st)
  BY Zenon
<1> HIDE DEF st
<1> QED BY Zenon, <1>1, <1>2, Lands DEF Rests

\* submit and resume_task.
LEMMA SubmitRests ==
  ASSUME PoolType, NEW t \in Tasks, Submit(t) \/ ResumeTask(t)
  PROVE  (\A u \in Tasks : u # t => Rests(u)) /\ status'[t] \in Waiting
<1>1. "waiting_handoff" \in Statuses /\ "waiting_handoff" \in Waiting
  BY Zenon DEF Statuses, Waiting
<1> QED BY Zenon, <1>1, LandsBut DEF Submit, ResumeTask

\* on_task_done.
LEMMA DoneRests ==
  ASSUME PoolType, NEW t \in Tasks, NEW s \in {"succeeded", "failed"}, NEW used,
         OnTaskDone(t, s, used)
  PROVE  /\ \A u \in Tasks : u # t => Rests(u)
         /\ Accepts(t) => status'[t] = s
         /\ ~Accepts(t) => status'[t] = status[t]
<1>1. s \in Statuses /\ s \notin Waiting
  BY Zenon DEF Statuses, Waiting, Resumable
<1>2. CASE Accepts(t)
  BY Zenon, <1>1, <1>2, LandsBut DEF OnTaskDone
<1>3. CASE ~Accepts(t)
  BY Zenon, <1>3 DEF OnTaskDone, Rests
<1> QED BY Zenon, <1>2, <1>3

\* stop.
LEMMA StopRests ==
  ASSUME PoolType, NEW t \in Tasks, Stop(t) \/ StopRaises(t)
  PROVE  (\A u \in Tasks : u # t => Rests(u)) /\ status'[t] \in {"suspended", "stopping"}
<1>1. "suspended" \in Statuses /\ "suspended" \notin Waiting
  BY Zenon DEF Statuses, Waiting, Resumable
<1>2. CASE status' = [status EXCEPT ![t] = "stopping"]
  BY Zenon, <1>2 DEF PoolType, Rests
<1>3. CASE TryDispatch([status EXCEPT ![t] = "suspended"])
  BY Zenon, <1>1, <1>3, LandsBut
<1> QED BY Zenon, <1>2, <1>3 DEF Stop, StopRaises

\* A look of the dispatch pass that launches nothing.
LEMMA LookRests ==
  ASSUME PoolType, NEW t \in Tasks, NEW pushed \in BOOLEAN,
         PassOver(t) \/ Demote(t) \/ AbortLaunch(t, pushed)
  PROVE  /\ \A u \in Tasks : u # t => Rests(u)
         /\ Rests(t) \/ (status[t] \in Waiting /\ status'[t] = "failed")
  BY Zenon DEF PassOver, Demote, AbortLaunch, Eligible, PoolType, Rests, Waiting

\* A task in a phase neither waits nor is over.
LEMMA PhasesAreNot ==
  /\ \A s \in Waiting \cup {"succeeded", "failed", "suspended", "stopping"} : s \notin Phases
  /\ "absent" \notin Phases /\ "absent" \notin Waiting
  BY Zenon DEF Phases, Waiting
\* What a step beside the status and the monitor leaves of what they are.
LEMMA BesideFrame ==
  ASSUME NEW t \in Tasks, Beside(t)
  PROVE  /\ Me(t)' = Me(t) /\ status'[t] = status[t] /\ mon' = mon
         /\ InHand(t)' <=> InHand(t)
         /\ Busy(t)' <=> Busy(t)
         /\ IsLeaf(t)' <=> IsLeaf(t)
         /\ Published(t) => Published(t)'
         /\ why[t] # "" => why'[t] # ""
<1>1. Me(t)' = Me(t) /\ (IsLeaf(t)' <=> IsLeaf(t))
  BY Zenon DEF Me, Beside, IsLeaf, Children
<1>2. (InHand(t)' <=> InHand(t)) /\ (Published(t) => Published(t)')
  BY Zenon DEF InHand, Published, Beside
<1>3. Busy(t)' <=> Busy(t)
  BY Zenon, <1>1, <1>2 DEF Busy, Beside
<1> QED BY Zenon, <1>1, <1>2, <1>3 DEF Beside, Keeps

\* And of the records, when none is put.
LEMMA BesideQueue ==
  ASSUME NEW t \in Tasks, Beside(t), UNCHANGED planned
  PROVE  /\ Own(t)' <=> Own(t)
         /\ Once(planned, t, current[t]) => Once(planned, t, current[t])'
         /\ Says(planned, t, current[t], status[t]) => Says(planned, t, current[t], status[t])'
  BY Zenon DEF Beside, Own

\* The thread goes on, without a record.
LEMMA GoesOn ==
  ASSUME ThreadType, NEW t \in Tasks, Follows(t), Beside(t), UNCHANGED planned,
         Me(t) \in Attempts,
         UNCHANGED <<halted, woken>>, NEW l, pc' = [pc EXCEPT ![Me(t)] = l],
         ~Own(t) \/ l = "crash" \/ (pc[Me(t)] = "seal" /\ l = "done"),
         pc[Me(t)] # "park", l # "park",
         l \in {"exit", "none"} => halted[Me(t)] \/ why'[t] # "",
         l \notin {"exit", "none"} => ~halted[Me(t)],
         l = "input" => status[t] = "input_validating",
         l = "main" => status[t] = "running" \/ (~IsLeaf(t) /\ status[t] = "output_validating"),
         l \in {"body", "gate"} => IsLeaf(t) /\ status[t] = "running",
         l \in {"output", "seal", "done", "reject"} => status[t] = "output_validating",
         l \in {"gate", "reject"} => why'[t] # ""
  PROVE  Follows(t)'
<1>1. pc'[Me(t)] = l /\ halted' = halted /\ woken' = woken
  BY Zenon DEF ThreadType
<1>2. Place(t)
  BY Zenon DEF Follows
<1>3. ~Busy(t) /\ ~(woken[Me(t)] /\ IsLeaf(t))
  BY Zenon, <1>2 DEF Place
<1>4. Own(t) => status[t] = "output_validating"
  BY Zenon, <1>2 DEF Place
<1>5. /\ InHand(t) => status[t] = IF mon.at = "move" THEN mon.from ELSE Successor(mon.from)
      /\ halted[Me(t)] => ~IsLeaf(t) /\ status[t] # "input_validating"
      /\ woken[Me(t)] => status[t] # "input_validating"
  BY Zenon, <1>2 DEF Place
<1> HIDE DEF Place
<1>6. Place(t)'
  BY Zenon, <1>1, <1>3, <1>4, <1>5, BesideFrame, BesideQueue DEF Place
<1> QED BY Zenon, <1>6, BesideFrame, BesideQueue DEF Follows

\* The thread puts the record of a phase, and waits for the monitor or, after
\* the last phase, goes on to the seal.
LEMMA Reported ==
  ASSUME ThreadType, MonitorType, PoolType, NEW t \in Tasks, Follows(t), Beside(t),
         Me(t) \in Attempts, UNCHANGED <<halted, woken>>, NEW l \in {"park", "seal"},
         ReportPlanned(Me(t), l), ~closing,
         ~Own(t), pc[Me(t)] # "park", ~halted[Me(t)],
         l = "seal" => status[t] = "output_validating",
         l = "park" => /\ ~woken[Me(t)]
                       /\ status[t] = "input_validating"
                          \/ (status[t] = "running" /\ IsLeaf(t) /\ Published(t)')
  PROVE  Follows(t)'
<1> DEFINE r == [kind |-> "phase_done", task |-> t, attempt |-> current[t], phase |-> status[t]]
<1>1. Me(t)[1] = t /\ Me(t)[2] = current[t] /\ current[t] \in 1 .. MaxAttempts
  BY Zenon DEF Me, Attempts
<1>2. planned' = Append(planned, r) /\ pc' = [pc EXCEPT ![Me(t)] = l]
  BY Zenon, <1>1 DEF ReportPlanned, Goto
<1>3. status[t] \in Statuses
  BY Zenon DEF PoolType
<1>4. r \in Records
  BY Zenon, <1>1, <1>3 DEF Records
<1>5. Reports(r, t, current[t]) /\ r.phase = status[t]
  BY Zenon DEF Reports
<1>6. planned \in Seq(Records)
  BY Zenon DEF MonitorType
<1> HIDE DEF r
<1>7. /\ Has(planned', t, current[t])
      /\ Once(planned', t, current[t])
      /\ Says(planned', t, current[t], status[t])
  BY Zenon, <1>2, <1>4, <1>5, <1>6, AppendHas DEF Follows, Own
<1>8. Own(t)'
  BY Zenon, <1>7 DEF Own, Beside
<1>9. pc'[Me(t)] = l /\ halted' = halted /\ woken' = woken
  BY Zenon, <1>2 DEF ThreadType
<1>10. Place(t)
  BY Zenon DEF Follows
<1>11. ~Busy(t) /\ (woken[Me(t)] => status[t] # "input_validating" /\ ~IsLeaf(t))
  BY Zenon, <1>10 DEF Place
<1>12. InHand(t) => status[t] = IF mon.at = "move" THEN mon.from ELSE Successor(mon.from)
  BY Zenon, <1>10 DEF Place
<1>13. Place(t)'
  BY Zenon, <1>8, <1>9, <1>11, <1>12, BesideFrame DEF Place
<1> QED BY Zenon, <1>7, <1>13 DEF Follows, Beside

\* A monitor that was told to stop kills the thread.
LEMMA ReportedClosing ==
  ASSUME ThreadType, NEW t \in Tasks, Follows(t), Beside(t),
         Me(t) \in Attempts, UNCHANGED <<halted, woken>>, NEW l,
         ReportPlanned(Me(t), l), closing, ~halted[Me(t)], pc[Me(t)] # "park"
  PROVE  Follows(t)'
<1>1. UNCHANGED planned /\ pc' = [pc EXCEPT ![Me(t)] = "crash"]
  BY Zenon DEF ReportPlanned, Goto
<1> QED BY Zenon, <1>1, GoesOn

\* A thread that reports a refusal goes on from a place where it may.
LEMMA Refused ==
  ASSUME ThreadType, WhyType, NEW t \in Tasks, Follows(t), Beside(t),
         Me(t) \in Attempts, UNCHANGED <<halted, woken>>, NEW l \in {"exit", "gate", "reject"},
         ReportRefusal(Me(t), l), ~halted[Me(t)], pc[Me(t)] # "park", ~Own(t),
         l = "gate" => IsLeaf(t) /\ status[t] = "running",
         l = "reject" => status[t] = "output_validating"
  PROVE  Follows(t)'
<1>1. UNCHANGED planned /\ pc' = [pc EXCEPT ![Me(t)] = IF closing THEN "crash" ELSE l]
  BY Zenon DEF ReportRefusal, Goto, monitor
<1>2. Me(t)[1] = t /\ "refused" \in Reasons /\ "refused" # ""
  BY Zenon DEF Me, Reasons
<1>3. why'[t] # ""
  BY Zenon, <1>2, NoteKeeps DEF ReportRefusal
<1>4. CASE closing
  BY Zenon, <1>1, <1>4, GoesOn
<1>5. CASE ~closing
  BY Zenon, <1>1, <1>3, <1>5, GoesOn
<1> QED BY Zenon, <1>4, <1>5

\* A thread that raises has something wrong.
LEMMA Raised ==
  ASSUME ThreadType, NEW t \in Tasks, Follows(t), Beside(t),
         Me(t) \in Attempts, UNCHANGED <<halted, woken>>,
         Raise(Me(t)), ~halted[Me(t)], pc[Me(t)] # "park"
  PROVE  Follows(t)'
<1>1. UNCHANGED planned /\ pc' = [pc EXCEPT ![Me(t)] = "crash"]
  BY Zenon DEF Raise, Goto, monitor
<1> QED BY Zenon, <1>1, GoesOn

\* What no thread touches.
LEMMA ThreadFrame ==
  ASSUME WhyType, NEW a \in Attempts, Thread(a)
  PROVE  /\ UNCHANGED <<current, mon, closing, todo, tries>> /\ stored \subseteq stored'
         /\ \A u \in Tasks : Keeps(u)
<1>0. a[1] \in Tasks
  BY Zenon DEF Attempts
<1>1. ASSUME NEW reason \in {"refused", "stale", "hollow"}, Note(a[1], reason)
      PROVE  \A u \in Tasks : Keeps(u)
  <2>1. reason \in Reasons /\ reason # ""
    BY Zenon, <1>1 DEF Reasons
  <2> QED BY Zenon, <1>0, <1>1, <2>1, NoteKeeps
<1>2. UNCHANGED why => \A u \in Tasks : Keeps(u)
  BY Zenon, NoNoteKeeps
<1>3. ASSUME NEW l, ReportPlanned(a, l) PROVE (\A u \in Tasks : Keeps(u)) /\ UNCHANGED <<mon, closing>>
  BY Zenon, <1>1, <1>2, <1>3 DEF ReportPlanned
<1>4. ASSUME NEW l, ReportRefusal(a, l) PROVE (\A u \in Tasks : Keeps(u)) /\ UNCHANGED <<mon, closing>>
  BY Zenon, <1>1, <1>4 DEF ReportRefusal, monitor
<1>5. Raise(a) => (\A u \in Tasks : Keeps(u)) /\ UNCHANGED <<mon, closing>>
  BY Zenon, <1>2 DEF Raise, monitor
<1>6. CASE Loop(a) \/ MainReleases(a) \/ Awake(a) \/ Exit(a)
  BY Zenon, <1>2, <1>6, SealFrame DEF Loop, MainReleases, Awake, Exit, files, monitor, cli,
                                      scheduler
<1>7. CASE Input(a) \/ Output(a)
  BY Zenon, <1>3, <1>4, <1>7 DEF Input, Output, files, cli, scheduler
<1>8. CASE MainOpens(a)
  BY Zenon, <1>1, <1>2, <1>5, <1>8 DEF MainOpens, monitor, cli, scheduler
<1>9. CASE Body(a)
  <2>1. UNCHANGED <<current, todo, tries>> /\ stored \subseteq stored'
    BY Zenon, <1>9 DEF Body, scheduler
  <2>2. (\A u \in Tasks : Keeps(u)) /\ UNCHANGED <<mon, closing>>
    BY Zenon, <1>2, <1>3, <1>4, <1>5, <1>9 DEF Body, monitor
  <2> QED BY Zenon, <2>1, <2>2
<1>10. CASE Seal(a) \/ Reject(a)
  BY Zenon, <1>1, <1>2, <1>10, SealFrame DEF Seal, Reject, monitor, scheduler
<1>11. CASE Done(a) \/ Crash(a)
  BY Zenon, <1>1, <1>2, <1>11 DEF Done, Crash, OnTaskDone, files, monitor, cli
<1> QED BY Zenon, <1>6, <1>7, <1>8, <1>9, <1>10, <1>11 DEF Thread

\* Only on_done and the crash handler touch a status.
LEMMA ThreadStatus ==
  ASSUME NEW a \in Attempts, Thread(a), pc[a] \notin {"done", "crash"}
  PROVE  UNCHANGED <<status, open>>
  BY Zenon, SealFrame DEF Thread, Loop, Input, MainReleases, MainOpens, Body, Awake, Output,
     Done, Crash, scheduler

\* Each step of the thread of the current attempt keeps the protocol.
LEMMA OwnThread ==
  ASSUME PoolType, ThreadType, MonitorType, WhyType, Opens, NEW t \in Tasks,
         Steady(t), Follows(t), Thread(Me(t)), Steady(t)'
  PROVE  Follows(t)'
<1> DEFINE a == Me(t)
<1>0. a \in Attempts /\ a[1] = t /\ a[2] = current[t]
  BY DEF Me, Attempts, Steady, ThreadType
<1>1. Place(t)
  BY Zenon DEF Follows
<1>2. /\ UNCHANGED <<current, mon, closing>> /\ stored \subseteq stored'
      /\ Keeps(t)
  BY Zenon, <1>0, ThreadFrame
<1>3. status'[t] = status[t] => Beside(t)
  BY Zenon, <1>2 DEF Beside
<1>4. pc[a] \notin {"done", "crash"} => Beside(t)
  BY Zenon, <1>0, <1>3, ThreadStatus
<1>5. halted[a] => pc[a] \in {"exit", "none"}
  BY Zenon, <1>1 DEF Place
<1>6. CASE Loop(a)
  <2>1. pc[a] = "loop" /\ UNCHANGED <<halted, woken, planned>>
    BY Zenon, <1>6 DEF Loop, monitor
  <2>2. ~halted[a] /\ ~Own(t)
    BY Zenon, <1>1, <1>5, <2>1 DEF Place
  <2> DEFINE l == CASE status[t] = "input_validating" -> "input" [] status[t] = "running" -> "main"
                    [] OTHER -> "output"
  <2>3. pc' = [pc EXCEPT ![a] = l]
    BY <1>0, <1>6, <2>2 DEF Loop, Goto, Steady, Phases
  <2>4. /\ l = "input" => status[t] = "input_validating"
        /\ l = "main" => status[t] = "running"
        /\ l = "output" => status[t] = "output_validating"
        /\ l \in {"input", "main", "output"}
    BY Zenon DEF Steady, Phases
  <2>5. Beside(t)
    BY Zenon, <1>4, <2>1
  <2> HIDE DEF l
  <2> QED BY Zenon, <1>0, <2>1, <2>2, <2>3, <2>4, <2>5, GoesOn
<1>7. CASE Input(a)
  <2>1. pc[a] = "input" /\ UNCHANGED <<halted, woken>>
    BY Zenon, <1>7 DEF Input
  <2>2. ~halted[a] /\ ~Own(t) /\ status[t] = "input_validating" /\ ~woken[a]
    BY Zenon, <1>1, <1>5, <2>1 DEF Place
  <2>3. Beside(t) /\ pc[a] # "park"
    BY Zenon, <1>4, <2>1
  <2>4. CASE ReportPlanned(a, "park") /\ ~closing
    <3>1. "park" # "seal" /\ "park" \in {"park", "seal"}
      BY Zenon
    <3> QED BY Zenon, <1>0, <2>1, <2>2, <2>3, <2>4, <3>1, Reported
  <2>5. CASE ReportPlanned(a, "park") /\ closing
    BY Zenon, <1>0, <2>1, <2>2, <2>3, <2>5, ReportedClosing
  <2>6. CASE ReportRefusal(a, "exit")
    <3>1. "exit" \in {"exit", "gate", "reject"} /\ "exit" # "gate" /\ "exit" # "reject"
      BY Zenon
    <3> QED BY Zenon, <1>0, <2>1, <2>2, <2>3, <2>6, <3>1, Refused
  <2> QED BY Zenon, <1>7, <2>4, <2>5, <2>6 DEF Input
<1>8. CASE MainReleases(a)
  <2>1. /\ pc[a] = "main" /\ ~IsLeaf(t) /\ UNCHANGED planned
        /\ pc'[a] = "exit" /\ halted'[a] = TRUE /\ woken'[a] = TRUE
    BY Zenon, <1>0, <1>8 DEF MainReleases, Goto, ThreadType, monitor
  <2>2. ~Own(t) /\ status[t] # "input_validating" /\ ~Busy(t)
        /\ (InHand(t) => status[t] = IF mon.at = "move" THEN mon.from ELSE Successor(mon.from))
    BY Zenon, <1>1, <2>1 DEF Place
  <2>3. Beside(t)
    BY Zenon, <1>4, <2>1
  <2>4. Place(t)'
    BY Zenon, <2>1, <2>2, <2>3, BesideFrame, BesideQueue DEF Place
  <2> QED BY Zenon, <2>1, <2>3, <2>4, BesideFrame, BesideQueue DEF Follows
<1>9. CASE MainOpens(a)
  <2>1. pc[a] = "main" /\ IsLeaf(t) /\ UNCHANGED <<halted, woken, planned>>
    BY Zenon, <1>0, <1>9 DEF MainOpens, Raise, monitor
  <2>2. ~halted[a] /\ ~Own(t) /\ status[t] = "running"
    BY Zenon, <1>1, <1>5, <2>1 DEF Place
  <2>3. Beside(t)
    BY Zenon, <1>4, <2>1
  <2>4. \E l \in {"body", "crash"} : pc' = [pc EXCEPT ![a] = l]
    BY Zenon, <1>9 DEF MainOpens, Raise, Goto
  <2> QED BY Zenon, <1>0, <2>1, <2>2, <2>3, <2>4, GoesOn
<1>10. CASE Body(a)
  <2>1. pc[a] = "body" /\ UNCHANGED <<halted, woken>>
    BY Zenon, <1>10 DEF Body
  <2>2. ~halted[a] /\ ~Own(t) /\ status[t] = "running" /\ IsLeaf(t) /\ ~woken[a]
    BY Zenon, <1>1, <1>5, <2>1 DEF Place
  <2>3. Beside(t) /\ pc[a] # "park"
    BY Zenon, <1>4, <2>1
  <2>4. CASE ReportPlanned(a, "park") /\ ~closing /\ Published(t)'
    <3>1. "park" # "seal" /\ "park" \in {"park", "seal"}
      BY Zenon
    <3> QED BY Zenon, <1>0, <2>1, <2>2, <2>3, <2>4, <3>1, Reported
  <2>5. CASE ReportPlanned(a, "park") /\ closing
    BY Zenon, <1>0, <2>1, <2>2, <2>3, <2>5, ReportedClosing
  <2>6. CASE ReportRefusal(a, "gate")
    <3>1. "gate" \in {"exit", "gate", "reject"} /\ "gate" # "reject"
      BY Zenon
    <3> QED BY Zenon, <1>0, <2>1, <2>2, <2>3, <2>6, <3>1, Refused
  <2>7. CASE Raise(a)
    BY Zenon, <1>0, <2>1, <2>2, <2>3, <2>7, Raised
  <2>8. /\ \/ ReportPlanned(a, "park") /\ Published(t)'
           \/ ReportRefusal(a, "gate") \/ Raise(a)
    BY Zenon, <1>0, <1>10, <2>2 DEF Body, Published, GatePasses
  <2> QED BY Zenon, <2>4, <2>5, <2>6, <2>7, <2>8
<1>11. CASE Awake(a)
  <2>1. /\ pc[a] \in {"park", "gate"} /\ woken[a] /\ woken'[a] = FALSE
        /\ UNCHANGED <<halted, planned>>
        /\ pc' = [pc EXCEPT ![a] = IF halted[a] THEN "exit"
                                   ELSE IF pc[a] = "park" THEN "loop" ELSE "body"]
    BY Zenon, <1>0, <1>11 DEF Awake, Goto, ThreadType, monitor
  <2>2. ~halted[a] /\ pc[a] = "park" /\ ~Own(t) /\ ~Busy(t)
        /\ (InHand(t) => status[t] = IF mon.at = "move" THEN mon.from ELSE Successor(mon.from))
    BY Zenon, <1>1, <1>5, <2>1 DEF Place
  <2>3. pc'[a] = "loop"
    BY Zenon, <1>0, <2>1, <2>2 DEF ThreadType
  <2>4. Beside(t)
    BY Zenon, <1>4, <2>2
  <2>5. Place(t)'
    BY Zenon, <2>1, <2>2, <2>3, <2>4, BesideFrame, BesideQueue DEF Place
  <2> QED BY Zenon, <2>1, <2>4, <2>5, BesideFrame, BesideQueue DEF Follows
<1>12. CASE Output(a)
  <2>1. pc[a] = "output" /\ UNCHANGED <<halted, woken>>
    BY Zenon, <1>12 DEF Output
  <2>2. ~halted[a] /\ ~Own(t) /\ status[t] = "output_validating"
    BY Zenon, <1>1, <1>5, <2>1 DEF Place
  <2>3. Beside(t) /\ pc[a] # "park"
    BY Zenon, <1>4, <2>1
  <2>4. CASE ReportPlanned(a, "seal") /\ ~closing
    <3>1. "park" # "seal" /\ "seal" \in {"park", "seal"}
      BY Zenon
    <3> QED BY Zenon, <1>0, <2>1, <2>2, <2>3, <2>4, <3>1, Reported
  <2>5. CASE ReportPlanned(a, "seal") /\ closing
    BY Zenon, <1>0, <2>1, <2>2, <2>3, <2>5, ReportedClosing
  <2>6. CASE ReportRefusal(a, "reject")
    <3>1. "reject" \in {"exit", "gate", "reject"} /\ "reject" # "gate"
      BY Zenon
    <3> QED BY Zenon, <1>0, <2>1, <2>2, <2>3, <2>6, <3>1, Refused
  <2> QED BY Zenon, <1>12, <2>4, <2>5, <2>6 DEF Output
<1>13. CASE Seal(a)
  <2>1. pc[a] = "seal" /\ UNCHANGED <<halted, woken, planned>>
    BY Zenon, <1>13, SealFrame DEF Seal, monitor
  <2>2. ~halted[a] /\ status[t] = "output_validating"
    BY Zenon, <1>1, <1>5, <2>1 DEF Place
  <2>3. Beside(t)
    BY Zenon, <1>4, <2>1
  <2>4. \E l \in {"done", "crash"} : pc' = [pc EXCEPT ![a] = l]
    BY Zenon, <1>13, SealFrame DEF Goto
  <2> QED BY Zenon, <1>0, <2>1, <2>2, <2>3, <2>4, GoesOn
<1>14. CASE Reject(a)
  <2>1. pc[a] = "reject" /\ UNCHANGED <<halted, woken, planned, why>>
    BY Zenon, <1>14, SealFrame DEF Reject, monitor
  <2>2. ~halted[a] /\ ~Own(t) /\ why[t] # ""
    BY Zenon, <1>1, <1>5, <2>1 DEF Place
  <2>3. Beside(t)
    BY Zenon, <1>4, <2>1
  <2>4. \E l \in {"exit", "crash"} : pc' = [pc EXCEPT ![a] = l]
    BY Zenon, <1>14, SealFrame DEF Goto
  <2> QED BY Zenon, <1>0, <2>1, <2>2, <2>3, <2>4, GoesOn
<1>15. CASE Done(a)
  <2>1. /\ pc[a] = "done" /\ UNCHANGED <<halted, woken, planned>>
        /\ pc' = [pc EXCEPT ![a] = IF Accepts(t) THEN "exit" ELSE "crash"]
        /\ \E used \in Usage(t) : OnTaskDone(t, "succeeded", used)
    BY Zenon, <1>0, <1>15 DEF Done, Goto, monitor
  <2>2. ~Accepts(t) /\ status'[t] = status[t]
    BY Zenon, <2>1, DoneRests, PhasesAreNot DEF Steady
  <2>3. ~halted[a]
    BY Zenon, <1>5, <2>1
  <2> QED BY Zenon, <1>0, <1>3, <2>1, <2>2, <2>3, GoesOn
<1>16. CASE Crash(a)
  <2>1. /\ pc[a] = "crash"
        /\ \E used \in Usage(t) : OnTaskDone(t, "failed", used)
    BY Zenon, <1>0, <1>16 DEF Crash
  <2>2. Accepts(t)
    BY Zenon DEF Accepts, Opens, Steady, Hurried
  <2> QED BY Zenon, <2>1, <2>2, DoneRests, PhasesAreNot DEF Steady
<1>17. CASE Exit(a)
  <2>1. pc[a] = "exit" /\ UNCHANGED <<halted, woken, planned, why>> /\ pc' = [pc EXCEPT ![a] = "none"]
    BY Zenon, <1>17, SealFrame DEF Exit, Goto, monitor
  <2>2. ~Own(t) /\ (halted[a] \/ why[t] # "")
    BY Zenon, <1>1, <2>1 DEF Place
  <2>3. Beside(t)
    BY Zenon, <1>4, <2>1
  <2> QED BY Zenon, <1>0, <2>1, <2>2, <2>3, GoesOn
<1> QED BY Zenon, <1>6, <1>7, <1>8, <1>9, <1>10, <1>11, <1>12, <1>13, <1>14, <1>15, <1>16,
           <1>17 DEF Thread
\* A thread puts at most one record, about itself, and an attempt that is not
\* the task's any more leaves its mark.
LEMMA ThreadQueue ==
  ASSUME NEW a \in Attempts, Thread(a)
  PROVE  \/ UNCHANGED planned
         \/ /\ ~closing /\ planned' = Append(planned, RecordOf(a))
            /\ Stale(a) => Note(a[1], "stale")
<1>1. ASSUME NEW l, ReportPlanned(a, l)
      PROVE  \/ UNCHANGED planned
             \/ /\ ~closing /\ planned' = Append(planned, RecordOf(a))
                /\ Stale(a) => Note(a[1], "stale")
  BY Zenon, <1>1 DEF ReportPlanned, RecordOf
<1>2. ASSUME NEW l, ReportRefusal(a, l) PROVE UNCHANGED planned
  BY Zenon, <1>2 DEF ReportRefusal, monitor
<1>3. CASE Input(a)
  BY Zenon, <1>1, <1>2, <1>3 DEF Input
<1>4. CASE Output(a)
  BY Zenon, <1>1, <1>2, <1>4 DEF Output
<1>5. CASE Body(a)
  BY Zenon, <1>1, <1>2, <1>5 DEF Body, Raise, monitor
<1>6. CASE Loop(a) \/ MainReleases(a) \/ MainOpens(a) \/ Awake(a)
  BY Zenon, <1>6 DEF Loop, MainReleases, MainOpens, Awake, monitor
<1>7. CASE Seal(a) \/ Reject(a) \/ Done(a) \/ Crash(a) \/ Exit(a)
  BY Zenon, <1>7, SealFrame DEF Done, Crash, monitor
<1> QED BY Zenon, <1>3, <1>4, <1>5, <1>6, <1>7 DEF Thread

\* The record a thread puts names its attempt and the phase it ends.
LEMMA RecordType ==
  ASSUME PoolType, NEW a \in Attempts
  PROVE  /\ RecordOf(a) \in Records /\ RecordOf(a).kind = "phase_done"
         /\ RecordOf(a).task = a[1] /\ RecordOf(a).attempt = a[2]
         /\ RecordOf(a).phase = status[a[1]]
         /\ a[1] \in Tasks /\ a[2] \in 1 .. MaxAttempts /\ a = <<a[1], a[2]>>
<1>1. a[1] \in Tasks /\ a[2] \in 1 .. MaxAttempts /\ a = <<a[1], a[2]>>
  BY DEF Attempts
<1>2. status[a[1]] \in Statuses
  BY Zenon, <1>1 DEF PoolType
<1> QED BY Zenon, <1>1, <1>2 DEF RecordOf, Records

\* It has a place of its own.
LEMMA ThreadPlaces ==
  ASSUME ThreadType, NEW a \in Attempts, Thread(a)
  PROVE  /\ pc[a] # "none"
         /\ \A b \in Attempts : b # a => /\ pc'[b] = pc[b] /\ halted'[b] = halted[b]
                                         /\ woken'[b] = woken[b] /\ holds'[b] = holds[b]
<1>0. /\ pc \in [Attempts -> Live \cup {"none"}] /\ halted \in [Attempts -> BOOLEAN]
      /\ woken \in [Attempts -> BOOLEAN] /\ holds \in [Attempts -> BOOLEAN]
  BY Zenon DEF ThreadType
<1>1. pc[a] # "none"
  BY Zenon DEF Thread, Loop, Input, MainReleases, MainOpens, Body, Awake, Output, Seal, Reject,
               Done,
     Crash, Exit
<1> SUFFICES ASSUME NEW b \in Attempts, b # a
             PROVE  /\ pc'[b] = pc[b] /\ halted'[b] = halted[b]
                    /\ woken'[b] = woken[b] /\ holds'[b] = holds[b]
  BY Zenon, <1>1
<1>2. ASSUME NEW l, Goto(a, l) PROVE pc'[b] = pc[b]
  BY Zenon, <1>0, <1>2 DEF Goto
<1>3. pc'[b] = pc[b]
  BY Zenon, <1>2, SealFrame DEF Thread, Loop, Input, MainReleases, MainOpens, Body, Awake, Output,
     Done, Crash, ReportPlanned, ReportRefusal, Raise
<1>4. halted'[b] = halted[b] /\ woken'[b] = woken[b]
  BY Zenon, <1>0, SealFrame DEF Thread, Loop, Input, MainReleases, MainOpens, Body, Awake, Output,
     Done, Crash
<1>5. holds'[b] = holds[b]
  BY Zenon, <1>0, SealFrame DEF Thread, Loop, Input, MainReleases, MainOpens, Body, Awake, Output,
     Done, Crash
<1> QED BY Zenon, <1>3, <1>4, <1>5

\* on_done and the crash handler settle a task, and land the waiting ones.
LEMMA ThreadSettles ==
  ASSUME PoolType, NEW a \in Attempts, Thread(a)
  PROVE  /\ \A u \in Tasks : u # a[1] => Rests(u)
         /\ \/ UNCHANGED <<status, open>>
            \/ /\ pc[a] \in {"done", "crash"} /\ Accepts(a[1])
               /\ status'[a[1]] = IF pc[a] = "done" THEN "succeeded" ELSE "failed"
               /\ open' = [open EXCEPT ![a[1]] = FALSE]
               /\ Stale(a) => Note(a[1], "stale")
<1>0. a[1] \in Tasks
  BY Zenon DEF Attempts
<1>1. CASE pc[a] \notin {"done", "crash"}
  BY Zenon, <1>1, ThreadStatus DEF Rests
<1>2. CASE Done(a)
  <2>1. /\ pc[a] = "done" /\ (Stale(a) => Note(a[1], "stale"))
        /\ \E used \in Usage(a[1]) : OnTaskDone(a[1], "succeeded", used)
    BY Zenon, <1>2 DEF Done
  <2>2. /\ \A u \in Tasks : u # a[1] => Rests(u)
        /\ Accepts(a[1]) => status'[a[1]] = "succeeded"
    BY Zenon, <1>0, <2>1, DoneRests
  <2>3. IF Accepts(a[1]) THEN open' = [open EXCEPT ![a[1]] = FALSE] ELSE UNCHANGED <<status, open>>
    BY Zenon, <2>1 DEF OnTaskDone
  <2> QED BY Zenon, <2>1, <2>2, <2>3
<1>3. CASE Crash(a)
  <2>1. /\ pc[a] = "crash" /\ (Stale(a) => Note(a[1], "stale"))
        /\ \E used \in Usage(a[1]) : OnTaskDone(a[1], "failed", used)
    BY Zenon, <1>3 DEF Crash
  <2>2. /\ \A u \in Tasks : u # a[1] => Rests(u)
        /\ Accepts(a[1]) => status'[a[1]] = "failed"
    BY Zenon, <1>0, <2>1, DoneRests
  <2>3. IF Accepts(a[1]) THEN open' = [open EXCEPT ![a[1]] = FALSE] ELSE UNCHANGED <<status, open>>
    BY Zenon, <2>1 DEF OnTaskDone
  <2>4. pc[a] # "done"
    BY Zenon, <2>1
  <2> QED BY Zenon, <2>1, <2>2, <2>3, <2>4
<1>4. pc[a] \in {"done", "crash"} => Done(a) \/ Crash(a)
  BY Zenon DEF Thread, Loop, Input, MainReleases, MainOpens, Body, Awake, Output, Seal, Reject,
               Exit
<1> QED BY Zenon, <1>1, <1>2, <1>3, <1>4

\* The thread of another attempt, of the same task or not, disturbs nothing.
LEMMA OtherThread ==
  ASSUME PoolType, ThreadType, MonitorType, WhyType, NEW a \in Attempts, Thread(a),
         NEW u \in Tasks, a # Me(u), Steady(u) => Follows(u), Steady(u)'
  PROVE  Follows(u)'
<1>0. /\ a[1] \in Tasks /\ a[2] \in 1 .. MaxAttempts /\ a = <<a[1], a[2]>>
      /\ "stale" \in Reasons /\ "stale" # ""
  BY Zenon, RecordType DEF Reasons
<1>1. /\ UNCHANGED <<current, mon>> /\ stored \subseteq stored' /\ Keeps(u)
  BY Zenon, ThreadFrame
<1>2. u = a[1] => a[2] # current[u] /\ Stale(a)
  BY Zenon, <1>0 DEF Stale, Me
<1>3. Me(u) \in Attempts
  BY <1>1 DEF Steady, Me, Attempts, ThreadType
<1>4. ThreadRests(u)
  BY Zenon, <1>1, <1>3, ThreadPlaces DEF ThreadRests
<1>5. status'[u] \in Phases => status'[u] = status[u]
  <2>1. CASE u # a[1]
    BY Zenon, <2>1, ThreadSettles, PhasesAreNot DEF Rests
  <2>2. CASE u = a[1]
    <3>1. Note(a[1], "stale") => Hurried(u)'
      BY Zenon, <1>0, <2>2, NoteKeeps
    <3> QED BY Zenon, <1>2, <2>2, <3>1, ThreadSettles DEF Steady
  <2> QED BY Zenon, <2>1, <2>2
<1>6. QueueRests(u)
  <2>1. CASE UNCHANGED planned
    BY Zenon, <2>1, UnchangedQueue
  <2>2. CASE planned' = Append(planned, RecordOf(a))
    <3>1. ~Reports(RecordOf(a), u, current[u])
      BY Zenon, <1>2, RecordType DEF Reports
    <3>2. planned \in Seq(Records)
      BY Zenon DEF MonitorType
    <3> QED BY Zenon, <2>2, <3>1, <3>2, RecordType, AppendHas DEF QueueRests
  <2> QED BY Zenon, <2>1, <2>2, ThreadQueue
<1>7. HandRests(u)
  BY Zenon, <1>1, UnchangedHand
<1> QED BY Zenon, <1>1, <1>4, <1>5, <1>6, <1>7, RestsFollow
\* _advance takes a record: it was the only one of its attempt.
LEMMA TakeFollows ==
  ASSUME PoolType, ThreadType, MonitorType, WhyType, Folded, Take,
         NEW u \in Tasks, Steady(u) => Follows(u), Steady(u)'
  PROVE  Follows(u)'
<1> DEFINE r == Head(planned)
           t == r.task
           s == [kind |-> "subgraph_done", task |-> Parent[t], early |-> Early(r)]
<1>0. /\ mon = Idle /\ planned # <<>> /\ planned \in Seq(Records)
      /\ UNCHANGED <<status, current, pc, halted, woken, stored>>
  BY Zenon DEF Take, MonitorType, scheduler, attempt, files
<1>1. r \in Records /\ t \in Tasks /\ (r.kind = "phase_done" => r.attempt \in 1 .. MaxAttempts)
      /\ r.kind \in {"phase_done", "subgraph_done"}
  <2>1. r \in Records
    BY Zenon, <1>0, TailItems
  <2> HIDE DEF r
  <2> QED BY Zenon, <2>1 DEF Records
<1>2. Keeps(u)
  <2>1. "stale" \in Reasons /\ "stale" # ""
    BY Zenon DEF Reasons
  <2> QED BY Zenon, <1>1, <2>1, NoteKeeps, NoNoteKeeps DEF Take
<1>3. ThreadRests(u)
  BY Zenon, <1>0 DEF ThreadRests
<1>4. Steady(u) /\ Follows(u) /\ Place(u)
  BY Zenon, <1>0, <1>2 DEF Steady, Keeps, Follows
<1>5. current[u] # 0
  BY Zenon, <1>4 DEF Steady
<1> DEFINE n == current[u]
<1>6. s.kind = "subgraph_done" /\ ~Reports(s, u, n)
  BY Zenon DEF Reports
<1>7. Announces(r) => s \in Records
  <2>1. Announces(r) => Parent[t] \in Tasks
    BY Zenon, <1>1, TaskConfig DEF Announces
  <2>2. Early(r) \in BOOLEAN
    BY Zenon DEF Early, Hurried
  <2> QED BY Zenon, <2>1, <2>2 DEF Records
<1>8. planned' = IF Announces(r) THEN Append(Tail(planned), s) ELSE Tail(planned)
  BY Zenon DEF Take
<1>9. Tail(planned) \in Seq(Records)
  BY Zenon, <1>0, TailItems
<1>10. /\ Has(planned', u, n) => Has(planned, u, n)
       /\ Has(planned, u, n) => Has(planned', u, n) \/ Reports(r, u, n)
       /\ Once(planned, u, n) /\ Reports(r, u, n) => ~Has(planned', u, n)
       /\ Once(planned, u, n) => Once(planned', u, n)
       /\ Says(planned, u, n, status[u]) => Says(planned', u, n, status[u])
  <2> HIDE DEF r, s, n
  <2>1. CASE Announces(r)
    <3>1. planned' = Append(Tail(planned), s) /\ s \in Records
      BY Zenon, <1>7, <1>8, <2>1
    <3>2. /\ Has(planned', u, n) <=> Has(Tail(planned), u, n)
          /\ Once(Tail(planned), u, n) => Once(planned', u, n)
          /\ Says(Tail(planned), u, n, status[u]) => Says(planned', u, n, status[u])
      BY Zenon, <1>6, <1>9, <3>1, AppendHas
    <3> QED BY Zenon, <1>0, <3>2, TailHas DEF r
  <2>2. CASE ~Announces(r)
    BY Zenon, <1>0, <1>8, <2>2, TailHas DEF r
  <2> QED BY Zenon, <2>1, <2>2
<1>11. ~InHand(u)
  BY Zenon, <1>0 DEF InHand
<1>12. CASE Reports(r, u, n)
  <2>1. t = u /\ r.kind = "phase_done" /\ r.attempt = n
    BY Zenon, <1>12 DEF Reports
  <2>2. Own(u) /\ r.phase = status[u]
    <3>1. 1 \in DOMAIN planned /\ planned[1] = r
      BY Zenon, <1>0, TailItems
    <3> HIDE DEF r
    <3> QED BY Zenon, <1>4, <1>12, <3>1 DEF Own, Has, Says, Follows
  <2>3. ~Own(u)'
    BY Zenon, <1>0, <1>4, <1>10, <1>12 DEF Own, Follows
  <2>4. CASE status[u] = "output_validating"
    <3>1. mon' = Idle
      BY Zenon, <2>1, <2>2, <2>4 DEF Take, Completes
    <3>2. pc[Me(u)] # "park"
      BY Zenon, <1>4, <2>2, <2>4 DEF Place
    <3>3. ~InHand(u)' /\ ~Busy(u)'
      BY Zenon, <3>1 DEF InHand, Busy
    <3>4. Me(u)' = Me(u) /\ (IsLeaf(u)' <=> IsLeaf(u)) /\ (why[u] # "" => why'[u] # "")
      BY Zenon, <1>0, <1>2 DEF Me, IsLeaf, Children, Keeps
    <3>5. Place(u)'
      BY Zenon, <1>0, <1>4, <2>3, <2>4, <3>2, <3>3, <3>4 DEF Place
    <3> QED BY Zenon, <1>0, <1>4, <1>10, <3>5 DEF Follows
  <2>5. CASE status[u] # "output_validating"
    <3>1. status[u] \in {"input_validating", "running"}
      BY Zenon, <1>4, <2>5 DEF Steady, Phases
    <3>2. /\ mon' = [at |-> "move", task |-> t, from |-> status[t], todo |-> {},
                     attempt |-> IF r.kind = "phase_done" THEN r.attempt
                                 ELSE IF status[t] = "running" THEN current[t] ELSE 0]
      BY Zenon, <2>1, <2>2, <2>5, <3>1 DEF Take, Completes
    <3>3. /\ mon'.at = "move" /\ mon'.task = u /\ mon'.from = status[u] /\ mon'.attempt = n
      BY Zenon, <2>1, <3>2
    <3>4. /\ pc[Me(u)] = "park" /\ ~woken[Me(u)] /\ ~halted[Me(u)]
          /\ status[u] = "input_validating" \/ IsLeaf(u)
      BY Zenon, <1>4, <2>2, <2>5 DEF Place
    <3>5. Me(u)' = Me(u) /\ (IsLeaf(u)' <=> IsLeaf(u)) /\ (why[u] # "" => why'[u] # "")
      BY Zenon, <1>0, <1>2 DEF Me, IsLeaf, Children, Keeps
    <3>6. mon' # Idle
      BY Zenon, <3>2 DEF Idle
    <3>7. InHand(u)' /\ Busy(u)'
      <4>1. InHand(u)'
        BY Zenon, <1>0, <3>3, <3>6 DEF InHand
      <4>2. mon'.from # "running" \/ IsLeaf(u)'
        BY Zenon, <3>3, <3>4, <3>5
      <4> QED BY Zenon, <4>1, <4>2 DEF Busy
    <3>8. Place(u)'
      BY Zenon, <1>0, <2>3, <3>3, <3>4, <3>5, <3>7 DEF Place
    <3> QED BY Zenon, <1>0, <1>4, <1>10, <3>8 DEF Follows
  <2> QED BY Zenon, <2>4, <2>5
<1>13. CASE ~Reports(r, u, n)
  <2>1. QueueRests(u)
    BY Zenon, <1>10, <1>13 DEF QueueRests
  <2>2. CASE ~InHand(u)'
    <3>1. HandRests(u)
      BY Zenon, <1>11, <2>2 DEF HandRests
    <3> QED BY Zenon, <1>0, <1>2, <1>3, <1>4, <2>1, <3>1, RestsFollow
  <2>3. CASE InHand(u)'
    <3>1. mon' = [at |-> "move", task |-> t, from |-> status[t], todo |-> {},
                  attempt |-> IF r.kind = "phase_done" THEN r.attempt
                              ELSE IF status[t] = "running" THEN current[t] ELSE 0]
      BY Zenon, <2>3 DEF Take, InHand
    <3>2. /\ mon'.at = "move" /\ mon'.task = t /\ mon'.from = status[t]
          /\ mon'.attempt = IF r.kind = "phase_done" THEN r.attempt
                            ELSE IF status[t] = "running" THEN current[t] ELSE 0
      BY Zenon, <3>1
    <3>3. t = u /\ mon'.attempt = n
      BY Zenon, <1>0, <2>3, <3>2 DEF InHand
    <3>4. r.kind = "subgraph_done" /\ status[u] = "running"
      BY Zenon, <1>1, <1>5, <1>13, <3>2, <3>3 DEF Reports
    <3>5. ~IsLeaf(u)
      <4>1. r \in Items(planned)
        BY Zenon, <1>0, QueueItems
      <4> HIDE DEF r
      <4> QED BY Zenon, <3>3, <3>4, <4>1 DEF Folded
    <3>6. Me(u)' = Me(u) /\ (IsLeaf(u)' <=> IsLeaf(u)) /\ (why[u] # "" => why'[u] # "")
      BY Zenon, <1>0, <1>2 DEF Me, IsLeaf, Children, Keeps
    <3>7. ~Busy(u)' /\ ~Busy(u)
      BY Zenon, <1>11, <3>2, <3>3, <3>4, <3>5, <3>6 DEF Busy
    <3>8. (Own(u)' <=> Own(u)) /\ (Published(u) => Published(u)')
      BY Zenon, <1>0, <2>1 DEF QueueRests, Own, Published
    <3>9. Place(u)'
      BY Zenon, <1>0, <1>4, <3>2, <3>3, <3>6, <3>7, <3>8 DEF Place
    <3> QED BY Zenon, <1>0, <1>4, <2>1, <3>9 DEF Follows, QueueRests
  <2> QED BY Zenon, <2>2, <2>3
<1> QED BY Zenon, <1>12, <1>13

\* While the monitor acts it has a task in hand.
LEMMA AtMoves ==
  ASSUME MonitorType, mon.at \in {"move", "unfold", "carry"}
  PROVE  /\ mon # Idle /\ mon \in Moves /\ mon.task \in Tasks /\ mon.from \in Phases
         /\ mon.attempt \in 0 .. MaxAttempts
<1>1. mon # Idle
  BY DEF Idle
<1>2. mon \in Moves
  BY Zenon, <1>1 DEF MonitorType
<1> QED BY Zenon, <1>1, <1>2 DEF Moves

\* What Move does to the monitor and the history.
LEMMA MoveFrame ==
  ASSUME MonitorType, WhyType, PoolType, Move
  PROVE  /\ mon # Idle /\ mon.at = "move" /\ mon.task \in Tasks /\ mon.from \in Phases
         /\ mon' # Idle /\ mon'.at \in {"unfold", "carry"} /\ mon'.task = mon.task
         /\ mon'.from = mon.from /\ mon'.attempt = mon.attempt
         /\ status'[mon.task] = Successor(mon.from)
         /\ \A u \in Tasks : Keeps(u) /\ (u # mon.task => status'[u] = status[u] /\ why'[u] = why[u])
         /\ status[mon.task] # mon.from => why'[mon.task] = "raced"
         /\ mon.attempt # current[mon.task] => why'[mon.task] \in {"raced", "stale"}
         /\ why[mon.task] = "raced" => why'[mon.task] = "raced"
         /\ UNCHANGED <<current, pc, halted, woken, holds, stored, planned, open, closing, tries>>
<1>0. mon.at = "move" /\ mon # Idle /\ mon \in Moves /\ mon.task \in Tasks /\ mon.from \in Phases
  BY Zenon, AtMoves DEF Move
<1>1. mon' = [mon EXCEPT !.at = "unfold", !.todo = Children(mon.task)] \/ mon' = [mon EXCEPT !.at = "carry"]
  BY Zenon DEF Move
<1>2. /\ mon'.at \in {"unfold", "carry"} /\ mon'.task = mon.task
      /\ mon'.from = mon.from /\ mon'.attempt = mon.attempt
  BY Zenon, <1>0, <1>1 DEF Moves
<1>3. mon' # Idle
  BY <1>2 DEF Idle
<1>4. status'[mon.task] = Successor(mon.from) /\ \A u \in Tasks : u # mon.task => status'[u] = status[u]
  BY Zenon, <1>0 DEF Move, PoolType
<1>5. /\ "raced" \in Reasons /\ "stale" \in Reasons /\ "raced" # "" /\ "stale" # "" /\ "stale" # "raced"
  BY Zenon DEF Reasons
<1>6. IF status[mon.task] # mon.from THEN Note(mon.task, "raced")
      ELSE IF mon.attempt # current[mon.task] THEN Note(mon.task, "stale") ELSE UNCHANGED why
  BY Zenon DEF Move
<1>7. Note(mon.task, "raced") => why'[mon.task] = "raced"
  BY Zenon, <1>0 DEF Note, WhyType
<1>8. /\ \A u \in Tasks : Keeps(u) /\ (u # mon.task => why'[u] = why[u])
      /\ mon.attempt # current[mon.task] => why'[mon.task] \in {"raced", "stale"}
      /\ why[mon.task] = "raced" => why'[mon.task] = "raced"
  <2>0. PICK t \in Tasks : t = mon.task
    BY Zenon, <1>0
  <2>1. CASE Note(t, "raced")
    BY Zenon, <1>5, <2>0, <2>1, NoteKeeps DEF Hurried
  <2>2. CASE Note(t, "stale")
    BY Zenon, <1>5, <2>0, <2>2, NoteKeeps DEF Hurried
  <2>3. CASE UNCHANGED why /\ status[mon.task] = mon.from /\ mon.attempt = current[mon.task]
    BY Zenon, <2>3, NoNoteKeeps
  <2> QED BY Zenon, <1>6, <2>0, <2>1, <2>2, <2>3
<1>9. UNCHANGED <<current, pc, halted, woken, holds, stored, planned, open, closing, tries>>
  BY Zenon DEF Move, attempt, files
<1> QED BY Zenon, <1>0, <1>2, <1>3, <1>4, <1>6, <1>7, <1>8, <1>9

\* enter_phase moves the task in hand to its next phase and no other task.
LEMMA MoveFollows ==
  ASSUME PoolType, ThreadType, MonitorType, WhyType, Move,
         NEW u \in Tasks, Steady(u) => Follows(u), Steady(u)'
  PROVE  Follows(u)'
<1>1. CASE u # mon.task
  <2>1. ThreadRests(u) /\ Keeps(u) /\ status'[u] = status[u] /\ stored \subseteq stored'
    BY Zenon, <1>1, MoveFrame DEF ThreadRests
  <2>2. QueueRests(u)
    BY Zenon, MoveFrame, UnchangedQueue
  <2>3. HandRests(u)
    BY Zenon, <1>1, MoveFrame DEF HandRests, InHand
  <2> QED BY Zenon, <2>1, <2>2, <2>3, RestsFollow
<1>2. CASE u = mon.task
  <2>1. status[u] = mon.from /\ mon.attempt = current[u] /\ Keeps(u)
    BY Zenon, <1>2, MoveFrame DEF Steady, Hurried
  <2>2. Steady(u)
    BY Zenon, <1>2, <2>1, MoveFrame DEF Steady, Keeps
  <2>3. InHand(u) /\ InHand(u)' /\ mon'.from = mon.from /\ mon'.at # "move" /\ mon.at = "move"
        /\ status'[u] = Successor(mon.from)
    <3>1. mon'.at # "move"
      BY Zenon, MoveFrame
    <3> QED BY Zenon, <1>2, <2>1, <3>1, MoveFrame DEF InHand
  <2>4. (IsLeaf(u)' <=> IsLeaf(u)) /\ Me(u)' = Me(u) /\ (why[u] # "" => why'[u] # "")
        /\ halted' = halted /\ woken' = woken /\ pc' = pc
    BY Zenon, <2>1, MoveFrame DEF IsLeaf, Children, Me, Keeps
  <2>5. (Busy(u)' <=> Busy(u)) /\ (Own(u)' <=> Own(u))
    BY Zenon, <2>3, <2>4, MoveFrame DEF Busy, Own
  <2>6. Busy(u) <=> IsLeaf(u) \/ status[u] # "running"
    BY Zenon, <2>1, <2>3 DEF Busy
  <2>7. Place(u)
    BY Zenon, <2>2 DEF Follows
  <2>8. status[u] # "output_validating" \/ Busy(u)
    BY Zenon, <2>6
  <2>9. ~Own(u)
    BY Zenon, <2>6, <2>7 DEF Place
  <2>10. status'[u] \in {"running", "output_validating"}
         /\ (status'[u] = "running" <=> status[u] = "input_validating")
    BY Zenon, <2>1, <2>3, MoveFrame DEF Successor
  <2>11. Place(u)'
    BY Zenon, <2>3, <2>4, <2>5, <2>6, <2>7, <2>9, <2>10 DEF Place
  <2>12. ~Has(planned', u, current'[u])
    BY Zenon, <2>5, <2>9 DEF Own
  <2>13. Once(planned, u, current[u])' /\ Says(planned, u, current[u], status[u])'
    BY Zenon, <2>12 DEF Once, Says, Has
  <2> QED BY Zenon, <2>11, <2>13 DEF Follows
<1> QED BY Zenon, <1>1, <1>2

\* A submission that is one of several.
LEMMA UnfoldFrame ==
  ASSUME PoolType, MonitorType, NEW c \in Tasks, Unfold(c)
  PROVE  /\ mon # Idle /\ mon.at = "unfold" /\ mon \in Moves /\ mon.task \in Tasks
         /\ mon' # Idle /\ mon'.at \in {"unfold", "carry"} /\ mon'.task = mon.task
         /\ mon'.from = mon.from /\ mon'.attempt = mon.attempt
         /\ mon'.todo = mon.todo \ {c} /\ mon'.at = IF mon.todo = {c} THEN "carry" ELSE "unfold"
         /\ \A u \in Tasks : u # c => Rests(u)
         /\ status'[c] \in Waiting /\ status[c] \in {"absent", "cancelled"}
         /\ UNCHANGED <<attempt, stored, planned, closing, why, open, tries, todo>>
<1>0. mon.at = "unfold" /\ mon # Idle /\ mon \in Moves /\ mon.task \in Tasks
  BY Zenon, AtMoves DEF Unfold
<1>1. mon' = [mon EXCEPT !.todo = mon.todo \ {c}, !.at = IF mon.todo = {c} THEN "carry" ELSE mon.at]
  BY Zenon DEF Unfold
<1>2. /\ mon'.at = IF mon.todo = {c} THEN "carry" ELSE "unfold"
      /\ mon'.task = mon.task /\ mon'.from = mon.from /\ mon'.attempt = mon.attempt
      /\ mon'.todo = mon.todo \ {c}
  BY Zenon, <1>0, <1>1 DEF Moves
<1>3. mon'.at \in {"unfold", "carry"}
  BY Zenon, <1>2
<1>4. mon' # Idle
  BY <1>3 DEF Idle
<1>5. Submit(c) /\ UNCHANGED <<attempt, stored, planned, closing, why, todo>>
  BY Zenon DEF Unfold, cli
<1> QED BY Zenon, <1>0, <1>2, <1>3, <1>4, <1>5, SubmitRests DEF Submit

\* A subtask is submitted: it is in no phase yet.
LEMMA UnfoldFollows ==
  ASSUME PoolType, MonitorType, NEW c \in Tasks, Unfold(c),
         NEW u \in Tasks, Steady(u) => Follows(u), Steady(u)'
  PROVE  Follows(u)'
<1>1. u # c
  BY Zenon, UnfoldFrame, PhasesAreNot DEF Steady
<1>2. status'[u] \in Phases => status'[u] = status[u]
  BY Zenon, <1>1, UnfoldFrame, PhasesAreNot DEF Rests
<1>3. UNCHANGED <<current, pc, halted, woken, stored, planned, why>>
  BY Zenon, UnfoldFrame DEF attempt
<1>4. Keeps(u) /\ QueueRests(u)
  BY Zenon, <1>3, UnchangedQueue, NoNoteKeeps
<1>5. ThreadRests(u)
  BY Zenon, <1>3 DEF ThreadRests
<1>6. mon'.at # "move" /\ mon.at # "move"
  BY Zenon, UnfoldFrame
<1>7. HandRests(u)
  BY Zenon, <1>3, <1>6, UnfoldFrame DEF HandRests, InHand
<1> QED BY Zenon, <1>2, <1>3, <1>4, <1>5, <1>7, RestsFollow

\* Unfolding fails, and something is wrong with the task in hand.
LEMMA UnfoldRaisesFollows ==
  ASSUME MonitorType, WhyType, UnfoldRaises,
         NEW u \in Tasks, Steady(u) => Follows(u), Steady(u)'
  PROVE  Follows(u)'
<1>0. mon.at = "unfold" /\ mon # Idle /\ mon.task \in Tasks /\ mon' = Idle
      /\ "refused" \in Reasons /\ "refused" # ""
  <2>1. "refused" \in Reasons /\ "refused" # ""
    BY Zenon DEF Reasons
  <2> QED BY Zenon, <2>1, AtMoves DEF UnfoldRaises
<1>1. UNCHANGED <<status, current, pc, halted, woken, stored, planned>>
  BY Zenon DEF UnfoldRaises, attempt, files, scheduler
<1>2. Keeps(u) /\ (u = mon.task => why'[u] # "")
  BY Zenon, <1>0, NoteKeeps DEF UnfoldRaises
<1>3. QueueRests(u) /\ ThreadRests(u)
  BY Zenon, <1>1, UnchangedQueue DEF ThreadRests
<1>4. CASE ~InHand(u)
  <2>1. HandRests(u)
    BY Zenon, <1>0, <1>4 DEF HandRests, InHand
  <2> QED BY Zenon, <1>1, <1>2, <1>3, <2>1, RestsFollow
<1>5. CASE InHand(u)
  <2>1. ~InHand(u)' /\ ~Busy(u)' /\ why'[u] # ""
    BY Zenon, <1>0, <1>2, <1>5 DEF InHand, Busy
  <2>2. Steady(u) /\ Place(u)
    BY Zenon, <1>1, <1>2 DEF Steady, Keeps, Follows
  <2>3. Me(u)' = Me(u) /\ (IsLeaf(u)' <=> IsLeaf(u)) /\ (Own(u)' <=> Own(u))
        /\ (Published(u)' <=> Published(u))
    BY Zenon, <1>1 DEF Me, IsLeaf, Children, Own, Published
  <2>4. Place(u)'
    BY Zenon, <1>1, <2>1, <2>2, <2>3 DEF Place
  <2> QED BY Zenon, <1>1, <2>2, <2>4 DEF Follows
<1> QED BY Zenon, <1>4, <1>5

\* What carry_on does to the attempt the runner knows.
LEMMA CarryFrame ==
  ASSUME ThreadType, MonitorType, WhyType, Carry
  PROVE  /\ mon # Idle /\ mon.at = "carry" /\ mon.task \in Tasks /\ mon' = Idle
         /\ UNCHANGED <<status, open, tries, current, stored, planned, closing, holds, todo>>
         /\ \A u \in Tasks : Keeps(u)
         /\ \A u \in Tasks : u # mon.task => ThreadRests(u) /\ why'[u] = why[u]
         /\ \A u \in Tasks : why[u] = "raced" => why'[u] = "raced"
<1>0. mon.at = "carry" /\ mon # Idle /\ mon.task \in Tasks /\ mon' = Idle
  BY Zenon, AtMoves DEF Carry
<1>1. UNCHANGED <<status, open, tries, current, stored, planned, closing, holds, todo>>
  BY Zenon DEF Carry, files, scheduler, cli
<1>2. /\ "stale" \in Reasons /\ "missed" \in Reasons /\ "missed" # "" /\ "stale" # ""
  BY Zenon DEF Reasons
<1>3. Note(mon.task, "stale") \/ Note(mon.task, "missed") \/ UNCHANGED why
  BY Zenon DEF Carry
<1>4. \A u \in Tasks : Keeps(u) /\ (u # mon.task => why'[u] = why[u])
                       /\ (why[u] = "raced" => why'[u] = "raced")
  BY Zenon, <1>0, <1>2, <1>3, NoteKeeps, NoNoteKeeps
<1>5. ASSUME NEW u \in Tasks, u # mon.task PROVE ThreadRests(u)
  <2> DEFINE a == <<mon.task, current[mon.task]>>
  <2>1. Me(u) # a
    BY Zenon, <1>5 DEF Me
  <2>2. /\ UNCHANGED pc \/ pc' = [pc EXCEPT ![a] = "loop"]
        /\ UNCHANGED halted \/ halted' = [halted EXCEPT ![a] = FALSE]
        /\ UNCHANGED woken \/ woken' = [woken EXCEPT ![a] = TRUE] \/ woken' = [woken EXCEPT ![a] = FALSE]
    BY Zenon DEF Carry, Goto
  <2> HIDE DEF a
  <2>3. ASSUME NEW f, NEW g, NEW x, g = [f EXCEPT ![a] = x] PROVE g[Me(u)] = f[Me(u)]
    BY <2>1, <2>3
  <2> QED BY Zenon, <1>1, <2>2, <2>3 DEF ThreadRests
<1> QED BY Zenon, <1>0, <1>1, <1>4, <1>5

\* set_phase wakes the thread of the attempt whose record was taken.
LEMMA CarryFollows ==
  ASSUME ThreadType, MonitorType, WhyType, Carry,
         NEW u \in Tasks, Steady(u) => Follows(u), Steady(u)'
  PROVE  Follows(u)'
<1>0. Keeps(u) /\ QueueRests(u) /\ Steady(u) /\ Follows(u) /\ Place(u)
  <2>1. Keeps(u) /\ QueueRests(u) /\ UNCHANGED <<status, current>>
    BY Zenon, CarryFrame, UnchangedQueue
  <2> QED BY Zenon, <2>1 DEF Steady, Keeps, Follows
<1>1. CASE u # mon.task
  <2>1. HandRests(u)
    BY Zenon, <1>1, CarryFrame DEF HandRests, InHand
  <2> QED BY Zenon, <1>0, <1>1, <2>1, CarryFrame, RestsFollow
<1>2. CASE u = mon.task
  <2> DEFINE a == Me(u)
  <2>0. a = <<mon.task, current[mon.task]>> /\ a[1] = u /\ a[2] = current[u] /\ a[2] # 0 /\ a \in Attempts
    BY <1>0, <1>2 DEF Me, Steady, Attempts, ThreadType
  <2>1. ~InHand(u)' /\ ~Busy(u)' /\ Me(u)' = a /\ (IsLeaf(u)' <=> IsLeaf(u)) /\ (Own(u)' <=> Own(u))
        /\ (Published(u)' <=> Published(u)) /\ (why[u] # "" => why'[u] # "") /\ status' = status
    BY Zenon, <1>0, CarryFrame DEF InHand, Busy, Me, IsLeaf, Children, Own, Published, Keeps
  <2>2. Once(planned, u, current[u])' /\ Says(planned, u, current[u], status[u])'
    BY Zenon, <1>0, CarryFrame DEF Follows
  <2>3. CASE IsRunning(a)
    <3>1. /\ woken'[a] = TRUE /\ pc' = pc /\ halted' = halted
          /\ mon.attempt # a[2] => Note(u, "stale")
      BY Zenon, <1>2, <2>0, <2>3 DEF Carry, ThreadType
    <3>2. InHand(u)
      <4>1. "stale" \in Reasons /\ "stale" # ""
        BY Zenon DEF Reasons
      <4>2. Note(u, "stale") => Hurried(u)'
        BY Zenon, <4>1, NoteKeeps
      <4> QED BY Zenon, <1>2, <2>0, <3>1, <4>2, CarryFrame DEF InHand, Steady
    <3>3. status[u] = Successor(mon.from) /\ mon.at = "carry"
      BY Zenon, <1>0, <3>2, CarryFrame DEF Place
    <3>4. status[u] # "input_validating"
      BY Zenon, <3>3 DEF Successor
    <3>5. CASE Busy(u)
      <4>1. pc[a] = "park" /\ ~Own(u)
        BY Zenon, <1>0, <3>5 DEF Place
      <4>2. Place(u)'
        BY Zenon, <1>0, <2>1, <3>1, <3>4, <4>1 DEF Place
      <4> QED BY Zenon, <2>2, <4>2 DEF Follows
    <3>6. CASE ~Busy(u)
      <4>1. ~IsLeaf(u) /\ mon.from = "running" /\ status[u] = "output_validating"
        BY Zenon, <3>2, <3>3, <3>6 DEF Busy, Successor
      <4>2. Place(u)'
        BY Zenon, <1>0, <2>1, <3>1, <3>4, <4>1 DEF Place
      <4> QED BY Zenon, <2>2, <4>2 DEF Follows
    <3> QED BY Zenon, <3>5, <3>6
  <2>4. CASE ~IsRunning(a)
    <3>1. /\ woken'[a] = FALSE /\ pc'[a] = "loop" /\ halted'[a] = FALSE
          /\ pc[a] \in {"none", "exit"}
      BY Zenon, <1>2, <2>0, <2>4 DEF Carry, Gone, ThreadType, Goto
    <3>2. ~Own(u)
      BY Zenon, <1>0, <3>1 DEF Place
    <3>3. Place(u)'
      BY Zenon, <1>0, <2>1, <3>1, <3>2 DEF Place
    <3> QED BY Zenon, <2>2, <3>3 DEF Follows
  <2> QED BY Zenon, <2>3, <2>4
<1> QED BY Zenon, <1>1, <1>2

\* Each step of the monitor keeps the protocol.
LEMMA MonitorFollows ==
  ASSUME PoolType, ThreadType, MonitorType, WhyType, Folded, Monitor,
         NEW u \in Tasks, Steady(u) => Follows(u), Steady(u)'
  PROVE  Follows(u)'
  BY Zenon, TakeFollows, MoveFollows, UnfoldFollows, UnfoldRaisesFollows, CarryFollows
     DEF Monitor
\* An operation that touches no attempt and no record.
LEMMA QuietFollows ==
  ASSUME UNCHANGED <<current, pc, halted, woken, planned, mon, stored>>,
         NEW u \in Tasks, Steady(u) => Follows(u), Steady(u)', Keeps(u),
         status'[u] \in Phases => status'[u] = status[u]
  PROVE  Follows(u)'
<1>1. ThreadRests(u) /\ QueueRests(u) /\ HandRests(u)
  BY Zenon, UnchangedQueue, UnchangedHand DEF ThreadRests
<1> QED BY Zenon, <1>1, RestsFollow

\* So does each operation on a task by the CLI and the scheduler.
LEMMA OperationFollows ==
  ASSUME PoolType, ThreadType, MonitorType, WhyType, Fresh, NEW t \in Tasks,
         Start(t) \/ Skip(t) \/ LaunchAttempt(t) \/ LaunchFails(t)
         \/ StopTask(t) \/ FailTask(t) \/ RestartTask(t),
         NEW u \in Tasks, Steady(u) => Follows(u), Steady(u)'
  PROVE  Follows(u)'
<1>0. "stopped" \in Reasons /\ "stopped" # ""
  BY Zenon DEF Reasons
<1>1. CASE Start(t) \/ RestartTask(t)
  <2>1. UNCHANGED <<current, pc, halted, woken, planned, mon, stored, why>> /\ (Submit(t) \/ ResumeTask(t))
    BY Zenon, <1>1 DEF Start, RestartTask, attempt, monitor, files
  <2>2. status'[u] \in Phases => status'[u] = status[u]
    BY Zenon, <2>1, SubmitRests, PhasesAreNot DEF Rests
  <2> QED BY Zenon, <2>1, <2>2, NoNoteKeeps, QuietFollows
<1>2. CASE Skip(t)
  <2>1. /\ UNCHANGED <<current, pc, halted, woken, planned, mon, stored, why>>
        /\ PassOver(t) \/ Demote(t)
    BY Zenon, <1>2 DEF Skip, attempt, monitor, files
  <2>2. status'[u] \in Phases => status'[u] = status[u]
    BY Zenon, <2>1, LookRests, PhasesAreNot DEF Rests
  <2> QED BY Zenon, <2>1, <2>2, NoNoteKeeps, QuietFollows
<1>6. CASE LaunchFails(t)
  <2>1. UNCHANGED <<pc, halted, woken, planned, mon, stored, why>>
    BY Zenon, <1>6 DEF LaunchFails, monitor, files
  <2>2. PICK pushed \in BOOLEAN : AbortLaunch(t, pushed)
    BY Zenon, <1>6, FailsFrame
  <2>3. u # t
    BY Zenon, <2>2, PhasesAreNot DEF AbortLaunch, PoolType, Steady
  <2>4. status'[u] = status[u]
    BY Zenon, <2>2, <2>3 DEF AbortLaunch, PoolType
  <2>5. current'[u] = current[u]
    BY Zenon, <1>6, <2>3, FailsFrame DEF ThreadType
  <2>6. ThreadRests(u) /\ QueueRests(u) /\ HandRests(u) /\ Keeps(u)
    BY Zenon, <2>1, <2>5, UnchangedQueue, UnchangedHand, NoNoteKeeps DEF ThreadRests
  <2> QED BY Zenon, <2>1, <2>4, <2>6, RestsFollow
<1>3. CASE FailTask(t)
  <2>1. UNCHANGED <<current, pc, halted, woken, planned, mon, stored>> /\ Note(t, "stopped")
        /\ OnTaskDone(t, "failed", Reserve[t])
    BY Zenon, <1>3 DEF FailTask, attempt, monitor, files
  <2>2. status'[u] \in Phases => status'[u] = status[u]
    BY Zenon, <2>1, DoneRests, PhasesAreNot DEF Rests
  <2> QED BY Zenon, <1>0, <2>1, <2>2, NoteKeeps, QuietFollows
<1>4. CASE StopTask(t)
  <2>1. UNCHANGED <<pc, planned, mon, stored>> /\ Note(t, "stopped") /\ Halt(Mapped(t))
        /\ (Stop(t) \/ StopRaises(t))
        /\ (UNCHANGED current \/ current' = [current EXCEPT ![t] = 0])
    BY Zenon, <1>4 DEF StopTask, monitor, files
  <2>2. u # t /\ (status'[u] \in Phases => status'[u] = status[u])
    BY Zenon, <2>1, StopRests, PhasesAreNot DEF Rests, Steady
  <2>3. current'[u] = current[u]
    BY Zenon, <2>1, <2>2 DEF ThreadType
  <2>4. Me(u) \notin Mapped(t) /\ Me(u) \in Attempts
    BY <2>2, <2>3 DEF Me, Mapped, Attempts, ThreadType, Steady
  <2>5. ThreadRests(u)
    BY Zenon, <2>1, <2>3, <2>4 DEF ThreadRests, Halt, ThreadType
  <2>6. QueueRests(u) /\ HandRests(u)
    BY Zenon, <2>1, <2>3, UnchangedQueue, UnchangedHand
  <2> QED BY Zenon, <1>0, <2>1, <2>2, <2>5, <2>6, NoteKeeps, RestsFollow
<1>5. CASE LaunchAttempt(t)
  <2> DEFINE a == <<t, tries[t] + 1>>
  <2>1. /\ UNCHANGED <<halted, woken, planned, mon, stored>>
        /\ pc' = [pc EXCEPT ![a] = "loop"] /\ current' = [current EXCEPT ![t] = tries[t] + 1]
        /\ status' = [status EXCEPT ![t] = "input_validating"]
        /\ \A x \in Tasks : x # t => why'[x] = why[x]
        /\ tries[t] < MaxAttempts
    BY Zenon, <1>5 DEF LaunchAttempt, Launch, monitor, files, WhyType
  <2>2. CASE u # t
    <3>1. current'[u] = current[u] /\ status'[u] = status[u] /\ Keeps(u)
      BY Zenon, <2>1, <2>2 DEF ThreadType, PoolType, Keeps, Hurried
    <3>2. ThreadRests(u)
      <4>1. Me(u) # a
        BY Zenon, <2>2 DEF Me
      <4>2. pc'[Me(u)] = pc[Me(u)]
        BY <2>1, <4>1 DEF ThreadType
      <4> QED BY Zenon, <2>1, <3>1, <4>2 DEF ThreadRests
    <3>3. QueueRests(u) /\ HandRests(u)
      BY Zenon, <2>1, <3>1, UnchangedQueue, UnchangedHand
    <3> QED BY Zenon, <2>1, <3>1, <3>2, <3>3, RestsFollow
  <2>3. CASE u = t
    <3>1. current'[t] = tries[t] + 1 /\ status'[t] = "input_validating" /\ Me(t)' = a
      BY Zenon, <2>1 DEF ThreadType, PoolType, Me
    <3>2. /\ tries[t] + 1 \in 1 .. MaxAttempts
          /\ tries[t] + 1 > tries[t] /\ ~(tries[t] + 1 <= tries[t])
      <4>1. tries[t] \in Nat /\ tries[t] < MaxAttempts BY Zenon, <2>1 DEF PoolType
      <4> QED BY <4>1, AttemptConfig
    <3>3. a \in Attempts
      BY Zenon, <3>2 DEF Attempts
    <3>4. pc'[a] = "loop" /\ ~halted'[a] /\ ~woken'[a]
      BY Zenon, <2>1, <3>2, <3>3 DEF Fresh, ThreadType
    <3>5. ~Has(planned', t, tries[t] + 1)
      BY Zenon, <2>1, <3>2 DEF Has, Reports, Fresh, Items
    <3>6. ~InHand(t)' /\ ~Busy(t)'
      BY Zenon, <2>1, <3>1, <3>2 DEF InHand, Busy, Fresh
    <3>7. ~Own(t)'
      BY Zenon, <3>1, <3>5 DEF Own
    <3>8. Place(t)'
      BY Zenon, <3>1, <3>4, <3>6, <3>7 DEF Place
    <3>9. Once(planned, t, current[t])' /\ Says(planned, t, current[t], status[t])'
      BY Zenon, <3>1, <3>5 DEF Once, Says, Has
    <3> QED BY Zenon, <2>3, <3>8, <3>9 DEF Follows
  <2> QED BY Zenon, <2>2, <2>3
<1> QED BY Zenon, <1>1, <1>2, <1>3, <1>4, <1>5, <1>6

\* The protocol between an attempt and the monitor.
LEMMA NextProtocol ==
  ASSUME PoolType, RestType, Fresh, Folded, Opens, Protocol, [Next]_vars
  PROVE  Protocol'
<1> SUFFICES ASSUME NEW u \in Tasks, Steady(u)'
             PROVE  Follows(u)'
  BY Zenon DEF Protocol
<1>0. (Steady(u) => Follows(u)) /\ ThreadType /\ MonitorType /\ WhyType
  BY Zenon DEF Protocol, RestType
<1>1. ASSUME NEW a \in Attempts, Thread(a) PROVE Follows(u)'
  <2>1. CASE a = Me(u)
    <3>1. UNCHANGED current /\ Keeps(u)
      BY Zenon, <1>0, <1>1, ThreadFrame
    <3>2. Steady(u)
      <4>1. status[u] \in Phases
        BY Zenon, <1>1, <2>1, ThreadSettles DEF Steady, Accepts, Me
      <4> QED BY Zenon, <3>1, <4>1 DEF Steady, Keeps
    <3> QED BY Zenon, <1>0, <1>1, <2>1, <3>2, OwnThread
  <2>2. CASE a # Me(u)
    BY Zenon, <1>0, <1>1, <2>2, OtherThread
  <2> QED BY Zenon, <2>1, <2>2
<1>2. CASE Monitor
  BY Zenon, <1>0, <1>2, MonitorFollows
<1>3. CASE (\E t \in Tasks : Start(t)) \/ Dispatch \/ Operator
  BY Zenon, <1>0, <1>3, OperationFollows DEF Dispatch, Operator
<1>4. CASE CloseMonitors \/ UNCHANGED vars
  <2>1. UNCHANGED <<current, pc, halted, woken, planned, mon, stored, why, status>>
    BY Zenon, <1>4 DEF CloseMonitors, vars, attempt, monitor, files, scheduler
  <2> QED BY Zenon, <1>0, <2>1, QuietFollows, NoNoteKeeps
<1>5. CASE Shutdown \/ Restart
  BY Zenon, <1>5 DEF Shutdown, Restart, Steady
<1> QED BY Zenon, <1>1, <1>2, <1>3, <1>4, <1>5 DEF Next

\* A record that was not there before is put by a thread, or by the monitor for
\* the parent of an end task.
LEMMA QueueSteps ==
  ASSUME PoolType, RestType, [Next]_vars, NEW x \in Items(planned')
  PROVE  \/ x \in Items(planned)
         \/ \E a \in Attempts : /\ Thread(a) /\ x = RecordOf(a) /\ ~closing
                                /\ Stale(a) => Note(a[1], "stale")
         \/ Take /\ Announces(Head(planned)) /\ x = Announcement(Head(planned))
<1>0. planned \in Seq(Records)
  BY Zenon DEF RestType, MonitorType
<1>1. CASE UNCHANGED planned
  BY Zenon, <1>1
<1>2. ASSUME NEW a \in Attempts, Thread(a)
      PROVE  \/ x \in Items(planned)
             \/ /\ x = RecordOf(a) /\ ~closing
                /\ Stale(a) => Note(a[1], "stale")
  <2>1. CASE planned' = Append(planned, RecordOf(a))
    <3>1. x \in Items(planned) \cup {RecordOf(a)}
      BY Zenon, <1>0, <2>1, RecordType, QueueItems
    <3> QED BY Zenon, <1>1, <1>2, <3>1, ThreadQueue
  <2> QED BY Zenon, <1>1, <1>2, <2>1, ThreadQueue
<1>3. CASE Take
  <2> DEFINE r == Head(planned)
             p == Tail(planned)
  <2>1. r \in Items(planned) /\ Items(p) \subseteq Items(planned) /\ p \in Seq(Records) /\ r \in Records
    BY Zenon, <1>0, <1>3, QueueItems, TailItems DEF Take
  <2>2. planned' = IF Announces(r) THEN Append(p, Announcement(r)) ELSE p
    BY Zenon, <1>3 DEF Take, Announcement
  <2>3. Announces(r) => Announcement(r) \in Records
    <3> HIDE DEF r, p
    <3>1. r.task \in Tasks
      BY Zenon, <2>1 DEF Records
    <3>2. Announces(r) => Parent[r.task] \in Tasks
      BY Zenon, <3>1, TaskConfig DEF Announces
    <3>3. Early(r) \in BOOLEAN
      BY Zenon DEF Early, Hurried
    <3> QED BY Zenon, <3>2, <3>3 DEF Records, Announcement
  <2> HIDE DEF r, p
  <2>4. CASE Announces(r)
    <3>1. x \in Items(p) \cup {Announcement(r)}
      BY Zenon, <2>1, <2>2, <2>3, <2>4, QueueItems
    <3> QED BY Zenon, <1>3, <2>1, <2>4, <3>1 DEF r
  <2>5. CASE ~Announces(r)
    BY Zenon, <2>1, <2>2, <2>5
  <2> QED BY Zenon, <2>4, <2>5
<1>4. CASE Move \/ (\E c \in Tasks : Unfold(c)) \/ UnfoldRaises \/ Carry
  BY Zenon, <1>1, <1>4 DEF Move, Unfold, UnfoldRaises, Carry
<1>5. CASE (\E t \in Tasks : Start(t)) \/ Dispatch \/ Operator
  BY Zenon, <1>1, <1>5 DEF Dispatch, Operator, Start, Skip, LaunchAttempt, LaunchFails,
                           StopTask,
     FailTask, RestartTask, monitor
<1>6. CASE CloseMonitors \/ Shutdown \/ UNCHANGED vars
  BY Zenon, <1>1, <1>6 DEF CloseMonitors, Shutdown, vars, monitor
<1>7. CASE Restart
  <2>1. planned' = <<>>
    BY Zenon, <1>7 DEF Restart
  <2>2. Items(planned') = {}
    BY <2>1 DEF Items
  <2> QED BY Zenon, <2>2
<1> QED BY Zenon, <1>2, <1>3, <1>4, <1>5, <1>6, <1>7 DEF Next, Monitor

\* What the monitor has taken is what it took, until it is idle.
LEMMA HandSteps ==
  ASSUME PoolType, RestType, [Next]_vars, mon' # Idle
  PROVE  \/ Take
         \/ /\ mon # Idle /\ mon'.task = mon.task /\ mon'.from = mon.from
            /\ mon'.attempt = mon.attempt
            /\ UNCHANGED mon \/ mon'.at # "move"
<1>0. MonitorType /\ WhyType
  BY Zenon DEF RestType
<1>1. ASSUME NEW a \in Attempts, Thread(a) PROVE UNCHANGED mon
  BY Zenon, <1>0, <1>1, ThreadFrame
<1>2. CASE Move
  <2>1. mon'.at # "move"
    BY Zenon, <1>0, <1>2, MoveFrame
  <2> QED BY Zenon, <1>0, <1>2, <2>1, MoveFrame
<1>3. ASSUME NEW c \in Tasks, Unfold(c)
      PROVE  /\ mon # Idle /\ mon'.task = mon.task /\ mon'.from = mon.from
             /\ mon'.attempt = mon.attempt /\ mon'.at # "move"
  <2>1. mon'.at # "move"
    BY Zenon, <1>0, <1>3, UnfoldFrame
  <2> QED BY Zenon, <1>0, <1>3, <2>1, UnfoldFrame
<1>4. CASE (\E t \in Tasks : Start(t)) \/ Dispatch \/ Operator
  BY Zenon, <1>4 DEF Dispatch, Operator, Start, Skip, LaunchAttempt, LaunchFails, StopTask,
     FailTask, RestartTask, monitor
<1>5. CASE CloseMonitors \/ Shutdown \/ UNCHANGED vars
  BY Zenon, <1>5 DEF CloseMonitors, Shutdown, vars, monitor
<1>6. CASE UnfoldRaises \/ Carry \/ Restart
  BY Zenon, <1>6 DEF UnfoldRaises, Carry, Restart
<1> QED BY Zenon, <1>1, <1>2, <1>3, <1>4, <1>5, <1>6 DEF Next, Monitor

\* resume_all leaves no task in a phase, nor being stopped.
LEMMA ResumeRests ==
  ASSUME PoolType, Resume, NEW u \in Tasks
  PROVE  /\ status'[u] \notin Phases \cup {"stopping"}
         /\ status'[u] = status[u] \/ status[u] \in Waiting \cup Phases \cup {"stopping"}
         /\ status'[u] = status[u] \/ status'[u] \in Waiting \cup {"suspended"}
<1> DEFINE st == [t \in Tasks |->
                       IF status[t] \in Phases THEN "waiting_resource"
                       ELSE IF status[t] = "stopping" THEN "suspended" ELSE status[t]]
<1>1. st[u] = IF status[u] \in Phases THEN "waiting_resource"
              ELSE IF status[u] = "stopping" THEN "suspended" ELSE status[u]
  BY Zenon
<1>2. status'[u] = IF st[u] \in Waiting THEN Landing(u) ELSE st[u]
  BY Zenon DEF Resume, TryDispatch
<1>3. Landing(u) \in Waiting
  BY Zenon DEF Landing, Waiting
<1> HIDE DEF st
<1> QED BY Zenon, <1>1, <1>2, <1>3 DEF Waiting, Phases

\* A task comes to a phase by a launch or by enter_phase.
LEMMA StatusSteps ==
  ASSUME PoolType, RestType, [Next]_vars, NEW u \in Tasks, status'[u] \in Phases
  PROVE  \/ status'[u] = status[u] /\ ~Restart
         \/ LaunchAttempt(u) /\ status'[u] = "input_validating"
         \/ Move /\ mon.task = u
<1>0. MonitorType /\ WhyType
  BY Zenon DEF RestType
<1>1. ASSUME NEW a \in Attempts, Thread(a) PROVE status'[u] = status[u]
  <2>1. a[1] \in Tasks /\ (pc[a] = "done" => "succeeded" \notin Phases) /\ "failed" \notin Phases
    BY Zenon DEF Attempts, Phases
  <2> QED BY Zenon, <1>1, <2>1, ThreadSettles, PhasesAreNot DEF Rests
<1>2. CASE Move
  BY Zenon, <1>0, <1>2, MoveFrame DEF Move, Restart
<1>3. ASSUME NEW c \in Tasks, Unfold(c) PROVE status'[u] = status[u]
  BY Zenon, <1>0, <1>3, UnfoldFrame, PhasesAreNot DEF Rests
<1>4. ASSUME NEW t \in Tasks, Start(t) \/ RestartTask(t) PROVE status'[u] = status[u]
  BY Zenon, <1>4, SubmitRests, PhasesAreNot DEF Rests, Start, RestartTask
<1>5. ASSUME NEW t \in Tasks, Skip(t) \/ LaunchFails(t) PROVE status'[u] = status[u]
  BY Zenon, <1>5, LookRests, FailsFrame, PhasesAreNot DEF Rests, Skip
<1>6. ASSUME NEW t \in Tasks, FailTask(t) PROVE status'[u] = status[u]
  BY Zenon, <1>6, DoneRests, PhasesAreNot DEF Rests, FailTask
<1>7. ASSUME NEW t \in Tasks, StopTask(t) PROVE status'[u] = status[u]
  BY Zenon, <1>7, StopRests, PhasesAreNot DEF Rests, StopTask
<1>8. ASSUME NEW t \in Tasks, LaunchAttempt(t)
      PROVE  IF u = t THEN status'[u] = "input_validating" ELSE status'[u] = status[u]
  BY Zenon, <1>8 DEF LaunchAttempt, Launch, PoolType
<1>9. ASSUME Take \/ UnfoldRaises \/ Carry \/ CloseMonitors \/ Shutdown \/ UNCHANGED vars
      PROVE  status'[u] = status[u]
  BY Zenon, <1>9 DEF Take, UnfoldRaises, Carry, CloseMonitors, Shutdown, vars, scheduler
<1>10. ~Restart
  BY Zenon, ResumeRests DEF Restart
<1> QED BY Zenon, <1>1, <1>2, <1>3, <1>4, <1>5, <1>6, <1>7, <1>8, <1>9, <1>10
           DEF Next, Monitor, Dispatch, Operator

\* An attempt is the runner's until it is stopped or the process ends.
LEMMA CurrentSteps ==
  ASSUME PoolType, RestType, [Next]_vars, NEW u \in Tasks
  PROVE  \/ current'[u] = current[u]
         \/ /\ current'[u] = 0
            /\ StopTask(u) \/ Shutdown \/ Restart
         \/ LaunchAttempt(u) /\ current'[u] = tries[u] + 1
         \/ /\ LaunchFails(u) /\ current'[u] = tries[u] + 1 /\ tries'[u] = tries[u] + 1
            /\ status'[u] = "failed"
<1>0. ThreadType /\ WhyType
  BY Zenon DEF RestType
<1>1. ASSUME NEW a \in Attempts, Thread(a) PROVE UNCHANGED current
  BY Zenon, <1>0, <1>1, ThreadFrame
<1>2. CASE (\E t \in Tasks : Start(t) \/ Skip(t) \/ FailTask(t) \/ RestartTask(t))
           \/ CloseMonitors \/ Take \/ Move \/ (\E c \in Tasks : Unfold(c)) \/ UnfoldRaises \/ Carry
           \/ UNCHANGED vars
  BY Zenon, <1>2 DEF Start, Skip, FailTask, RestartTask, CloseMonitors, Take, Move,
     Unfold, UnfoldRaises, Carry, vars, attempt
<1>3. ASSUME NEW t \in Tasks, LaunchAttempt(t)
      PROVE  IF u = t THEN current'[u] = tries[u] + 1 ELSE current'[u] = current[u]
  BY Zenon, <1>0, <1>3 DEF LaunchAttempt, ThreadType
<1>4. ASSUME NEW t \in Tasks, StopTask(t)
      PROVE  current'[u] = current[u] \/ (u = t /\ current'[u] = 0)
  BY Zenon, <1>0, <1>4 DEF StopTask, ThreadType
<1>5. CASE Shutdown \/ Restart
  BY Zenon, <1>5 DEF Shutdown, Restart
<1>6. ASSUME NEW t \in Tasks, LaunchFails(t)
      PROVE  \/ current'[u] = current[u]
             \/ /\ u = t /\ current'[u] = tries[u] + 1 /\ tries'[u] = tries[u] + 1
                /\ status'[u] = "failed"
  <2>1. PICK pushed \in BOOLEAN :
           /\ AbortLaunch(t, pushed)
           /\ UNCHANGED current \/ (pushed /\ current' = [current EXCEPT ![t] = tries'[t]])
    BY Zenon, <1>6, FailsFrame
  <2>2. status'[t] = "failed" /\ (pushed => tries'[t] = tries[t] + 1)
    BY Zenon, <2>1 DEF AbortLaunch, PoolType
  <2> QED BY Zenon, <1>0, <2>1, <2>2 DEF ThreadType
<1> QED BY Zenon, <1>1, <1>2, <1>3, <1>4, <1>5, <1>6 DEF Next, Monitor, Dispatch, Operator

\* A history is cut short by a launch only.
LEMMA WhySteps ==
  ASSUME PoolType, RestType, [Next]_vars, NEW u \in Tasks
  PROVE  Keeps(u) \/ LaunchAttempt(u)
<1>0. MonitorType /\ WhyType /\ ThreadType
  BY Zenon DEF RestType
<1>r. {"stopped", "stale", "refused"} \subseteq Reasons /\ "" \notin {"stopped", "stale", "refused"}
      /\ "stopped" \in Reasons /\ "stopped" # "" /\ "stale" \in Reasons /\ "stale" # ""
      /\ "refused" \in Reasons /\ "refused" # ""
  BY Zenon DEF Reasons
<1>1. ASSUME NEW a \in Attempts, Thread(a) PROVE Keeps(u)
  BY Zenon, <1>0, <1>1, ThreadFrame
<1>2. ASSUME UNCHANGED why PROVE Keeps(u)
  BY Zenon, <1>2, NoNoteKeeps
<1>3. CASE (\E t \in Tasks : Start(t) \/ Skip(t) \/ LaunchFails(t) \/ RestartTask(t))
           \/ CloseMonitors \/ (\E c \in Tasks : Unfold(c)) \/ Shutdown \/ Restart \/ UNCHANGED vars
  BY Zenon, <1>2, <1>3 DEF Start, Skip, LaunchFails, RestartTask, CloseMonitors,
     Unfold, Shutdown, Restart, vars
<1>4. ASSUME NEW t \in Tasks, StopTask(t) \/ FailTask(t) PROVE Keeps(u)
  BY Zenon, <1>0, <1>r, <1>4, NoteKeeps DEF StopTask, FailTask
<1>5. ASSUME NEW t \in Tasks, LaunchAttempt(t), u # t PROVE Keeps(u)
  <2>1. why'[u] = why[u]
    BY Zenon, <1>0, <1>5 DEF LaunchAttempt, WhyType
  <2> QED BY Zenon, <2>1 DEF Keeps, Hurried
<1>6. CASE Move \/ Carry
  BY Zenon, <1>0, <1>6, MoveFrame, CarryFrame
<1>7. CASE Take
  <2>1. Head(planned).task \in Tasks
    <3>1. Head(planned) \in Records
      BY Zenon, <1>0, <1>7, TailItems DEF Take, MonitorType
    <3> QED BY Zenon, <3>1 DEF Records
  <2> QED BY Zenon, <1>0, <1>r, <1>2, <1>7, <2>1, NoteKeeps DEF Take
<1>8. CASE UnfoldRaises
  <2>1. mon.task \in Tasks
    BY Zenon, <1>0, <1>8, AtMoves DEF UnfoldRaises
  <2> QED BY Zenon, <1>0, <1>r, <1>8, <2>1, NoteKeeps DEF UnfoldRaises
<1> QED BY Zenon, <1>1, <1>3, <1>4, <1>5, <1>6, <1>7, <1>8 DEF Next, Monitor, Dispatch, Operator

\* What is published stays published.
LEMMA StoredSteps ==
  ASSUME RestType, [Next]_vars
  PROVE  stored \subseteq stored'
<1>0. WhyType
  BY Zenon DEF RestType
<1>1. ASSUME NEW a \in Attempts, Thread(a) PROVE stored \subseteq stored'
  BY Zenon, <1>0, <1>1, ThreadFrame
<1>2. CASE Dispatch \/ Operator \/ \E t \in Tasks : Start(t)
  BY Zenon, <1>2 DEF Dispatch, Operator, Start, Skip, LaunchAttempt, LaunchFails, StopTask,
                     FailTask,
     RestartTask, files
<1>3. CASE Monitor
  BY Zenon, <1>3 DEF Monitor, Take, Move, Unfold, UnfoldRaises, Carry, files
<1>4. CASE CloseMonitors \/ Shutdown \/ Restart \/ UNCHANGED vars
  BY Zenon, <1>4 DEF CloseMonitors, Shutdown, Restart, vars, files
<1> QED BY Zenon, <1>1, <1>2, <1>3, <1>4 DEF Next

\* The end of a subgraph is announced to a task that has one.
LEMMA NextFolded ==
  ASSUME PoolType, RestType, Folded, [Next]_vars
  PROVE  Folded'
<1> SUFFICES ASSUME NEW x \in Items(planned'), x.kind = "subgraph_done" PROVE ~IsLeaf(x.task)
  BY Zenon DEF Folded, IsLeaf, Children
<1>1. CASE x \in Items(planned)
  BY Zenon, <1>1 DEF Folded
<1>2. ASSUME NEW a \in Attempts, x = RecordOf(a) PROVE FALSE
  BY Zenon, <1>2 DEF RecordOf
<1>3. CASE Take /\ Announces(Head(planned)) /\ x = Announcement(Head(planned))
  <2> DEFINE r == Head(planned)
  <2>1. r \in Records
    BY Zenon, <1>3, TailItems DEF Take, RestType, MonitorType
  <2> HIDE DEF r
  <2>2. r.task \in Tasks
    BY Zenon, <2>1 DEF Records
  <2>3. x.task = Parent[r.task]
    BY Zenon, <1>3 DEF Announcement, r
  <2> QED BY Zenon, <2>2, <2>3 DEF IsLeaf, Children
<1> QED BY Zenon, <1>1, <1>2, <1>3, QueueSteps

\* tries only grows.
LEMMA TriesSteps ==
  ASSUME PoolType, RestType, [Next]_vars, NEW u \in Tasks
  PROVE  /\ LaunchAttempt(u) => tries'[u] = tries[u] + 1
         /\ tries'[u] = tries[u] \/ tries'[u] = tries[u] + 1
<1>0. WhyType /\ MonitorType /\ ThreadType
  BY Zenon DEF RestType
<1>1. ASSUME NEW t \in Tasks, LaunchAttempt(t)
      PROVE  tries'[u] = IF u = t THEN tries[u] + 1 ELSE tries[u]
  BY Zenon, <1>1 DEF LaunchAttempt, Launch, PoolType
<1>2. ASSUME NEW t \in Tasks, Start(t) \/ Skip(t) \/ StopTask(t) \/ FailTask(t) \/ RestartTask(t)
      PROVE  UNCHANGED tries
  BY Zenon, <1>2 DEF Start, Submit, Skip, PassOver, Demote, StopTask, Stop, StopRaises, FailTask,
     OnTaskDone, RestartTask, ResumeTask
<1>3. ASSUME NEW a \in Attempts, Thread(a) PROVE UNCHANGED tries
  BY Zenon, <1>0, <1>3, ThreadFrame
<1>4. ASSUME Monitor PROVE UNCHANGED tries
  BY Zenon, <1>4 DEF Monitor, Take, Move, Unfold, Submit, UnfoldRaises, Carry, scheduler
<1>5. ASSUME CloseMonitors \/ Shutdown \/ Restart \/ UNCHANGED vars PROVE UNCHANGED tries
  BY Zenon, <1>5 DEF CloseMonitors, Shutdown, Restart, Resume, vars, scheduler
<1>6. ASSUME NEW t \in Tasks, LaunchFails(t)
      PROVE  tries'[u] = tries[u] \/ tries'[u] = tries[u] + 1
  <2>1. PICK pushed \in BOOLEAN : AbortLaunch(t, pushed)
    BY Zenon, <1>6, FailsFrame
  <2> QED BY Zenon, <2>1 DEF AbortLaunch, PoolType
<1> QED BY Zenon, <1>1, <1>2, <1>3, <1>4, <1>5, <1>6 DEF Next, Dispatch, Operator

\* A thread's place, and what it holds, is its own, the launch's or the runner's.
LEMMA PlaceSteps ==
  ASSUME PoolType, RestType, Fresh, [Next]_vars, NEW u \in Tasks, NEW n \in 1 .. MaxAttempts,
         n > tries'[u]
  PROVE  /\ pc'[<<u, n>>] = "none" /\ ~halted'[<<u, n>>]
         /\ ~woken'[<<u, n>>] /\ ~holds'[<<u, n>>]
<1>0. WhyType /\ MonitorType /\ ThreadType
  BY Zenon DEF RestType
<1> DEFINE b == <<u, n>>
<1>b. b \in Attempts
  BY Zenon DEF Attempts
<1>1. n > tries[u] /\ n # current[u] /\ tries'[u] \in Nat /\ tries[u] \in Nat
  BY <1>0, TriesSteps DEF PoolType, Fresh, ThreadType
<1>2. pc[b] = "none" /\ ~halted[b] /\ ~woken[b] /\ ~holds[b]
  BY Zenon, <1>1 DEF Fresh
<1>3. ASSUME UNCHANGED <<pc, halted, woken, holds>>
      PROVE  pc'[b] = "none" /\ ~halted'[b] /\ ~woken'[b] /\ ~holds'[b]
  BY Zenon, <1>2, <1>3
<1>4. ASSUME NEW a \in Attempts, Thread(a)
      PROVE  pc'[b] = "none" /\ ~halted'[b] /\ ~woken'[b] /\ ~holds'[b]
  BY Zenon, <1>0, <1>b, <1>2, <1>4, ThreadPlaces
<1>5. ASSUME NEW t \in Tasks, LaunchAttempt(t)
      PROVE  pc'[b] = "none" /\ ~halted'[b] /\ ~woken'[b] /\ ~holds'[b]
  <2>1. pc' = [pc EXCEPT ![<<t, tries[t] + 1>>] = "loop"] /\ UNCHANGED <<halted, woken, holds>>
    BY Zenon, <1>5 DEF LaunchAttempt
  <2>2. b # <<t, tries[t] + 1>>
    <3>1. CASE u = t
      <4>1. n # tries[t] + 1
        BY <1>1, <1>5, <3>1, TriesSteps
      <4> QED BY Zenon, <4>1
    <3> QED BY Zenon, <3>1
  <2>3. pc'[b] = pc[b]
    BY Zenon, <1>0, <1>b, <2>1, <2>2 DEF ThreadType
  <2> QED BY Zenon, <1>2, <2>1, <2>3
<1>6. ASSUME NEW S, Halt(S), b \notin S, UNCHANGED <<pc, holds>>
      PROVE  pc'[b] = "none" /\ ~halted'[b] /\ ~woken'[b] /\ ~holds'[b]
  BY Zenon, <1>b, <1>2, <1>6 DEF Halt
<1>7. ASSUME NEW t \in Tasks PROVE b \notin Mapped(t)
  BY Zenon, <1>1 DEF Mapped
<1>8. CASE (\E t \in Tasks : StopTask(t)) \/ Shutdown
  BY Zenon, <1>6, <1>7, <1>8 DEF StopTask, Shutdown
<1>9. CASE Carry
  <2> DEFINE a == <<mon.task, current[mon.task]>>
  <2>1. b # a
    BY Zenon, <1>1
  <2>2. /\ UNCHANGED pc \/ pc' = [pc EXCEPT ![a] = "loop"]
        /\ UNCHANGED halted \/ halted' = [halted EXCEPT ![a] = FALSE]
        /\ UNCHANGED woken \/ woken' = [woken EXCEPT ![a] = TRUE] \/ woken' = [woken EXCEPT ![a] = FALSE]
        /\ UNCHANGED holds
    BY Zenon, <1>9 DEF Carry, Goto
  <2> HIDE DEF a
  <2>3. ASSUME NEW f, NEW g, NEW x, g = [f EXCEPT ![a] = x] PROVE g[b] = f[b]
    BY <2>1, <2>3
  <2> QED BY Zenon, <1>2, <2>2, <2>3
<1>10. CASE (\E t \in Tasks : Start(t) \/ Skip(t) \/ LaunchFails(t) \/ FailTask(t) \/ RestartTask(t))
            \/ CloseMonitors \/ Take \/ Move \/ (\E c \in Tasks : Unfold(c)) \/ UnfoldRaises
            \/ UNCHANGED vars
  BY Zenon, <1>3, <1>10 DEF Start, Skip, LaunchFails, FailTask, RestartTask, CloseMonitors,
                            Take, Move,
     Unfold, UnfoldRaises, vars, attempt
<1>11. CASE Restart
  BY Zenon, <1>b, <1>11 DEF Restart
<1> QED BY Zenon, <1>4, <1>5, <1>8, <1>9, <1>10, <1>11 DEF Next, Monitor, Dispatch, Operator

\* A record of a queue of records is a record.
LEMMA ItemsType ==
  ASSUME NEW S, NEW q \in Seq(S), NEW x \in Items(q)
  PROVE  x \in S
<1>1. PICK i \in DOMAIN q : x = q[i]
  BY Zenon DEF Items
<1> QED BY <1>1

\* At most is transitive.
LEMMA AtMostTrans ==
  ASSUME NEW i \in Int, NEW j \in Int, NEW k \in Int, i <= j, j <= k
  PROVE  i <= k
  OBVIOUS

\* Nothing speaks of an attempt before it is launched.
LEMMA NextFresh ==
  ASSUME PoolType, RestType, Fresh, [Next]_vars
  PROVE  Fresh'
<1>0. WhyType /\ MonitorType /\ ThreadType
  BY Zenon DEF RestType
<1>1. ASSUME NEW u \in Tasks PROVE tries[u] \in Nat /\ tries[u] \in Int /\ tries'[u] \in Int /\ tries[u] <= tries'[u]
  BY TriesSteps DEF PoolType
<1>m. \A k \in 0 .. MaxAttempts : k \in Int
  BY AttemptConfig
<1>n. \A k \in 1 .. MaxAttempts : k \in Int
  BY AttemptConfig
<1>2. ASSUME NEW u \in Tasks PROVE current'[u] <= tries'[u]
  <2>1. current[u] \in Int /\ current[u] <= tries[u]
    BY <1>0 DEF Fresh, ThreadType
  <2> QED BY <1>1, <2>1, CurrentSteps, TriesSteps
<1>3. ASSUME NEW x \in Items(planned'), x.kind = "phase_done" PROVE x.attempt <= tries'[x.task]
  <2>1. CASE x \in Items(planned)
    <3>1. x \in Records
      BY Zenon, <1>0, <2>1, ItemsType DEF MonitorType
    <3>2. x.task \in Tasks /\ x.attempt \in 1 .. MaxAttempts /\ x.attempt <= tries[x.task]
      BY Zenon, <1>3, <2>1, <3>1 DEF Records, Fresh
    <3> QED BY Zenon, <1>1, <1>n, <3>2, AtMostTrans
  <2>2. ASSUME NEW a \in Attempts, Thread(a), x = RecordOf(a) PROVE x.attempt <= tries'[x.task]
    <3>1. x.task = a[1] /\ x.attempt = a[2] /\ a[1] \in Tasks /\ a[2] \in 1 .. MaxAttempts /\ a = <<a[1], a[2]>>
      BY Zenon, <2>2, RecordType
    <3>2. pc[<<a[1], a[2]>>] # "none"
      BY Zenon, <1>0, <2>2, <3>1, ThreadPlaces
    <3>3. ~(a[2] > tries[a[1]])
      BY Zenon, <3>1, <3>2 DEF Fresh
    <3>4. a[2] <= tries[a[1]]
      <4>1. a[2] \in Int /\ tries[a[1]] \in Int
        BY Zenon, <1>1, <1>n, <3>1
      <4> QED BY <3>3, <4>1
    <3> QED BY Zenon, <1>1, <1>n, <3>1, <3>4, AtMostTrans
  <2>3. x # Announcement(Head(planned))
    BY <1>3 DEF Announcement
  <2> QED BY Zenon, <2>1, <2>2, <2>3, QueueSteps
<1>4. ASSUME mon' # Idle PROVE mon'.attempt <= tries'[mon'.task]
  <2>1. CASE ~Take
    <3>1. /\ mon # Idle /\ mon'.task = mon.task /\ mon'.attempt = mon.attempt
      BY Zenon, <1>4, <2>1, HandSteps
    <3>2. mon.task \in Tasks /\ mon.attempt \in 0 .. MaxAttempts /\ mon.attempt <= tries[mon.task]
      BY Zenon, <1>0, <3>1 DEF MonitorType, Moves, Fresh
    <3> QED BY Zenon, <1>1, <1>m, <3>1, <3>2, AtMostTrans
  <2>2. CASE Take
    <3> DEFINE r == Head(planned)
               k == IF r.kind = "phase_done" THEN r.attempt
                    ELSE IF status[r.task] = "running" THEN current[r.task] ELSE 0
    <3>1. r \in Records /\ r \in Items(planned)
      BY Zenon, <1>0, <2>2, TailItems, QueueItems DEF Take, MonitorType
    <3>2. mon'.task = r.task /\ mon'.attempt = k
      BY Zenon, <1>4, <2>2 DEF Take
    <3> HIDE DEF r
    <3>3. r.task \in Tasks /\ (r.kind = "phase_done" => r.attempt \in 1 .. MaxAttempts /\ r.attempt <= tries[r.task])
      BY Zenon, <3>1 DEF Records, Fresh
    <3>4. current[r.task] \in Int /\ current[r.task] <= tries[r.task]
      BY <1>0, <3>3 DEF Fresh, ThreadType
    <3>5. k \in Int /\ k <= tries[r.task]
      BY <1>1, <3>3, <3>4
    <3> HIDE DEF k
    <3> QED BY Zenon, <1>1, <3>2, <3>3, <3>5, AtMostTrans
  <2> QED BY Zenon, <2>1, <2>2
<1> QED BY Zenon, <1>2, <1>3, <1>4, PlaceSteps DEF Fresh

\* A task in a phase keeps its attempt until the process ends.
LEMMA NextZero ==
  ASSUME PoolType, RestType, Remembers, Zero, [Next]_vars
  PROVE  Zero'
<1> SUFFICES ASSUME NEW u \in Tasks, status'[u] \in Phases, why'[u] # "raced", current'[u] = 0
             PROVE  closing' /\ planned' = <<>> /\ mon' = Idle
  BY Zenon DEF Zero
<1>0. WhyType /\ MonitorType /\ ThreadType /\ why[u] # "raced"
  BY Zenon DEF RestType, Remembers
<1>1. CASE Shutdown
  BY Zenon, <1>1 DEF Shutdown, monitor
<1>2. CASE ~Shutdown
  <2>1. ~StopTask(u)
    BY Zenon, StopRests, PhasesAreNot DEF StopTask
  <2>2. ~LaunchAttempt(u)
    <3>1. LaunchAttempt(u) => current'[u] = tries[u] + 1
      BY Zenon, <1>0 DEF LaunchAttempt, ThreadType
    <3> QED BY <3>1 DEF PoolType
  <2>3. ~Restart
    BY Zenon, ResumeRests DEF Restart
  <2>4. current[u] = 0
    BY Zenon, <1>2, <2>1, <2>2, <2>3, CurrentSteps, PhasesAreNot
  <2>5. status[u] \in Phases
    BY Zenon, <1>0, <2>2, StatusSteps, MoveFrame
  <2>6. closing /\ planned = <<>> /\ mon = Idle
    BY Zenon, <1>0, <2>4, <2>5 DEF Zero
  <2>7. mon.at \notin {"move", "unfold", "carry"}
    BY Zenon, <2>6 DEF Idle
  <2>8. ~Monitor
    BY Zenon, <2>6, <2>7 DEF Monitor, Take, Move, Unfold, UnfoldRaises, Carry
  <2>9. ASSUME NEW a \in Attempts, Thread(a) PROVE UNCHANGED <<closing, planned, mon>>
    BY Zenon, <1>0, <2>6, <2>9, ThreadFrame, ThreadQueue
  <2>10. CASE (\E t \in Tasks : Start(t)) \/ Dispatch \/ Operator
    BY Zenon, <2>6, <2>10 DEF Dispatch, Operator, Start, Skip, LaunchAttempt, LaunchFails,
                              StopTask,
       FailTask, RestartTask, monitor
  <2>11. CASE CloseMonitors \/ UNCHANGED vars
    BY Zenon, <2>6, <2>11 DEF CloseMonitors, vars, monitor
  <2> QED BY Zenon, <1>2, <2>3, <2>6, <2>8, <2>9, <2>10, <2>11 DEF Next
<1> QED BY Zenon, <1>1, <1>2

\* A task keeps its leases while it is in a phase or stopping, and no longer.
LEMMA NextOpens ==
  ASSUME PoolType, RestType, Remembers, Opens, [Next]_vars
  PROVE  Opens'
<1> DEFINE Held == Phases \cup {"stopping"}
<1> SUFFICES ASSUME NEW u \in Tasks, why'[u] # "raced" PROVE open'[u] <=> status'[u] \in Held
  BY Zenon DEF Opens
<1>0. WhyType /\ MonitorType /\ ThreadType /\ why[u] # "raced"
  BY Zenon DEF RestType, Remembers
<1>1. open[u] <=> status[u] \in Held
  BY Zenon, <1>0 DEF Opens
<1>2. \A s \in Waiting \cup {"succeeded", "failed", "suspended", "absent", "cancelled"} : s \notin Held
  BY Zenon DEF Waiting, Phases
<1>3. "stopping" \in Held /\ \A s \in Phases : s \in Held
  BY Zenon
<1> HIDE DEF Held
<1>4. ASSUME Rests(u), open'[u] = open[u] PROVE open'[u] <=> status'[u] \in Held
  BY Zenon, <1>1, <1>2, <1>4 DEF Rests
<1>5. ASSUME NEW t \in Tasks, Submit(t) \/ ResumeTask(t) PROVE open'[u] <=> status'[u] \in Held
  <2>1. UNCHANGED open
    BY Zenon, <1>5 DEF Submit, ResumeTask
  <2>2. CASE u # t
    BY Zenon, <1>4, <1>5, <2>1, <2>2, SubmitRests
  <2>3. CASE u = t
    <3>1. status[u] \in {"absent", "cancelled", "failed", "suspended"}
      BY Zenon, <1>5, <2>3 DEF Submit, ResumeTask, Resumable
    <3> QED BY Zenon, <1>1, <1>2, <1>5, <2>1, <2>3, <3>1, SubmitRests
  <2> QED BY Zenon, <2>2, <2>3
<1>6. ASSUME NEW t \in Tasks, Skip(t) \/ LaunchFails(t) PROVE open'[u] <=> status'[u] \in Held
  <2>1. CASE Skip(t)
    <3>1. UNCHANGED open /\ (status'[u] = status[u] \/ Rests(u))
      BY Zenon, <2>1, LookRests DEF Skip, PassOver, Demote, Waiting, PoolType, Rests
    <3> QED BY Zenon, <1>4, <3>1 DEF Rests
  <2>2. CASE LaunchFails(t)
    <3>1. open' = [open EXCEPT ![t] = FALSE] /\ status' = [status EXCEPT ![t] = "failed"]
      BY Zenon, <2>2, FailsFrame DEF AbortLaunch
    <3> QED BY Zenon, <1>1, <1>2, <3>1 DEF PoolType
  <2> QED BY Zenon, <1>6, <2>1, <2>2
<1>7. ASSUME NEW t \in Tasks, LaunchAttempt(t) PROVE open'[u] <=> status'[u] \in Held
  <2>1. open' = [open EXCEPT ![t] = TRUE] /\ status' = [status EXCEPT ![t] = "input_validating"]
    BY Zenon, <1>7 DEF LaunchAttempt, Launch
  <2>2. "input_validating" \in Held
    BY Zenon, <1>3 DEF Phases
  <2> QED BY Zenon, <1>1, <2>1, <2>2 DEF PoolType
<1>8. ASSUME NEW t \in Tasks, NEW s \in {"succeeded", "failed"}, NEW used, OnTaskDone(t, s, used)
      PROVE  open'[u] <=> status'[u] \in Held
  <2>1. CASE Accepts(t)
    <3>1. open' = [open EXCEPT ![t] = FALSE]
      BY Zenon, <1>8, <2>1 DEF OnTaskDone
    <3>2. u # t => Rests(u) /\ open'[u] = open[u]
      BY Zenon, <1>8, <3>1, DoneRests DEF PoolType
    <3>3. u = t => status'[u] = s /\ ~open'[u]
      BY Zenon, <1>8, <2>1, <3>1, DoneRests DEF PoolType
    <3> QED BY Zenon, <1>2, <1>4, <3>2, <3>3
  <2>2. CASE ~Accepts(t)
    BY Zenon, <1>1, <1>8, <2>2 DEF OnTaskDone
  <2> QED BY Zenon, <2>1, <2>2
<1>9. ASSUME NEW t \in Tasks, StopTask(t) PROVE open'[u] <=> status'[u] \in Held
  <2>1. CASE StopRaises(t)
    <3>1. UNCHANGED open /\ status[t] \in Phases /\ status' = [status EXCEPT ![t] = "stopping"]
      BY Zenon, <2>1 DEF StopRaises
    <3> QED BY Zenon, <1>1, <1>3, <3>1 DEF PoolType
  <2>2. CASE Stop(t)
    <3>1. CASE u # t
      <4>1. open'[u] = open[u]
        BY Zenon, <2>2, <3>1 DEF Stop, PoolType
      <4> QED BY Zenon, <1>4, <2>2, <3>1, <4>1, StopRests
    <3>2. CASE u = t
      <4>1. open[t]
        BY Zenon, <1>1, <1>3, <2>2, <3>2 DEF Stop
      <4>2. open' = [open EXCEPT ![t] = FALSE] /\ TryDispatch([status EXCEPT ![t] = "suspended"])
        BY Zenon, <2>2, <4>1 DEF Stop
      <4>3. "suspended" \in Statuses /\ "suspended" \notin Waiting
        BY Zenon DEF Statuses, Waiting, Resumable
      <4>4. status'[t] = "suspended" /\ ~open'[t]
        BY Zenon, <4>2, <4>3, LandsBut DEF PoolType
      <4> QED BY Zenon, <1>2, <3>2, <4>4
    <3> QED BY Zenon, <3>1, <3>2
  <2> QED BY Zenon, <1>9, <2>1, <2>2 DEF StopTask
<1>10. ASSUME NEW a \in Attempts, Thread(a) PROVE open'[u] <=> status'[u] \in Held
  <2>1. a[1] \in Tasks
    BY Zenon DEF Attempts
  <2>2. CASE UNCHANGED <<status, open>>
    BY Zenon, <1>1, <2>2
  <2>3. CASE /\ status'[a[1]] \in {"succeeded", "failed"}
             /\ open' = [open EXCEPT ![a[1]] = FALSE]
    <3>1. u # a[1] => Rests(u) /\ open'[u] = open[u]
      BY Zenon, <1>10, <2>1, <2>3, ThreadSettles DEF PoolType
    <3>2. u = a[1] => ~open'[u]
      BY Zenon, <2>1, <2>3 DEF PoolType
    <3> QED BY Zenon, <1>2, <1>4, <2>3, <3>1, <3>2
  <2> QED BY Zenon, <1>10, <2>2, <2>3, ThreadSettles
<1>11. CASE Move
  <2>1. /\ u # mon.task => status'[u] = status[u]
        /\ u = mon.task => status[u] \in Phases /\ status'[u] \in Phases
        /\ UNCHANGED open
    <3>1. mon.from \in Phases /\ Successor(mon.from) \in Phases
      BY Zenon, <1>0, <1>11, MoveFrame DEF Successor, Phases
    <3> QED BY Zenon, <1>0, <1>11, <3>1, MoveFrame
  <2> QED BY Zenon, <1>1, <1>3, <2>1
<1>12. CASE Restart
  <2>1. ~open'[u] /\ status'[u] \notin Phases \cup {"stopping"}
    BY Zenon, <1>12, ResumeRests DEF Restart, Resume
  <2> QED BY Zenon, <2>1 DEF Held
<1>13. CASE Take \/ UnfoldRaises \/ Carry \/ CloseMonitors \/ Shutdown \/ UNCHANGED vars
  BY Zenon, <1>1, <1>13 DEF Take, UnfoldRaises, Carry, CloseMonitors, Shutdown, vars, scheduler
<1>14. CASE \E t \in Tasks : Start(t) \/ RestartTask(t) \/ Unfold(t)
  BY Zenon, <1>5, <1>14 DEF Start, RestartTask, Unfold
<1>15. ASSUME NEW t \in Tasks, FailTask(t) PROVE open'[u] <=> status'[u] \in Held
  BY Zenon, <1>8, <1>15 DEF FailTask
<1> QED BY Zenon, <1>6, <1>7, <1>9, <1>10, <1>11, <1>12, <1>13, <1>14, <1>15
           DEF Next, Monitor, Dispatch, Operator
\* What is on its way to the output validation stays published.
LEMMA NextPub ==
  ASSUME EndsExport, PoolType, RestType, Remembers, Fresh, Zero, Protocol, Pub, [Next]_vars
  PROVE  Pub'
<1>0. WhyType /\ MonitorType /\ ThreadType
  BY Zenon DEF RestType
<1>1. \A u \in Tasks : Published(u) => Published(u)'
  BY Zenon, StoredSteps DEF Published
<1>2. \A u \in Tasks : why[u] = "raced" => why'[u] = "raced"
  BY Zenon DEF Remembers
<1>n. \A k \in 1 .. MaxAttempts : k # 0 /\ k \in Int
  OBVIOUS
<1>3. ASSUME NEW x \in Items(planned'), x.kind = "subgraph_done" PROVE x.early \/ Published(x.task)'
  <2>1. CASE x \in Items(planned)
    <3>1. x \in Records
      BY Zenon, <1>0, <2>1, ItemsType DEF MonitorType
    <3>2. x.task \in Tasks
      BY Zenon, <3>1 DEF Records
    <3> QED BY Zenon, <1>1, <1>3, <2>1, <3>2 DEF Pub
  <2>2. ASSUME NEW a \in Attempts, x = RecordOf(a) PROVE FALSE
    BY Zenon, <1>3, <2>2 DEF RecordOf
  <2>3. CASE Take /\ Announces(Head(planned)) /\ x = Announcement(Head(planned))
    <3> DEFINE r == Head(planned)
    <3>1. r \in Records /\ r \in Items(planned) /\ Announces(r) /\ x = Announcement(r)
      BY Zenon, <1>0, <2>3, TailItems, QueueItems DEF Take, MonitorType
    <3> HIDE DEF r
    <3>2. r.task \in Tasks /\ x.task = Parent[r.task] /\ x.early = Early(r)
      BY Zenon, <3>1 DEF Records, Announcement
    <3>3. CASE ~Early(r)
      <4>1. Published(r.task)
        BY Zenon, <3>1, <3>3 DEF Pub, Announces, Completes, Early
      <4>2. Parent[r.task] \in Tasks
        BY Zenon, <3>1, <3>2, TaskConfig DEF Announces
      <4>3. Published(Parent[r.task])
        BY Zenon, <3>1, <4>1 DEF Published, EndsExport, Announces
      <4> QED BY Zenon, <1>1, <3>2, <4>2, <4>3
    <3> QED BY Zenon, <3>2, <3>3
  <2> QED BY Zenon, <2>1, <2>2, <2>3, QueueSteps
<1>4. ASSUME NEW u \in Tasks, NEW n \in Int, n # 0, n <= tries[u], n = current'[u]
      PROVE  n = current[u] /\ Keeps(u)
  <2>1. LaunchAttempt(u) => current'[u] = tries[u] + 1
    BY Zenon, <1>0 DEF LaunchAttempt, ThreadType
  <2>2. ~LaunchAttempt(u) /\ current'[u] # tries[u] + 1
    BY <1>4, <2>1 DEF PoolType
  <2> QED BY Zenon, <1>4, <2>2, CurrentSteps, WhySteps
<1>5. ASSUME NEW x \in Items(planned'), x.kind = "phase_done", x.attempt = current'[x.task],
             x.phase = "output_validating"
      PROVE  Hurried(x.task)' \/ Published(x.task)'
  <2>1. CASE x \in Items(planned)
    <3>1. x \in Records
      BY Zenon, <1>0, <2>1, ItemsType DEF MonitorType
    <3>2. x.task \in Tasks /\ x.attempt \in 1 .. MaxAttempts
      BY Zenon, <1>5, <3>1 DEF Records
    <3>3. x.attempt <= tries[x.task]
      BY Zenon, <1>5, <2>1 DEF Fresh
    <3>4. x.attempt = current[x.task] /\ Keeps(x.task)
      BY Zenon, <1>n, <1>4, <1>5, <3>2, <3>3
    <3> QED BY Zenon, <1>1, <1>5, <2>1, <3>2, <3>4 DEF Pub, Keeps
  <2>2. ASSUME NEW a \in Attempts, Thread(a), x = RecordOf(a), Stale(a) => Note(a[1], "stale")
        PROVE  Hurried(x.task)' \/ Published(x.task)'
    <3>1. x.task = a[1] /\ a[1] \in Tasks /\ status[a[1]] = "output_validating"
      BY Zenon, <1>5, <2>2, RecordType
    <3>2. "stale" \in Reasons /\ "stale" # ""
      BY Zenon DEF Reasons
    <3>3. CASE Stale(a)
      BY Zenon, <1>0, <2>2, <3>1, <3>2, <3>3, NoteKeeps
    <3>4. CASE ~Stale(a)
      <4>1. Hurried(a[1]) \/ Published(a[1])
        BY Zenon, <3>1 DEF Pub, PublishedFirst, Published
      <4>2. Keeps(a[1])
        BY Zenon, <1>0, <2>2, <3>1, ThreadFrame
      <4> QED BY Zenon, <1>1, <3>1, <4>1, <4>2 DEF Keeps
    <3> QED BY Zenon, <3>3, <3>4
  <2>3. x # Announcement(Head(planned))
    BY <1>5 DEF Announcement
  <2> QED BY Zenon, <2>1, <2>2, <2>3, QueueSteps
<1>6. ASSUME mon' # Idle, mon'.at = "move", mon'.from = "running"
      PROVE  IF mon'.attempt = 0 THEN why'[mon'.task] = "raced"
             ELSE mon'.attempt = current'[mon'.task]
                  => Hurried(mon.task)' \/ Published(mon.task)'
  <2>1. CASE ~Take
    <3>1. UNCHANGED mon /\ mon # Idle
      BY Zenon, <1>6, <2>1, HandSteps
    <3>2. mon.task \in Tasks /\ mon.attempt \in 0 .. MaxAttempts /\ mon.attempt <= tries[mon.task]
      BY Zenon, <1>0, <3>1 DEF MonitorType, Moves, Fresh
    <3>3. CASE mon.attempt = 0
      BY Zenon, <1>2, <1>6, <3>1, <3>2, <3>3 DEF Pub
    <3>4. CASE mon.attempt # 0 /\ mon.attempt = current'[mon.task]
      <4>0. PICK t \in Tasks : t = mon.task
        BY Zenon, <3>2
      <4>1. mon.attempt \in Int
        BY <3>2
      <4>2. mon.attempt = current[t] /\ Keeps(t)
        BY Zenon, <1>4, <3>2, <3>4, <4>0, <4>1
      <4>3. Hurried(t) \/ Published(t)
        BY Zenon, <1>6, <3>1, <3>4, <4>0, <4>2 DEF Pub
      <4>4. Hurried(t)' \/ Published(t)'
        BY Zenon, <1>1, <4>2, <4>3 DEF Keeps
      <4> QED BY Zenon, <3>1, <3>4, <4>0, <4>4
    <3> QED BY Zenon, <3>1, <3>3, <3>4
  <2>2. CASE Take
    <3> DEFINE r == Head(planned)
               t == r.task
               k == IF r.kind = "phase_done" THEN r.attempt
                    ELSE IF status[t] = "running" THEN current[t] ELSE 0
    <3>1. /\ r \in Records /\ r \in Items(planned) /\ mon = Idle /\ planned # <<>> /\ ~Completes(r)
          /\ UNCHANGED <<current, status>>
          /\ mon' = [at |-> "move", task |-> t, from |-> status[t], todo |-> {}, attempt |-> k]
          /\ r.kind = "subgraph_done" /\ r.early => Note(t, "stale")
      BY Zenon, <1>0, <1>6, <2>2, TailItems, QueueItems DEF Take, MonitorType, attempt,
         scheduler
    <3>2. mon'.task = t /\ mon'.attempt = k /\ status[t] = "running"
      BY Zenon, <1>6, <3>1
    <3> HIDE DEF r
    <3>3. /\ t \in Tasks /\ (r.kind = "phase_done" => r.attempt \in 1 .. MaxAttempts)
          /\ r.kind \in {"phase_done", "subgraph_done"}
      BY Zenon, <3>1 DEF Records
    <3>4. status[t] \in Phases
      BY Zenon, <3>2 DEF Phases
    <3>5. ASSUME k = 0 PROVE why'[t] = "raced"
      <4>1. current[t] = 0
        BY Zenon, <1>n, <3>2, <3>3, <3>5
      <4>2. why[t] = "raced"
        BY Zenon, <3>1, <3>3, <3>4, <4>1 DEF Zero
      <4> QED BY Zenon, <1>2, <3>3, <4>2
    <3>u. PICK u \in Tasks : u = t
      BY Zenon, <3>3
    <3>6. ASSUME k # 0, k = current'[u] PROVE Hurried(u)' \/ Published(u)'
      <4>1. Keeps(u)
        <5>1. ~LaunchAttempt(u)
          BY Zenon, <1>6, <3>1 DEF LaunchAttempt, monitor
        <5> QED BY Zenon, <5>1, WhySteps
      <4>2. CASE r.kind = "phase_done"
        <5>1. r.attempt = current[u] /\ current[u] # 0
          BY Zenon, <3>1, <3>6, <4>2
        <5>2. Reports(r, u, current[u])
          BY Zenon, <3>u, <4>2, <5>1 DEF Reports
        <5>3. Own(u)
          BY Zenon, <3>1, <5>2 DEF Own, Has, Items
        <5>4. ~Hurried(u) => Follows(u)
          BY Zenon, <3>u, <3>4, <5>1 DEF Protocol, Steady
        <5>5. ~Hurried(u) => Published(u)
          BY Zenon, <3>u, <3>2, <5>3, <5>4 DEF Follows, Place
        <5> QED BY Zenon, <1>1, <4>1, <5>5 DEF Keeps
      <4>3. CASE r.kind = "subgraph_done"
        <5>1. r.early => Hurried(u)'
          <6>1. "stale" \in Reasons /\ "stale" # ""
            BY Zenon DEF Reasons
          <6> QED BY Zenon, <1>0, <3>1, <3>u, <4>3, <6>1, NoteKeeps
        <5>2. ~r.early => Published(u)
          BY Zenon, <3>1, <3>u, <4>3 DEF Pub
        <5> QED BY Zenon, <1>1, <5>1, <5>2
      <4> QED BY Zenon, <3>3, <4>2, <4>3
    <3> QED BY Zenon, <3>2, <3>5, <3>6, <3>u
  <2> QED BY Zenon, <2>1, <2>2
<1>7. ASSUME NEW u \in Tasks, status'[u] = "output_validating", ~Hurried(u)' PROVE Published(u)'
  <2>0. status'[u] \in Phases /\ "output_validating" # "input_validating"
    BY Zenon, <1>7 DEF Phases
  <2>1. ~LaunchAttempt(u)
    BY Zenon, <1>7 DEF LaunchAttempt, Launch, PoolType
  <2>2. Keeps(u) /\ ~Hurried(u)
    BY Zenon, <1>7, <2>1, WhySteps DEF Keeps
  <2>3. CASE status'[u] = status[u]
    BY Zenon, <1>1, <1>7, <2>2, <2>3 DEF Pub, PublishedFirst, Published
  <2>4. CASE Move /\ mon.task = u
    <3>1. /\ status[u] = mon.from /\ mon.attempt = current[u] /\ mon # Idle /\ mon.at = "move"
          /\ Successor(mon.from) = "output_validating" /\ mon.from \in Phases
      BY Zenon, <1>0, <1>7, <2>4, MoveFrame DEF Hurried
    <3>2. mon.from = "running" \/ status[u] = status'[u]
      BY Zenon, <1>7, <3>1 DEF Successor, Phases
    <3>3. CASE mon.from = "running"
      <4>1. mon.attempt # 0 => Hurried(u) \/ Published(u)
        BY Zenon, <2>4, <3>1, <3>3 DEF Pub
      <4>2. mon.attempt = 0 => why[u] = "raced"
        BY Zenon, <2>4, <3>1, <3>3 DEF Pub
      <4> QED BY Zenon, <1>1, <2>2, <4>1, <4>2 DEF Hurried
    <3> QED BY Zenon, <2>3, <3>2, <3>3
  <2> QED BY Zenon, <2>0, <2>1, <2>3, <2>4, StatusSteps
<1>8. PublishedFirst'
  BY Zenon, <1>7 DEF PublishedFirst, Published
<1> QED BY Zenon, <1>3, <1>5, <1>6, <1>8 DEF Pub

\* Who moves a thread, and changes what it holds.
LEMMA PlacesSteps ==
  ASSUME PoolType, RestType, [Next]_vars, NEW b \in Attempts, ~Thread(b), ~Restart
  PROVE  /\ holds'[b] = holds[b]
         /\ \/ pc'[b] = pc[b]
            \/ LaunchAttempt(b[1]) /\ b[2] = tries[b[1]] + 1 /\ pc'[b] = "loop"
            \/ /\ Carry /\ b = <<mon.task, current[mon.task]>> /\ ~IsRunning(b)
               /\ Gone(b) /\ pc'[b] = "loop"
<1>0. WhyType /\ MonitorType /\ ThreadType
  BY Zenon DEF RestType
<1>1. ASSUME NEW a \in Attempts, Thread(a) PROVE holds'[b] = holds[b] /\ pc'[b] = pc[b]
  BY Zenon, <1>0, <1>1, ThreadPlaces
<1>2. ASSUME NEW t \in Tasks, LaunchAttempt(t)
      PROVE  /\ holds'[b] = holds[b]
             /\ pc'[b] = pc[b] \/ (b = <<t, tries[t] + 1>> /\ pc'[b] = "loop")
  BY Zenon, <1>0, <1>2 DEF LaunchAttempt, ThreadType
<1>3. ASSUME NEW t \in Tasks, b = <<t, tries[t] + 1>> PROVE b[1] = t /\ b[2] = tries[t] + 1
  BY Zenon, <1>3
<1>4. CASE Carry
  <2> DEFINE a == <<mon.task, current[mon.task]>>
  <2>1. UNCHANGED holds /\ (UNCHANGED pc \/ (~IsRunning(a) /\ Gone(a) /\ Goto(a, "loop")))
    BY Zenon, <1>4 DEF Carry
  <2>2. pc'[b] = pc[b] \/ (b = a /\ ~IsRunning(a) /\ Gone(a) /\ pc'[b] = "loop")
    BY Zenon, <1>0, <2>1 DEF Goto, ThreadType
  <2> QED BY Zenon, <1>4, <2>1, <2>2
<1>5. CASE (\E t \in Tasks : Start(t) \/ Skip(t) \/ LaunchFails(t) \/ FailTask(t) \/ RestartTask(t) \/ StopTask(t))
           \/ CloseMonitors \/ Shutdown \/ Take \/ Move \/ (\E c \in Tasks : Unfold(c)) \/ UnfoldRaises
           \/ UNCHANGED vars
  BY Zenon, <1>5 DEF Start, Skip, LaunchFails, FailTask, RestartTask, StopTask, CloseMonitors,
                     Shutdown,
     Take, Move, Unfold, UnfoldRaises, vars, attempt
<1> QED BY Zenon, <1>1, <1>2, <1>3, <1>4, <1>5 DEF Next, Monitor, Dispatch, Operator

\* A version that is usable stays so until a leaf opens the next one; an attempt
\* that is not the task's any more leaves its mark.
LEMMA SlotSteps ==
  ASSUME PoolType, RestType, Written, [Next]_vars, NEW h \in Slots, slot[h] = "valid", slot'[h] # "valid"
  PROVE  \E a \in Attempts : /\ MainOpens(a) /\ IsLeaf(a[1]) /\ h \in Outputs[a[1]]
                             /\ pc[a] = "main" /\ (Stale(a) => Note(a[1], "stale"))
<1>0. FileType /\ slot[h] # "generating" /\ slot[h] # "undeclared"
  BY Zenon DEF RestType
<1>1. \A a \in Attempts : ~(holds[a] /\ h \in Outputs[a[1]])
  BY Zenon, <1>0 DEF Written, Writers
<1>2. ASSUME UNCHANGED slot PROVE FALSE
  BY Zenon, <1>2
<1>3. ASSUME NEW t \in Tasks, Submit(t) PROVE FALSE
  <2>1. slot'[h] = slot[h]
    BY Zenon, <1>0, <1>3 DEF Submit
  <2> QED BY Zenon, <2>1
<1>4. ASSUME NEW a \in Attempts, Seal(a) \/ Reject(a) \/ Exit(a) PROVE FALSE
  <2>1. slot'[h] = slot[h]
    <3>1. PICK p, k, l : SealAs(a, p, k, l)
      BY Zenon, <1>4 DEF Seal, Reject, Exit
    <3>2. PICK S \in SUBSET Mine(a) :
             slot' = [g \in Slots |-> IF g \in S THEN Verdict(a, p, g) ELSE slot[g]]
      BY Zenon, <3>1 DEF SealAs
    <3>3. h \notin S
      BY Zenon, <1>1 DEF Mine
    <3> QED BY Zenon, <3>2, <3>3
  <2> QED BY Zenon, <2>1
<1>5. ASSUME NEW a \in Attempts, Thread(a), ~(Seal(a) \/ Reject(a) \/ Exit(a) \/ MainOpens(a)) PROVE UNCHANGED slot
  BY Zenon, <1>5 DEF Thread, Loop, Input, MainReleases, Body, Awake, Output, Done, Crash, files
<1>6. ASSUME NEW a \in Attempts, MainOpens(a)
      PROVE  /\ IsLeaf(a[1]) /\ h \in Outputs[a[1]] /\ pc[a] = "main"
             /\ Stale(a) => Note(a[1], "stale")
  <2>1. h \in Outputs[a[1]]
    <3>1. PICK S \in SUBSET Outputs[a[1]] : slot' = Opening(S)
      BY Zenon, <1>6 DEF MainOpens
    <3>2. h \notin S => slot'[h] = slot[h]
      BY Zenon, <3>1 DEF Opening
    <3> QED BY Zenon, <3>1, <3>2
  <2> QED BY Zenon, <1>6, <2>1 DEF MainOpens
<1>7. CASE (\E t \in Tasks : Start(t)) \/ Dispatch \/ Operator
  BY Zenon, <1>2, <1>3, <1>7 DEF Dispatch, Operator, Start, Skip, LaunchAttempt, LaunchFails,
                                 StopTask,
     FailTask, RestartTask, files
<1>8. CASE Monitor
  BY Zenon, <1>2, <1>3, <1>8 DEF Monitor, Take, Move, Unfold, UnfoldRaises, Carry, files
<1>9. CASE CloseMonitors \/ Shutdown \/ Restart \/ UNCHANGED vars
  BY Zenon, <1>2, <1>9 DEF CloseMonitors, Shutdown, Restart, Resume, vars, files
<1> QED BY Zenon, <1>2, <1>4, <1>5, <1>6, <1>7, <1>8, <1>9 DEF Next

\* A task succeeds by on_done.
LEMMA SucceedSteps ==
  ASSUME PoolType, RestType, [Next]_vars, NEW u \in Tasks, status'[u] = "succeeded", status[u] # "succeeded"
  PROVE  \E a \in Attempts : /\ Thread(a) /\ a[1] = u /\ pc[a] = "done" /\ Accepts(u) /\ Done(a)
                             /\ Stale(a) => Note(u, "stale")
<1>0. MonitorType /\ WhyType
  BY Zenon DEF RestType
<1>s. "succeeded" \notin Waiting \cup Phases \cup {"suspended", "stopping", "failed"}
  BY Zenon DEF Waiting, Phases
<1>1. ASSUME NEW a \in Attempts, Thread(a)
      PROVE /\ a[1] = u /\ pc[a] = "done" /\ Accepts(u) /\ Done(a)
            /\ Stale(a) => Note(u, "stale")
  <2>1. a[1] = u /\ pc[a] = "done" /\ Accepts(u) /\ (Stale(a) => Note(u, "stale"))
    BY Zenon, <1>s, <1>1, ThreadSettles DEF Rests
  <2>2. Done(a)
    BY Zenon, <1>1, <2>1 DEF Thread, Loop, Input, MainReleases, MainOpens, Body, Awake, Output,
                             Seal, Reject,
       Crash, Exit
  <2> QED BY Zenon, <2>1, <2>2
<1>2. ~Move
  <2>1. Move => Successor(mon.from) # "succeeded"
    BY Zenon DEF Successor
  <2> QED BY Zenon, <1>0, <2>1, MoveFrame
<1>3. ASSUME NEW c \in Tasks, Unfold(c) PROVE FALSE
  <2>1. status'[c] \in Waiting /\ (u # c => Rests(u))
    BY Zenon, <1>0, <1>3, UnfoldFrame
  <2> QED BY Zenon, <1>s, <2>1 DEF Rests
<1>4. ASSUME NEW t \in Tasks, Start(t) \/ RestartTask(t) PROVE FALSE
  BY Zenon, <1>s, <1>4, SubmitRests DEF Rests, Start, RestartTask
<1>5. ASSUME NEW t \in Tasks, Skip(t) \/ LaunchFails(t) PROVE FALSE
  BY Zenon, <1>s, <1>5, LookRests, FailsFrame DEF Rests, Skip
<1>6. ASSUME NEW t \in Tasks, FailTask(t) PROVE FALSE
  BY Zenon, <1>s, <1>6, DoneRests DEF Rests, FailTask
<1>7. ASSUME NEW t \in Tasks, StopTask(t) PROVE FALSE
  BY Zenon, <1>s, <1>7, StopRests DEF Rests, StopTask
<1>8. ASSUME NEW t \in Tasks, LaunchAttempt(t) PROVE FALSE
  <2>1. status' = [status EXCEPT ![t] = "input_validating"]
    BY Zenon, <1>8 DEF LaunchAttempt, Launch
  <2> QED BY Zenon, <2>1 DEF PoolType
<1>9. ~(Take \/ UnfoldRaises \/ Carry \/ CloseMonitors \/ Shutdown \/ UNCHANGED vars)
  BY Zenon DEF Take, UnfoldRaises, Carry, CloseMonitors, Shutdown, vars, scheduler
<1>10. ~Restart
  BY Zenon, <1>s, ResumeRests DEF Restart
<1> QED BY Zenon, <1>1, <1>2, <1>3, <1>4, <1>5, <1>6, <1>7, <1>8, <1>9, <1>10
           DEF Next, Monitor, Dispatch, Operator

\* Where the loop goes.
LEMMA LoopGoes ==
  ASSUME ThreadType, NEW a \in Attempts, Loop(a)
  PROVE  \/ pc'[a] = "exit"
         \/ pc'[a] = "input" /\ status[a[1]] = "input_validating"
         \/ pc'[a] = "main" /\ status[a[1]] = "running"
         \/ pc'[a] = "output" /\ status[a[1]] = "output_validating"
<1> DEFINE place == [input_validating |-> "input", running |-> "main", output_validating |-> "output"]
<1>1. /\ place["input_validating"] = "input" /\ place["running"] = "main"
      /\ place["output_validating"] = "output"
  BY Zenon
<1>2. ASSUME NEW l, Goto(a, l) PROVE pc'[a] = l
  BY Zenon, <1>2 DEF Goto, ThreadType
<1> HIDE DEF place
<1>3. \/ Goto(a, "exit")
      \/ status[a[1]] \in Phases /\ Goto(a, place[status[a[1]]])
  BY Zenon DEF Loop, place
<1>4. pc'[a] = "exit" \/ (status[a[1]] \in Phases /\ pc'[a] = place[status[a[1]]])
  BY Zenon, <1>2, <1>3
<1> QED BY Zenon, <1>1, <1>4 DEF Phases

\* The attempt's own thread holds its outputs from open_next to the seal.
LEMMA OwnOpened ==
  ASSUME PoolType, RestType, NEW t \in Tasks, IsLeaf(t), why'[t] = "", Me(t) \in Attempts,
         Follows(t), status'[t] = status[t], current' = current, mon' = mon,
         UseOf(t), Steady(t), Thread(Me(t)), Opened(t)'
  PROVE  holds'[Me(t)]
<1> DEFINE a == Me(t)
<1>0. ThreadType /\ Place(t) /\ (Opened(t) => holds[a]) /\ Me(t)' = a
  BY Zenon DEF RestType, Follows, UseOf, Me
<1>f. UNCHANGED holds => holds'[a] = holds[a]
  BY Zenon
<1>1. ASSUME NEW l, Goto(a, l) PROVE pc'[a] = l
  BY Zenon, <1>0, <1>1 DEF Goto, ThreadType
<1>2. Opened(t)' => pc'[a] \in {"body", "gate", "output", "seal", "park", "loop"}
                    /\ (pc'[a] = "loop" => status[t] = "output_validating")
                    /\ (pc'[a] = "park" => status[t] \in {"running", "output_validating"})
  BY Zenon, <1>0 DEF Opened
<1>3. CASE Loop(a)
  <2>1. pc[a] = "loop" /\ UNCHANGED holds
    BY Zenon, <1>3 DEF Loop
  <2>2. a[1] = t
    BY Zenon DEF Me
  <2>3. pc'[a] = "output" /\ status[t] = "output_validating"
    <3>1. pc'[a] \in {"exit", "input", "main"}
          \/ (pc'[a] = "output" /\ status[t] = "output_validating")
      BY Zenon, <1>0, <1>3, <2>2, LoopGoes
    <3> QED BY Zenon, <1>2, <3>1
  <2>4. Opened(t)
    BY Zenon, <2>1, <2>3 DEF Opened
  <2> QED BY Zenon, <1>0, <2>1, <2>4
<1>4. CASE Input(a)
  <2>1. pc[a] = "input" /\ pc'[a] \in {"park", "exit", "crash"}
    BY Zenon, <1>1, <1>4 DEF Input, ReportPlanned, ReportRefusal
  <2>2. status[t] = "input_validating"
    BY Zenon, <1>0, <2>1 DEF Place
  <2> QED BY Zenon, <1>2, <2>1, <2>2
<1>5. CASE MainReleases(a)
  BY Zenon, <1>5 DEF MainReleases, Me
<1>6. CASE MainOpens(a)
  <2>1. pc'[a] = "crash" \/ holds' = [holds EXCEPT ![a] = TRUE]
    BY Zenon, <1>1, <1>6 DEF MainOpens
  <2>2. pc'[a] # "crash"
    BY Zenon, <1>2
  <2> QED BY Zenon, <1>0, <2>1, <2>2 DEF ThreadType
<1>7. CASE Body(a) \/ Output(a)
  <2>1. pc[a] \in {"body", "output"} /\ UNCHANGED holds
    BY Zenon, <1>7 DEF Body, Output
  <2>2. Opened(t)
    BY Zenon, <2>1 DEF Opened
  <2> QED BY Zenon, <1>0, <2>1, <2>2
<1>8. CASE Awake(a)
  <2>1. pc[a] \in {"park", "gate"} /\ UNCHANGED holds /\ pc'[a] \in {"exit", "loop", "body"}
        /\ (pc'[a] = "body" => pc[a] = "gate")
    BY Zenon, <1>1, <1>8 DEF Awake
  <2>2. Opened(t)
    BY Zenon, <1>2, <2>1 DEF Opened
  <2> QED BY Zenon, <1>0, <2>1, <2>2
<1>9. CASE Seal(a) \/ Reject(a)
  <2>1. pc'[a] \in {"done", "crash", "exit"}
    BY Zenon, <1>1, <1>9, SealFrame
  <2> QED BY Zenon, <1>2, <2>1
<1>10. CASE Done(a) \/ Crash(a) \/ Exit(a)
  <2>1. pc'[a] \in {"crash", "exit", "none"}
    BY Zenon, <1>1, <1>10, SealFrame DEF Done, Crash
  <2> QED BY Zenon, <1>2, <2>1
<1> QED BY Zenon, <1>3, <1>4, <1>5, <1>6, <1>7, <1>8, <1>9, <1>10 DEF Thread

\* It seals them as valid on the way to on_done.
LEMMA OwnSealed ==
  ASSUME PoolType, RestType, Written, NEW t \in Tasks, IsLeaf(t), why'[t] = "", Me(t) \in Attempts,
         UseOf(t), Steady(t), Thread(Me(t)), pc'[Me(t)] = "done", pc[Me(t)] # "done"
  PROVE  \A h \in Outputs[t] : slot'[h] = "valid"
<1> DEFINE a == Me(t)
<1>0. ThreadType /\ WhyType /\ a[1] = t /\ Outputs[t] \subseteq Slots
  BY Zenon, TaskConfig DEF RestType, Me
<1>1. ASSUME NEW l, Goto(a, l) PROVE pc'[a] = l
  BY Zenon, <1>0, <1>1 DEF Goto, ThreadType
<1>2. Seal(a)
  <2>1. CASE Loop(a)
    <3>1. pc'[a] \in {"exit", "input", "main", "output"}
      BY Zenon, <1>0, <2>1, LoopGoes
    <3> QED BY Zenon, <3>1
  <2>2. CASE Input(a) \/ MainReleases(a) \/ MainOpens(a) \/ Awake(a) \/ Output(a)
    <3>1. pc'[a] \in {"park", "exit", "crash", "body", "loop", "seal", "reject"}
      BY Zenon, <1>1, <2>2 DEF Input, MainReleases, MainOpens, Awake, Output, ReportPlanned,
                               ReportRefusal
    <3> QED BY Zenon, <3>1
  <2>3. CASE Body(a)
    <3>1. pc'[a] \in {"park", "exit", "crash", "gate"}
      BY Zenon, <1>1, <2>3 DEF Body, ReportPlanned, ReportRefusal, Raise
    <3> QED BY Zenon, <3>1
  <2>4. CASE Reject(a) \/ Crash(a) \/ Exit(a)
    <3>1. pc'[a] \in {"exit", "crash", "none"}
      BY Zenon, <1>1, <2>4, SealFrame DEF Crash
    <3> QED BY Zenon, <3>1
  <2>5. ~Done(a)
    BY Zenon DEF Done
  <2> QED BY Zenon, <2>1, <2>2, <2>3, <2>4, <2>5 DEF Thread
<1>3. pc[a] = "seal"
  BY Zenon, <1>2 DEF Seal
<1>4. holds[a]
  <2>1. Opened(t)
    BY Zenon, <1>3 DEF Opened
  <2> QED BY Zenon, <2>1 DEF UseOf
<1>5. Outputs[t] \subseteq sealed[a]
  <2>1. ~(Outputs[t] \subseteq sealed[a]) => Note(t, "hollow")
    BY Zenon, <1>0, <1>2, <1>4 DEF Seal
  <2>2. "hollow" \in Reasons /\ "hollow" # ""
    BY Zenon DEF Reasons
  <2> QED BY Zenon, <1>0, <2>1, <2>2, NoteKeeps
<1>6. PICK S \in SUBSET Mine(a) :
         /\ slot' = [h \in Slots |-> IF h \in S THEN Verdict(a, TRUE, h) ELSE slot[h]]
         /\ (S = Mine(a) /\ Goto(a, "done")) \/ Goto(a, "crash")
  BY Zenon, <1>2 DEF Seal, SealAs
<1>7. S = Outputs[t]
  <2>1. "done" # "crash"
    BY Zenon
  <2> QED BY Zenon, <1>0, <1>1, <1>4, <1>6, <2>1 DEF Mine
<1> QED BY Zenon, <1>0, <1>5, <1>6, <1>7 DEF Verdict

\* A step that is not the attempt's own thread opens nothing.
LEMMA OtherOpened ==
  ASSUME PoolType, RestType, Folded, NEW t \in Tasks, IsLeaf(t), why[t] = "", why'[t] = "",
         [Next]_vars, Me(t) \in Attempts, Follows(t), Steady(t), Steady(t)', current'[t] = current[t],
         ~Thread(Me(t)), ~LaunchAttempt(t), Opened(t)'
  PROVE  holds'[Me(t)] = holds[Me(t)] /\ Opened(t)
<1> DEFINE a == Me(t)
<1>0. ThreadType /\ MonitorType /\ WhyType /\ Place(t) /\ Me(t)' = a /\ a[1] = t /\ a[2] = current[t]
  BY Zenon DEF RestType, Follows, Me
<1>1. ~Restart
  BY Zenon DEF Restart, Steady
<1>2. ~halted[a] /\ ~Gone(a)
  BY Zenon, <1>0 DEF Place, Gone
<1>3. holds'[a] = holds[a] /\ pc'[a] = pc[a]
  BY Zenon, <1>0, <1>1, <1>2, PlacesSteps
<1>4. Own(t)' => Own(t)
  <2> SUFFICES ASSUME Own(t)' PROVE Own(t)
    BY Zenon
  <2>1. PICK x \in Items(planned') : Reports(x, t, current[t])
    BY Zenon DEF Own, Has, Items
  <2>2. CASE x \in Items(planned)
    BY Zenon, <2>1, <2>2 DEF Own, Has, Items
  <2>3. ASSUME NEW b \in Attempts, Thread(b), x = RecordOf(b) PROVE FALSE
    <3>1. x.task = t /\ x.attempt = current[t]
      BY Zenon, <2>1 DEF Reports
    <3>2. RecordOf(b).task = b[1] /\ RecordOf(b).attempt = b[2] /\ b = <<b[1], b[2]>>
      BY Zenon, <2>3, RecordType
    <3>3. b = a
      BY Zenon, <2>3, <3>1, <3>2 DEF Me
    <3> QED BY Zenon, <2>3, <3>3
  <2>4. x # Announcement(Head(planned))
    <3>1. Announcement(Head(planned)).kind = "subgraph_done" /\ x.kind = "phase_done"
      BY Zenon, <2>1 DEF Announcement, Reports
    <3>2. "phase_done" # "subgraph_done"
      BY Zenon
    <3> QED BY Zenon, <3>1, <3>2
  <2> QED BY Zenon, <2>2, <2>3, <2>4, QueueSteps
<1>5. ASSUME InHand(t)', mon'.at = "move" PROVE Own(t) \/ (InHand(t) /\ mon.at = "move")
  <2>1. CASE ~Take
    <3>1. mon' # Idle
      BY Zenon, <1>5 DEF InHand
    <3>2. UNCHANGED mon
      BY Zenon, <1>5, <2>1, <3>1, HandSteps
    <3> QED BY Zenon, <1>5, <3>2 DEF InHand
  <2>2. CASE Take
    <3> DEFINE r == Head(planned)
               k == IF r.kind = "phase_done" THEN r.attempt
                    ELSE IF status[r.task] = "running" THEN current[r.task] ELSE 0
    <3>1. r \in Records /\ r \in Items(planned)
      BY Zenon, <1>0, <2>2, TailItems, QueueItems DEF Take, MonitorType
    <3>2. mon'.task = r.task /\ mon'.attempt = k
      BY Zenon, <1>5, <2>2 DEF Take, InHand
    <3> HIDE DEF r
    <3>3. r.task = t /\ k = current[t] /\ current[t] # 0
      BY Zenon, <1>5, <3>2 DEF InHand, Steady
    <3>4. r.kind \in {"phase_done", "subgraph_done"}
      BY Zenon, <3>1 DEF Records
    <3>5. r.kind # "subgraph_done"
      BY Zenon, <3>1, <3>3 DEF Folded
    <3>6. Reports(r, t, current[t])
      BY Zenon, <3>3, <3>4, <3>5 DEF Reports
    <3> QED BY Zenon, <3>1, <3>6 DEF Own, Has, Items
  <2> QED BY Zenon, <2>1, <2>2
<1>6. CASE status'[t] = status[t]
  <2>1. Opened(t)
    BY Zenon, <1>0, <1>3, <1>4, <1>5, <1>6 DEF Opened
  <2> QED BY Zenon, <1>3, <2>1
<1>7. CASE Move /\ mon.task = t
  <2>1. status[t] = mon.from /\ mon.attempt = current[t] /\ mon # Idle /\ mon.at = "move"
        /\ status'[t] = Successor(mon.from) /\ mon'.at \in {"unfold", "carry"} /\ mon.from \in Phases
    BY Zenon, <1>0, <1>7, MoveFrame DEF Steady, Hurried
  <2>2. InHand(t) /\ Busy(t)
    BY Zenon, <1>7, <2>1 DEF InHand, Busy
  <2>3. pc[a] = "park" /\ ~Own(t)
    BY Zenon, <1>0, <2>2 DEF Place
  <2>4. CASE mon.from = "input_validating"
    <3>1. status'[t] = "running" /\ pc'[a] = "park" /\ mon'.at # "move" /\ ~Own(t)'
      BY Zenon, <1>3, <1>4, <2>1, <2>3, <2>4 DEF Successor
    <3> QED BY Zenon, <1>0, <3>1 DEF Opened
  <2>5. CASE mon.from # "input_validating"
    <3>1. status[t] \in {"running", "output_validating"}
      BY Zenon, <2>1, <2>5 DEF Phases
    <3>2. Opened(t)
      BY Zenon, <2>1, <2>2, <2>3, <3>1 DEF Opened
    <3> QED BY Zenon, <1>3, <3>2
  <2> QED BY Zenon, <2>4, <2>5
<1> QED BY Zenon, <1>6, <1>7, StatusSteps DEF Steady

\* The attempts of a task are told apart by their numbers.
LEMMA MeIs ==
  ASSUME ThreadType, NEW u \in Tasks
  PROVE  /\ current[u] # 0 => Me(u) \in Attempts /\ Me(u)[1] = u
         /\ \A b \in Attempts : b[1] = u /\ ~Stale(b) => b = Me(u) /\ current[u] # 0
<1>1. current[u] \in 0 .. MaxAttempts
  BY Zenon DEF ThreadType
<1>2. current[u] # 0 => current[u] \in 1 .. MaxAttempts
  BY <1>1
<1>3. current[u] # 0 => Me(u) \in Attempts /\ Me(u)[1] = u
  BY Zenon, <1>2 DEF Me, Attempts
<1>4. ASSUME NEW b \in Attempts, b[1] = u, ~Stale(b) PROVE b = Me(u) /\ current[u] # 0
  <2>1. PICK n \in 1 .. MaxAttempts : b = <<b[1], n>>
    BY DEF Attempts
  <2>2. b[2] = n /\ n # 0
    BY <2>1
  <2> QED BY Zenon, <1>4, <2>1, <2>2 DEF Me, Stale
<1> QED BY Zenon, <1>3, <1>4

\* A steady task that nothing disturbed was steady before, with the same attempt.
LEMMA SteadyBefore ==
  ASSUME PoolType, RestType, [Next]_vars, NEW u \in Tasks, why[u] = "", why'[u] = "",
         ~LaunchAttempt(u), Steady(u)'
  PROVE  Steady(u) /\ current'[u] = current[u] /\ Me(u)' = Me(u) /\ Me(u) \in Attempts /\ ~Restart
<1>0. WhyType /\ MonitorType /\ ThreadType /\ "" \notin {"raced", "stale"}
  BY Zenon DEF RestType
<1>1. current'[u] # 0 /\ status'[u] \in Phases
  BY Zenon DEF Steady
<1>2. current'[u] = current[u] /\ ~Restart
  BY Zenon, <1>1, CurrentSteps, PhasesAreNot DEF Restart
<1>3. Move /\ mon.task = u => status[u] \in Phases
  <2> SUFFICES ASSUME Move, mon.task = u PROVE status[u] \in Phases
    BY Zenon
  <2>1. "raced" \in Reasons /\ "raced" # ""
    BY Zenon DEF Reasons
  <2>2. status[u] # mon.from => Note(u, "raced")
    BY Zenon DEF Move
  <2>3. mon.from \in Phases
    BY Zenon, <1>0, AtMoves DEF Move
  <2> QED BY Zenon, <1>0, <2>1, <2>2, <2>3, NoteKeeps
<1>4. status[u] \in Phases
  BY Zenon, <1>1, <1>3, StatusSteps DEF Restart
<1>5. Steady(u)
  BY Zenon, <1>0, <1>1, <1>2, <1>4 DEF Steady, Hurried
<1>6. Me(u)' = Me(u)
  BY Zenon, <1>2 DEF Me
<1>7. Me(u) \in Attempts
  BY Zenon, <1>0, <1>5, MeIs DEF Steady
<1> QED BY Zenon, <1>2, <1>5, <1>6, <1>7

\* Who succeeds is at its own on_done.
LEMMA SucceedsItself ==
  ASSUME PoolType, RestType, [Next]_vars, NEW u \in Tasks, why[u] = "", why'[u] = "",
         status'[u] = "succeeded", status[u] # "succeeded"
  PROVE  /\ Me(u) \in Attempts /\ Steady(u) /\ pc[Me(u)] = "done" /\ current'[u] = current[u]
         /\ pc'[Me(u)] = "exit"
<1>0. WhyType /\ ThreadType /\ "stale" \in Reasons /\ "stale" # ""
  BY Zenon DEF RestType, Reasons
<1>1. PICK a \in Attempts : /\ Thread(a) /\ a[1] = u /\ pc[a] = "done" /\ Accepts(u) /\ Done(a)
                            /\ Stale(a) => Note(u, "stale")
  BY Zenon, SucceedSteps
<1>2. ~Stale(a)
  BY Zenon, <1>0, <1>1, NoteKeeps
<1>4. a = Me(u) /\ current[u] # 0
  BY Zenon, <1>0, <1>1, <1>2, MeIs
<1>5. pc'[a] = "exit" /\ UNCHANGED current
  BY Zenon, <1>0, <1>1 DEF Done, Goto, ThreadType
<1>6. Steady(u)
  BY Zenon, <1>1, <1>4 DEF Steady, Accepts, Hurried
<1> QED BY Zenon, <1>1, <1>4, <1>5, <1>6

\* An attempt keeps its outputs open until they are sealed.
LEMMA NextHolds ==
  ASSUME PoolType, RestType, Folded, Protocol, [Next]_vars,
         NEW u \in Tasks, IsLeaf(u), why[u] = "", why'[u] = "", UseOf(u), ~LaunchAttempt(u),
         Steady(u)', Opened(u)'
  PROVE  holds'[Me(u)']
<1>1. /\ Steady(u) /\ current'[u] = current[u] /\ Me(u)' = Me(u) /\ Me(u) \in Attempts
      /\ Follows(u)
  BY Zenon, SteadyBefore DEF Protocol
<1>2. CASE Thread(Me(u))
  <2>1. UNCHANGED <<current, mon>>
    BY Zenon, <1>1, <1>2, ThreadFrame DEF RestType
  <2>2. status'[u] \in Phases /\ ~Move
    <3>1. Move => mon'.at \in {"unfold", "carry"} /\ mon.at = "move"
      BY Zenon, MoveFrame DEF Move, RestType
    <3> QED BY Zenon, <2>1, <3>1 DEF Steady
  <2>3. status'[u] = status[u]
    BY Zenon, <2>2, StatusSteps
  <2> QED BY Zenon, <1>1, <1>2, <2>1, <2>3, OwnOpened
<1>3. CASE ~Thread(Me(u))
  <2>1. holds'[Me(u)] = holds[Me(u)] /\ Opened(u)
    BY Zenon, <1>1, <1>3, OtherOpened
  <2> QED BY Zenon, <1>1, <2>1 DEF UseOf
<1> QED BY Zenon, <1>2, <1>3

\* After its success an attempt only leaves.
LEMMA NextPast ==
  ASSUME PoolType, RestType, [Next]_vars, NEW u \in Tasks, why[u] = "", why'[u] = "",
         UseOf(u), ~LaunchAttempt(u), status'[u] = "succeeded", current'[u] # 0
  PROVE  pc'[Me(u)'] \in {"loop", "exit", "none"}
<1>0. ThreadType /\ WhyType /\ "succeeded" # "input_validating" /\ "succeeded" # "running"
      /\ "succeeded" # "output_validating" /\ "succeeded" # "failed"
  BY Zenon DEF RestType
<1>1. current'[u] = current[u] /\ ~Restart
  BY Zenon, <1>0, CurrentSteps DEF Restart
<1>2. Me(u)' = Me(u)
  BY Zenon, <1>1 DEF Me
<1>3. CASE status[u] # "succeeded"
  BY Zenon, <1>2, <1>3, SucceedsItself
<1>4. CASE status[u] = "succeeded"
  <2> DEFINE a == Me(u)
  <2>1. a \in Attempts /\ a[1] = u
    BY Zenon, <1>0, <1>1, MeIs
  <2>2. pc[a] \in {"loop", "exit", "none"}
    BY Zenon, <1>1, <1>4 DEF UseOf
  <2>3. CASE Thread(a)
    <3>1. Loop(a) \/ Exit(a)
      BY Zenon, <2>2, <2>3 DEF Thread, Input, MainReleases, MainOpens, Body, Awake, Output,
                               Seal, Reject,
         Done, Crash
    <3>2. Loop(a) => pc'[a] = "exit"
      BY Zenon, <1>0, <1>4, <2>1, LoopGoes
    <3>3. ASSUME Exit(a) PROVE pc'[a] = "none"
      <4>1. Goto(a, "none")
        BY Zenon, <3>3, SealFrame
      <4> QED BY Zenon, <1>0, <2>1, <4>1 DEF Goto, ThreadType
    <3> QED BY Zenon, <1>2, <3>1, <3>2, <3>3
  <2>4. CASE ~Thread(a)
    <3>1. pc'[a] = pc[a] \/ pc'[a] = "loop"
      BY Zenon, <1>1, <2>1, <2>4, PlacesSteps
    <3> QED BY Zenon, <1>2, <2>2, <3>1
  <2> QED BY Zenon, <2>3, <2>4
<1> QED BY Zenon, <1>3, <1>4

\* What an undisturbed attempt has sealed stays usable.
LEMMA NextValid ==
  ASSUME SlotsApart, PoolType, RestType, Written, [Next]_vars,
         NEW u \in Tasks, IsLeaf(u), why[u] = "", why'[u] = "", UseOf(u), ~LaunchAttempt(u),
         status'[u] = "succeeded" \/ (Steady(u)' /\ pc'[Me(u)'] = "done"), NEW h \in Outputs[u]
  PROVE  slot'[h] = "valid"
<1> DEFINE a == Me(u)
           Passed == status[u] = "succeeded" \/ (Steady(u) /\ pc[a] = "done")
<1>0. WhyType /\ ThreadType /\ h \in Slots /\ "stale" \in Reasons /\ "stale" # ""
  BY Zenon, TaskConfig DEF RestType, Reasons
<1>1. CASE Passed
  <2>1. slot[h] = "valid"
    BY Zenon, <1>1 DEF UseOf
  <2> SUFFICES ASSUME slot'[h] # "valid" PROVE FALSE
    BY Zenon
  <2>2. PICK b \in Attempts : /\ MainOpens(b) /\ IsLeaf(b[1]) /\ h \in Outputs[b[1]]
                              /\ pc[b] = "main" /\ (Stale(b) => Note(b[1], "stale"))
    BY Zenon, <1>0, <2>1, SlotSteps
  <2>3. b[1] = u
    BY Zenon, <2>2 DEF SlotsApart, Attempts
  <2>4. ~Stale(b)
    BY Zenon, <1>0, <2>2, <2>3, NoteKeeps
  <2>5. b = a /\ current[u] # 0
    BY Zenon, <1>0, <2>3, <2>4, MeIs
  <2>6. pc[a] = "main"
    BY Zenon, <2>2, <2>5
  <2>7. pc[a] \in {"loop", "exit", "none", "done"}
    BY Zenon, <1>1, <2>5 DEF UseOf
  <2> QED BY Zenon, <2>6, <2>7
<1>2. CASE ~Passed
  <2>1. Steady(u)' /\ pc'[Me(u)'] = "done"
    BY Zenon, <1>2, SucceedsItself
  <2>2. Steady(u) /\ Me(u)' = a /\ a \in Attempts /\ ~Restart
    BY Zenon, <2>1, SteadyBefore
  <2>3. pc[a] # "done" /\ pc'[a] = "done" /\ "done" # "loop"
    BY Zenon, <1>2, <2>1, <2>2
  <2>4. Thread(a)
    BY Zenon, <2>2, <2>3, PlacesSteps
  <2> QED BY Zenon, <2>2, <2>3, <2>4, OwnSealed
<1> QED BY Zenon, <1>1, <1>2

\* The attempt after one below the limit is within it.
LEMMA NextIsBelow ==
  ASSUME NEW n \in Nat, NEW m \in Nat, n < m
  PROVE  n + 1 \in 1 .. m
  OBVIOUS

\* A leaf that succeeded keeps its outputs valid, and one that is about to has them.
LEMMA NextUse ==
  ASSUME SlotsApart, PoolType, RestType, Written, Folded, Protocol, Use, [Next]_vars
  PROVE  Use'
<1> SUFFICES ASSUME NEW u \in Tasks, IsLeaf(u), why'[u] = "" PROVE UseOf(u)'
  BY Zenon DEF Use, IsLeaf, Children
<1>1. CASE LaunchAttempt(u)
  <2>1. status' = [status EXCEPT ![u] = "input_validating"]
    BY Zenon, <1>1 DEF LaunchAttempt, Launch
  <2>2. status'[u] = "input_validating"
    BY Zenon, <2>1 DEF PoolType
  <2>3. pc'[Me(u)'] = "loop"
    <3>1. tries[u] \in Nat /\ tries[u] < MaxAttempts /\ MaxAttempts \in Nat
      BY Zenon, AttemptConfig, <1>1 DEF PoolType, LaunchAttempt
    <3>2. tries[u] + 1 \in 1 .. MaxAttempts
      BY Zenon, <3>1, NextIsBelow
    <3>3. current'[u] = tries[u] + 1 /\ pc'[<<u, tries[u] + 1>>] = "loop"
      BY Zenon, <1>1, <3>2 DEF LaunchAttempt, RestType, ThreadType, Attempts
    <3> QED BY Zenon, <3>3 DEF Me
  <2> QED BY Zenon, <2>2, <2>3 DEF UseOf, Opened
<1>2. CASE ~LaunchAttempt(u)
  <2>1. why[u] = ""
    BY Zenon, <1>2, WhySteps DEF Keeps
  <2>2. UseOf(u)
    BY Zenon, <2>1 DEF Use
  <2>3. ASSUME Steady(u)', Opened(u)' PROVE holds'[Me(u)']
    BY Zenon, <1>2, <2>1, <2>2, <2>3, NextHolds
  <2>4. ASSUME status'[u] = "succeeded" \/ (Steady(u)' /\ pc'[Me(u)'] = "done"), NEW h \in Outputs[u]
        PROVE  slot'[h] = "valid"
    BY Zenon, <1>2, <2>1, <2>2, <2>4, NextValid
  <2>5. ASSUME status'[u] = "succeeded", current'[u] # 0 PROVE pc'[Me(u)'] \in {"loop", "exit", "none"}
    BY Zenon, <1>2, <2>1, <2>2, <2>5, NextPast
  <2> QED BY Zenon, <2>3, <2>4, <2>5 DEF UseOf
<1> QED BY Zenon, <1>1, <1>2

\* What a step may do to the monitor.
LEMMA MonitorSteps ==
  ASSUME PoolType, RestType, [Next]_vars
  PROVE  \/ UNCHANGED mon
         \/ Take
         \/ Move
         \/ \E c \in Tasks : Unfold(c)
         \/ mon.at = "unfold" /\ UnfoldRaises /\ mon' = Idle
         \/ mon.at = "carry" /\ Carry /\ mon' = Idle
         \/ Restart /\ mon' = Idle
<1>0. MonitorType /\ WhyType
  BY Zenon DEF RestType
<1>1. ASSUME NEW a \in Attempts, Thread(a) PROVE UNCHANGED mon
  BY Zenon, <1>0, <1>1, ThreadFrame
<1>2. CASE (\E t \in Tasks : Start(t) \/ Skip(t) \/ LaunchAttempt(t) \/ LaunchFails(t) \/ StopTask(t)
               \/ FailTask(t) \/ RestartTask(t))
           \/ CloseMonitors \/ Shutdown \/ UNCHANGED vars
  BY Zenon, <1>2 DEF Start, Skip, LaunchAttempt, LaunchFails, StopTask, FailTask, RestartTask,
     CloseMonitors, Shutdown, vars, monitor
<1>3. (UnfoldRaises => mon.at = "unfold" /\ mon' = Idle) /\ (Carry => mon.at = "carry" /\ mon' = Idle)
      /\ (Restart => mon' = Idle)
  BY Zenon DEF UnfoldRaises, Carry, Restart
<1> QED BY Zenon, <1>1, <1>2, <1>3 DEF Next, Monitor, Dispatch, Operator

\* What leaves the queue is taken.
LEMMA LostSteps ==
  ASSUME PoolType, RestType, [Next]_vars, NEW x \in Items(planned)
  PROVE  x \in Items(planned') \/ Restart \/ (Take /\ x = Head(planned))
<1>0. planned \in Seq(Records)
  BY Zenon DEF RestType, MonitorType
<1>1. CASE UNCHANGED planned
  BY Zenon, <1>1
<1>2. ASSUME NEW a \in Attempts, Thread(a) PROVE x \in Items(planned')
  <2>1. CASE planned' = Append(planned, RecordOf(a))
    <3>1. Items(Append(planned, RecordOf(a))) = Items(planned) \cup {RecordOf(a)}
      BY Zenon, <1>0, RecordType, QueueItems
    <3> QED BY Zenon, <2>1, <3>1
  <2> QED BY Zenon, <1>1, <1>2, <2>1, ThreadQueue
<1>3. CASE Take
  <2> DEFINE r == Head(planned)
             p == Tail(planned)
  <2>1. /\ planned # <<>> /\ planned' = IF Announces(r) THEN Append(p, Announcement(r)) ELSE p
    BY Zenon, <1>3 DEF Take, Announcement
  <2>2. /\ p \in Seq(Records) /\ r \in Records
        /\ x \in Items(p) \/ x = r
    <3>1. \A i \in DOMAIN planned : i # 1 => i - 1 \in DOMAIN p /\ p[i - 1] = planned[i]
      BY Zenon, <1>0, <2>1, TailItems
    <3>2. p \in Seq(Records) /\ r \in Records /\ planned[1] = r
      BY Zenon, <1>0, <2>1, TailItems
    <3>3. PICK i \in DOMAIN planned : x = planned[i]
      BY Zenon DEF Items
    <3> HIDE DEF p, r
    <3> QED BY Zenon, <3>1, <3>2, <3>3 DEF Items
  <2>3. Announces(r) => Announcement(r) \in Records
    <3> HIDE DEF r, p
    <3>1. r.task \in Tasks
      BY Zenon, <2>2 DEF Records
    <3>2. Announces(r) => Parent[r.task] \in Tasks
      BY Zenon, <3>1, TaskConfig DEF Announces
    <3> QED BY Zenon, <3>2 DEF Announcement, Records, Early, Hurried
  <2>4. x \in Items(p) => x \in Items(planned')
    <3>1. Announces(r) => Items(Append(p, Announcement(r))) = Items(p) \cup {Announcement(r)}
      BY Zenon, <2>2, <2>3, QueueItems
    <3> QED BY Zenon, <2>1, <3>1
  <2> QED BY Zenon, <1>3, <2>2, <2>4
<1>4. CASE (\E t \in Tasks : Start(t) \/ Skip(t) \/ LaunchAttempt(t) \/ LaunchFails(t) \/ StopTask(t)
               \/ FailTask(t) \/ RestartTask(t))
           \/ CloseMonitors \/ Shutdown \/ UNCHANGED vars
           \/ Move \/ (\E c \in Tasks : Unfold(c)) \/ UnfoldRaises \/ Carry
  BY Zenon, <1>1, <1>4 DEF Start, Skip, LaunchAttempt, LaunchFails, StopTask, FailTask,
                           RestartTask,
     CloseMonitors, Shutdown, vars, monitor, Move, Unfold, UnfoldRaises, Carry
<1> QED BY Zenon, <1>2, <1>3, <1>4 DEF Next, Monitor, Dispatch, Operator

\* A task is submitted by the CLI, or by the monitor for the subgraph it is of.
LEMMA AbsentSteps ==
  ASSUME PoolType, RestType, Unfolded, [Next]_vars, NEW u \in Tasks
  PROVE  /\ status[u] # "absent" => status'[u] # "absent"
         /\ status'[u] # "absent" /\ status[u] = "absent" => Parent[u] = None \/ Unfold(u)
<1>0. MonitorType /\ WhyType
  BY Zenon DEF RestType
<1>s. "absent" \notin Waiting \cup Phases \cup {"suspended", "stopping", "failed", "succeeded"}
  BY Zenon DEF Waiting, Phases
<1>1. ASSUME Rests(u) PROVE status'[u] = "absent" <=> status[u] = "absent"
  BY Zenon, <1>s, <1>1 DEF Rests
<1>2. ASSUME NEW a \in Attempts, Thread(a) PROVE status'[u] = "absent" <=> status[u] = "absent"
  <2>1. CASE a[1] = u /\ Accepts(u) /\ status'[u] \in {"succeeded", "failed"}
    BY Zenon, <1>s, <2>1 DEF Accepts
  <2> QED BY Zenon, <1>1, <1>2, <2>1, ThreadSettles DEF Rests
<1>3. CASE Move
  <2>1. status'[mon.task] \in Phases /\ status[mon.task] # "absent"
    <3>1. Successor(mon.from) \in Phases
      BY Zenon DEF Successor, Phases
    <3> QED BY Zenon, <1>0, <1>3, <3>1, MoveFrame DEF Unfolded
  <2> QED BY Zenon, <1>0, <1>s, <1>3, <2>1, MoveFrame
<1>4. ASSUME NEW c \in Tasks, Unfold(c)
      PROVE  \/ status'[u] # "absent" /\ c = u
             \/ status'[u] = "absent" <=> status[u] = "absent"
  BY Zenon, <1>0, <1>s, <1>1, <1>4, UnfoldFrame
<1>5. ASSUME NEW t \in Tasks, Start(t)
      PROVE  \/ status'[u] # "absent" /\ Parent[u] = None
             \/ status'[u] = "absent" <=> status[u] = "absent"
  <2>1. Submit(t) /\ Parent[t] = None
    BY Zenon, <1>5 DEF Start, Unfolded
  <2> QED BY Zenon, <1>s, <1>1, <2>1, SubmitRests
<1>6. ASSUME NEW t \in Tasks, RestartTask(t) PROVE status'[u] = "absent" <=> status[u] = "absent"
  <2>1. ResumeTask(t) /\ status[t] # "absent"
    BY Zenon, <1>6 DEF RestartTask, ResumeTask, Resumable
  <2> QED BY Zenon, <1>s, <1>1, <2>1, SubmitRests
<1>7. ASSUME NEW t \in Tasks, Skip(t) \/ LaunchFails(t) PROVE status'[u] = "absent" <=> status[u] = "absent"
  <2>1. CASE status'[u] = status[u]
    BY Zenon, <2>1
  <2>2. CASE t = u /\ status[u] = "waiting_resource" /\ status'[u] \in {"waiting_handoff", "failed"}
    BY Zenon, <2>2
  <2>3. \/ UNCHANGED status
        \/ /\ status[t] = "waiting_resource"
           /\ \/ status' = [status EXCEPT ![t] = "waiting_handoff"]
              \/ status' = [status EXCEPT ![t] = "failed"]
    BY Zenon, <1>7, FailsFrame DEF Skip, PassOver, Demote, AbortLaunch, Eligible
  <2> QED BY Zenon, <2>1, <2>2, <2>3 DEF PoolType
<1>8. ASSUME NEW t \in Tasks, FailTask(t) PROVE status'[u] = "absent" <=> status[u] = "absent"
  <2>1. CASE t = u /\ Accepts(u) /\ status'[u] = "failed"
    BY Zenon, <1>s, <2>1 DEF Accepts
  <2> QED BY Zenon, <1>1, <1>8, <2>1, DoneRests DEF Rests, FailTask
<1>9. ASSUME NEW t \in Tasks, StopTask(t) PROVE status'[u] = "absent" <=> status[u] = "absent"
  <2>1. status[t] \in Phases /\ (Stop(t) \/ StopRaises(t))
    BY Zenon, <1>9 DEF StopTask, Stop, StopRaises
  <2> QED BY Zenon, <1>s, <1>1, <2>1, StopRests
<1>10. ASSUME NEW t \in Tasks, LaunchAttempt(t) PROVE status'[u] = "absent" <=> status[u] = "absent"
  <2>1. status' = [status EXCEPT ![t] = "input_validating"] /\ status[t] = "waiting_resource"
    BY Zenon, <1>10 DEF LaunchAttempt, Launch, Eligible
  <2> QED BY Zenon, <2>1 DEF PoolType
<1>11. CASE Take \/ UnfoldRaises \/ Carry \/ CloseMonitors \/ Shutdown \/ UNCHANGED vars
  BY Zenon, <1>11 DEF Take, UnfoldRaises, Carry, CloseMonitors, Shutdown, vars, scheduler
<1>12. CASE Restart
  BY Zenon, <1>s, <1>12, ResumeRests DEF Restart
<1> QED BY Zenon, <1>2, <1>3, <1>4, <1>5, <1>6, <1>7, <1>8, <1>9, <1>10, <1>11, <1>12
           DEF Next, Monitor, Dispatch, Operator

\* Who halts an attempt: itself, or somebody who leaves a mark.
LEMMA HaltedSteps ==
  ASSUME PoolType, RestType, [Next]_vars, NEW u \in Tasks, Me(u) \in Attempts, why'[u] = "",
         current'[u] # 0, halted'[Me(u)], ~halted[Me(u)]
  PROVE  MainReleases(Me(u))
<1> DEFINE b == Me(u)
<1>0. ThreadType /\ WhyType /\ "stopped" \in Reasons /\ "stopped" # "" /\ b = <<u, current[u]>>
  BY Zenon DEF RestType, Reasons, Me
<1>1. ASSUME UNCHANGED halted PROVE FALSE
  BY Zenon, <1>1
<1>2. ASSUME NEW a \in Attempts, Thread(a) PROVE MainReleases(b)
  <2>1. a = b
    BY Zenon, <1>0, <1>2, ThreadPlaces
  <2> QED BY Zenon, <1>1, <1>2, <2>1, SealFrame DEF Thread, Loop, Input, MainOpens, Body, Awake,
     Output, Done, Crash
<1>3. ASSUME NEW t \in Tasks, StopTask(t) PROVE FALSE
  <2>1. b \in Mapped(t) /\ Note(t, "stopped")
    BY Zenon, <1>3 DEF StopTask, Halt
  <2>2. t = u
    <3>1. PICK n \in {current[t]} \ {0} : b = <<t, n>>
      BY Zenon, <2>1 DEF Mapped
    <3>2. <<u, current[u]>>[1] = u /\ <<t, n>>[1] = t
      BY Zenon
    <3> QED BY Zenon, <1>0, <3>1, <3>2
  <2> QED BY Zenon, <1>0, <2>1, <2>2, NoteKeeps
<1>4. ~Shutdown /\ ~Restart
  BY Zenon DEF Shutdown, Restart
<1>5. ~Carry
  <2>1. Carry => UNCHANGED halted \/ halted' = [halted EXCEPT ![<<mon.task, current[mon.task]>>] = FALSE]
    BY Zenon DEF Carry
  <2> QED BY Zenon, <1>0, <1>1, <2>1 DEF ThreadType
<1>6. ASSUME \/ \E t \in Tasks : Start(t) \/ Skip(t) \/ LaunchAttempt(t) \/ LaunchFails(t)
                                 \/ FailTask(t) \/ RestartTask(t)
             \/ CloseMonitors \/ UNCHANGED vars
             \/ Take \/ Move \/ (\E c \in Tasks : Unfold(c)) \/ UnfoldRaises
      PROVE  FALSE
  BY Zenon, <1>1, <1>6 DEF Start, Skip, LaunchAttempt, LaunchFails, FailTask, RestartTask,
     CloseMonitors, vars, attempt, Take, Move, Unfold, UnfoldRaises
<1> QED BY Zenon, <1>2, <1>3, <1>4, <1>5, <1>6 DEF Next, Monitor, Dispatch, Operator

\* Who comes to _main.
LEMMA MainSteps ==
  ASSUME ThreadType, NEW a \in Attempts, Thread(a), pc'[a] = "main"
  PROVE  pc[a] = "loop" /\ status[a[1]] = "running"
<1>1. ASSUME NEW l, Goto(a, l) PROVE pc'[a] = l
  BY Zenon, <1>1 DEF Goto, ThreadType
<1>2. ~(Input(a) \/ MainReleases(a) \/ MainOpens(a) \/ Awake(a) \/ Output(a))
  <2>1. Input(a) \/ MainReleases(a) \/ MainOpens(a) \/ Awake(a) \/ Output(a)
        => pc'[a] \in {"park", "exit", "crash", "body", "loop", "seal", "reject"}
    BY Zenon, <1>1 DEF Input, MainReleases, MainOpens, Awake, Output, ReportPlanned,
                       ReportRefusal, Raise
  <2> QED BY Zenon, <2>1
<1>3. ~Body(a)
  <2>1. Body(a) => pc'[a] \in {"park", "exit", "crash", "gate"}
    BY Zenon, <1>1 DEF Body, ReportPlanned, ReportRefusal, Raise
  <2> QED BY Zenon, <2>1
<1>4. ~(Seal(a) \/ Reject(a) \/ Done(a) \/ Crash(a) \/ Exit(a))
  <2>1. Seal(a) \/ Reject(a) \/ Done(a) \/ Crash(a) \/ Exit(a) => pc'[a] \in {"done", "exit", "crash", "none"}
    BY Zenon, <1>1, SealFrame DEF Done, Crash
  <2> QED BY Zenon, <2>1
<1>5. Loop(a) /\ pc[a] = "loop"
  BY Zenon, <1>2, <1>3, <1>4 DEF Thread, Loop
<1> QED BY Zenon, <1>5, LoopGoes

\* Every step keeps a task whose thread is leaving in the monitor's hands.
LEMMA NextParted ==
  ASSUME PoolType, RestType, Parted, [Next]_vars
  PROVE  Parted'
<1> SUFFICES ASSUME NEW u \in Tasks, ~IsLeaf(u), why'[u] = "", status'[u] = "output_validating",
                    current'[u] # 0, halted'[Me(u)'] \/ pc'[Me(u)'] = "main"
             PROVE  mon' # Idle /\ mon'.task = u
  BY Zenon DEF Parted, IsLeaf, Children
<1> DEFINE a == Me(u)
<1>0. WhyType /\ MonitorType /\ ThreadType
  BY Zenon DEF RestType
<1>1. ~LaunchAttempt(u)
  <2>1. LaunchAttempt(u) => status' = [status EXCEPT ![u] = "input_validating"]
    BY Zenon DEF LaunchAttempt, Launch
  <2> QED BY Zenon, <2>1 DEF PoolType
<1>2. why[u] = ""
  BY Zenon, <1>1, WhySteps DEF Keeps
<1>3. Steady(u)'
  BY Zenon DEF Steady, Phases, Hurried
<1>4. Steady(u) /\ current'[u] = current[u] /\ Me(u)' = a /\ a \in Attempts /\ ~Restart
  BY Zenon, <1>1, <1>2, <1>3, SteadyBefore
<1>5. CASE Move /\ mon.task = u
  BY Zenon, <1>0, <1>5, MoveFrame
<1>6. CASE status[u] = "output_validating"
  <2>1. halted[a] \/ pc[a] = "main"
    <3>1. CASE halted'[a] /\ ~halted[a]
      <4>1. MainReleases(a)
        BY Zenon, <1>4, <3>1, HaltedSteps
      <4> QED BY Zenon, <4>1 DEF MainReleases
    <3>2. CASE pc'[a] = "main" /\ pc[a] # "main"
      <4>1. CASE Thread(a)
        <5>1. a[1] = u
          BY Zenon DEF Me
        <5> QED BY Zenon, <1>0, <1>4, <1>6, <3>2, <4>1, <5>1, MainSteps
      <4>2. CASE ~Thread(a)
        <5>1. "main" # "loop"
          BY Zenon
        <5> QED BY Zenon, <1>4, <3>2, <4>2, <5>1, PlacesSteps
      <4> QED BY Zenon, <4>1, <4>2
    <3> QED BY Zenon, <1>4, <3>1, <3>2
  <2>2. mon # Idle /\ mon.task = u
    BY Zenon, <1>2, <1>4, <1>6, <2>1 DEF Parted, Steady
  <2>3. CASE UNCHANGED mon
    BY Zenon, <2>2, <2>3
  <2>4. ~Take
    BY Zenon, <2>2 DEF Take
  <2>5. ASSUME NEW c \in Tasks, Unfold(c) PROVE mon' # Idle /\ mon'.task = u
    BY Zenon, <1>0, <2>2, <2>5, UnfoldFrame
  <2>6. ~UnfoldRaises
    <3>1. "refused" \in Reasons /\ "refused" # ""
      BY Zenon DEF Reasons
    <3> QED BY Zenon, <1>0, <2>2, <3>1, NoteKeeps DEF UnfoldRaises
  <2>7. ~Carry
    <3> SUFFICES ASSUME Carry PROVE FALSE
      BY Zenon
    <3>0. /\ "stale" \in Reasons /\ "missed" \in Reasons /\ "missed" # "" /\ "stale" # ""
      BY Zenon DEF Reasons
    <3>1. a = <<mon.task, current[mon.task]>> /\ a[2] # 0 /\ a[1] = u
      BY Zenon, <1>4, <2>2 DEF Me, Steady
    <3>2. CASE IsRunning(a)
      <4>1. Leaving(a)
        BY Zenon, <2>1, <3>1, <3>2 DEF IsRunning, Leaving
      <4>2. Note(u, "stale") \/ Note(u, "missed")
        BY Zenon, <3>1, <3>2, <4>1 DEF Carry
      <4> QED BY Zenon, <1>0, <3>0, <4>2, NoteKeeps
    <3>3. CASE ~IsRunning(a)
      <4>1. Goto(a, "loop") /\ halted' = [halted EXCEPT ![a] = FALSE]
        BY Zenon, <3>1, <3>3 DEF Carry
      <4>2. pc'[a] = "loop" /\ ~halted'[a]
        BY Zenon, <1>0, <1>4, <4>1 DEF Goto, ThreadType
      <4> QED BY Zenon, <1>4, <4>2
    <3> QED BY Zenon, <3>2, <3>3
  <2> QED BY Zenon, <1>0, <1>4, <2>2, <2>3, <2>4, <2>5, <2>6, <2>7, MonitorSteps, MoveFrame
<1> QED BY Zenon, <1>3, <1>5, <1>6, <1>1, StatusSteps DEF Steady

\* What a step leaves of a subgraph that is to be submitted.
LEMMA AbsentRest ==
  ASSUME PoolType, RestType, Unfolded, [Next]_vars, NEW t \in Tasks
  PROVE  /\ Absent(t)' \subseteq Absent(t)
         /\ \A c \in Absent(t) : c \in Absent(t)' \/ Unfold(c)
<1>1. ASSUME NEW c \in Children(t)
      PROVE  /\ c \in Tasks /\ Parent[c] # None
             /\ status'[c] = "absent" => status[c] = "absent"
             /\ status[c] = "absent" => status'[c] = "absent" \/ Unfold(c)
  <2>1. c \in Tasks /\ Parent[c] # None
    BY Zenon, TaskConfig DEF Children
  <2> QED BY Zenon, <2>1, AbsentSteps
<1> QED BY Zenon, <1>1 DEF Absent, Children

\* A task whose children unfold is the monitor's.
LEMMA UnfoldsWhose ==
  ASSUME MonitorType, Unfolded, NEW t \in Tasks, NEW c \in Children(t), Unfold(c)
  PROVE  mon # Idle /\ mon.at = "unfold" /\ mon.task = t
<1>1. mon.at = "unfold" /\ mon # Idle /\ c \in mon.todo
  BY Zenon, AtMoves DEF Unfold
<1>2. c \in Children(mon.task)
  BY Zenon, <1>1 DEF Unfolded, Absent
<1> QED BY Zenon, <1>1, <1>2 DEF Children

\* What is being unfolded is what is absent, before and after a step.
LEMMA NextTodo ==
  ASSUME PoolType, RestType, Unfolded, [Next]_vars, mon' # Idle, mon'.at = "unfold"
  PROVE  mon'.todo = Absent(mon.task)'
<1>0. MonitorType /\ WhyType
  BY Zenon DEF RestType
<1>1. CASE UNCHANGED mon
  <2>1. PICK t \in Tasks : t = mon.task
    BY Zenon, <1>0, <1>1, AtMoves
  <2>2. mon.todo = Absent(t) /\ mon'.task = t /\ mon'.todo = mon.todo
    BY Zenon, <1>1, <2>1 DEF Unfolded
  <2>3. \A c \in Absent(t) : ~Unfold(c)
    <3> SUFFICES ASSUME NEW c \in Absent(t), Unfold(c) PROVE FALSE
      BY Zenon
    <3>1. c \in Tasks
      BY Zenon DEF Absent, Children
    <3>2. c \in mon.todo /\ mon'.todo = mon.todo \ {c}
      BY Zenon, <1>0, <2>2, <3>1, UnfoldFrame
    <3> QED BY Zenon, <1>1, <3>2
  <2>4. Absent(t)' = Absent(t)
    BY Zenon, <2>3, AbsentRest
  <2> QED BY Zenon, <2>2, <2>4
<1>2. CASE Move
  <2>1. PICK t \in Tasks : t = mon.task
    BY Zenon, <1>0, <1>2, MoveFrame
  <2>2. mon' = [mon EXCEPT !.at = "unfold", !.todo = Children(t)] \/ mon' = [mon EXCEPT !.at = "carry"]
    BY Zenon, <1>2, <2>1 DEF Move
  <2>3. mon \in Moves
    BY Zenon, <1>0, <1>2, AtMoves DEF Move
  <2>4. [mon EXCEPT !.at = "carry"].at = "carry"
    BY Zenon, <2>3 DEF Moves
  <2>5. /\ mon' = [mon EXCEPT !.at = "unfold", !.todo = Children(t)]
        /\ \A c \in Children(t) : status[c] = "absent"
    <3>1. "unfold" # "carry"
      BY Zenon
    <3> QED BY Zenon, <1>2, <2>1, <2>4, <3>1 DEF Move
  <2>6. mon'.todo = Children(t) /\ mon'.task = t
    BY Zenon, <2>1, <2>3, <2>5 DEF Moves
  <2>7. Absent(t) = Children(t)
    BY Zenon, <2>5 DEF Absent
  <2>8. \A c \in Absent(t) : ~Unfold(c)
    <3>1. \A c : Unfold(c) => mon.at = "unfold"
      BY Zenon DEF Unfold
    <3>2. mon.at = "move"
      BY Zenon, <1>2 DEF Move
    <3> QED BY Zenon, <3>1, <3>2
  <2>9. Absent(t)' = Absent(t)
    BY Zenon, <2>8, AbsentRest
  <2> QED BY Zenon, <2>6, <2>7, <2>9
<1>3. ASSUME NEW c \in Tasks, Unfold(c) PROVE mon'.todo = Absent(mon.task)'
  <2>1. PICK t \in Tasks : t = mon.task
    BY Zenon, <1>0, <1>3, UnfoldFrame
  <2>2. mon'.task = t /\ mon'.todo = mon.todo \ {c} /\ mon.todo = Absent(t)
        /\ status'[c] \in Waiting
    BY Zenon, <1>0, <1>3, <2>1, UnfoldFrame DEF Unfolded
  <2>3. \A d \in Absent(t) : Unfold(d) => d = c
    <3> SUFFICES ASSUME NEW d \in Absent(t), Unfold(d) PROVE d = c
      BY Zenon
    <3>1. d \in Tasks
      BY Zenon DEF Absent, Children
    <3>2. mon'.todo = mon.todo \ {d}
      BY Zenon, <1>0, <3>1, UnfoldFrame
    <3> QED BY Zenon, <2>2, <3>2
  <2>4. c \notin Absent(t)'
    <3>1. "absent" \notin Waiting
      BY Zenon DEF Waiting
    <3> QED BY Zenon, <2>2, <3>1 DEF Absent
  <2>5. Absent(t)' = Absent(t) \ {c}
    BY Zenon, <2>3, <2>4, AbsentRest
  <2> QED BY Zenon, <2>2, <2>5
<1>4. ~Take
  <2> SUFFICES ASSUME Take PROVE FALSE
    BY Zenon
  <2>1. PICK t, s, n : mon' = [at |-> "move", task |-> t, from |-> s, todo |-> {}, attempt |-> n]
    BY Zenon DEF Take
  <2>2. mon'.at = "move"
    BY Zenon, <2>1
  <2> QED BY Zenon, <2>2
<1> QED BY Zenon, <1>1, <1>2, <1>3, <1>4, MonitorSteps

\* A task that began stays as it was unfolded.
LEMMA NextBegun ==
  ASSUME PoolType, RestType, Unfolded, [Next]_vars,
         NEW t \in Tasks, ~IsLeaf(t), why'[t] = "", Begun(t)'
  PROVE  \/ Absent(t)' = {}
         \/ status'[t] = "input_validating" /\ Absent(t)' = Children(t)
         \/ mon' # Idle /\ mon'.at = "unfold" /\ mon'.task = t
<1>0. MonitorType /\ WhyType /\ ThreadType
  BY Zenon DEF RestType
<1>1. CASE LaunchAttempt(t)
  <2>1. status'[t] = "input_validating"
    BY Zenon, <1>1 DEF LaunchAttempt, Launch, PoolType
  <2>2. ~Stranded(t)
    BY Zenon, <1>0, <1>1 DEF LaunchAttempt, WhyType
  <2>3. Absent(t) = {} \/ Absent(t) = Children(t)
    BY Zenon, <2>2 DEF Stranded, Absent
  <2>4. UNCHANGED mon
    BY Zenon, <1>1 DEF LaunchAttempt, monitor
  <2>5. \A c \in Tasks : ~Unfold(c)
    <3> SUFFICES ASSUME NEW c \in Tasks, Unfold(c) PROVE FALSE
      BY Zenon
    <3>1. mon'.todo = mon.todo \ {c} /\ c \in mon.todo
      BY Zenon, <1>0, UnfoldFrame DEF Unfold
    <3> QED BY Zenon, <2>4, <3>1
  <2>6. Absent(t)' = Absent(t)
    <3>1. Absent(t) \subseteq Tasks
      BY Zenon DEF Absent, Children
    <3> QED BY Zenon, <2>5, <3>1, AbsentRest
  <2> QED BY Zenon, <2>1, <2>3, <2>6
<1>2. CASE ~LaunchAttempt(t)
  <2>1. why[t] = ""
    BY Zenon, <1>2, WhySteps DEF Keeps
  <2>2. status'[t] \in Phases
    BY Zenon DEF Begun, Phases
  <2>3. ASSUME Move, mon.task = t PROVE status[t] = mon.from /\ mon.from = "input_validating"
    <3>1. status[t] = mon.from /\ status'[t] = Successor(mon.from)
      BY Zenon, <1>0, <2>3, MoveFrame
    <3> QED BY Zenon, <3>1 DEF Successor, Begun
  <2>4. Begun(t) /\ ~Restart
    <3>1. CASE status'[t] = status[t] /\ ~Restart
      BY Zenon, <3>1 DEF Begun
    <3>2. CASE Move /\ mon.task = t
      <4>1. ~Restart
        BY Zenon, <1>0, <3>2, MoveFrame DEF Restart
      <4> QED BY Zenon, <2>3, <3>2, <4>1 DEF Begun
    <3> QED BY Zenon, <1>2, <2>2, <3>1, <3>2, StatusSteps
  <2>5. CASE Absent(t) = {}
    BY Zenon, <2>5, AbsentRest
  <2>6. CASE mon # Idle /\ mon.at = "unfold" /\ mon.task = t
    <3>1. ASSUME NEW c \in Tasks, Unfold(c)
          PROVE  Absent(t)' = {} \/ (mon' # Idle /\ mon'.at = "unfold" /\ mon'.task = t)
      <4>1. /\ mon' # Idle /\ mon'.task = t /\ mon'.at = IF mon.todo = {c} THEN "carry" ELSE "unfold"
            /\ status'[c] \in Waiting
        BY Zenon, <1>0, <2>6, <3>1, UnfoldFrame
      <4>2. CASE mon.todo = {c}
        <5>1. Absent(t) = {c}
          BY Zenon, <2>6, <4>2 DEF Unfolded
        <5>2. c \notin Absent(t)'
          <6>1. "absent" \notin Waiting
            BY Zenon DEF Waiting
          <6> QED BY Zenon, <4>1, <6>1 DEF Absent
        <5> QED BY Zenon, <5>1, <5>2, AbsentRest
      <4> QED BY Zenon, <4>1, <4>2
    <3>2. ~Take /\ ~Move /\ ~(mon.at = "carry")
      BY Zenon, <2>6 DEF Take, Move
    <3>3. ~UnfoldRaises
      <4>1. "refused" \in Reasons /\ "refused" # ""
        BY Zenon DEF Reasons
      <4> QED BY Zenon, <1>0, <2>6, <4>1, NoteKeeps DEF UnfoldRaises
    <3> QED BY Zenon, <2>4, <2>6, <3>1, <3>2, <3>3, MonitorSteps
  <2>7. CASE status[t] = "input_validating" /\ Absent(t) = Children(t)
    <3>1. CASE Move /\ mon.task = t
      <4>1. mon' = [mon EXCEPT !.at = "unfold", !.todo = Children(t)]
        <5>1. mon.from = "input_validating" /\ (\A c \in Children(t) : status[c] = "absent")
          BY Zenon, <2>3, <2>7, <3>1 DEF Absent
        <5> QED BY Zenon, <3>1, <5>1 DEF Move
      <4>2. mon \in Moves
        BY Zenon, <1>0, <3>1, AtMoves DEF Move
      <4>3. mon'.at = "unfold"
        BY Zenon, <4>1, <4>2 DEF Moves
      <4> QED BY Zenon, <1>0, <3>1, <4>3, MoveFrame
    <3>2. CASE \E c \in Children(t) : Unfold(c)
      BY Zenon, <1>0, <2>6, <3>2, UnfoldsWhose
    <3>3. CASE ~(Move /\ mon.task = t) /\ ~(\E c \in Children(t) : Unfold(c))
      <4>1. status'[t] = "input_validating"
        BY Zenon, <1>2, <2>2, <2>7, <3>3, StatusSteps
      <4>2. Absent(t)' = Children(t)
        BY Zenon, <2>7, <3>3, AbsentRest
      <4> QED BY Zenon, <4>1, <4>2
    <3> QED BY Zenon, <3>1, <3>2, <3>3
  <2> QED BY Zenon, <2>1, <2>4, <2>5, <2>6, <2>7 DEF Unfolded
<1> QED BY Zenon, <1>1, <1>2

\* Every step keeps a subgraph whole.
LEMMA NextUnfolded ==
  ASSUME PoolType, RestType, Unfolded, [Next]_vars
  PROVE  Unfolded'
<1>0. MonitorType /\ WhyType /\ CliType /\ ThreadType
  BY Zenon DEF RestType
<1>1. \A t \in todo' : Parent[t] = None
  <2>1. \A t \in todo : Parent[t] = None
    BY Zenon DEF Unfolded
  <2>2. todo' \subseteq todo
    <3>1. ASSUME NEW a \in Attempts, Thread(a) PROVE UNCHANGED todo
      BY Zenon, <1>0, <3>1, ThreadFrame
    <3>2. CASE ~\E a \in Attempts : Thread(a)
      BY Zenon, <3>2 DEF Next, Monitor, Dispatch, Operator, Start, Skip, LaunchAttempt,
                         LaunchFails,
         StopTask, FailTask, RestartTask, CloseMonitors, Shutdown, Restart, vars, cli, Take,
         Move,
         Unfold, UnfoldRaises, Carry
    <3> QED BY Zenon, <3>1, <3>2
  <2> QED BY Zenon, <2>1, <2>2
<1>2. ASSUME mon' # Idle PROVE status'[mon'.task] # "absent"
  <2>1. CASE Take
    <3>1. mon'.task = Head(planned).task /\ status[Head(planned).task] \in {"input_validating", "running"}
          /\ UNCHANGED status
      BY Zenon, <1>2, <2>1 DEF Take, scheduler
    <3> QED BY Zenon, <3>1
  <2>2. CASE mon # Idle /\ mon'.task = mon.task
    <3>1. mon.task \in Tasks /\ status[mon.task] # "absent"
      BY Zenon, <1>0, <2>2 DEF Unfolded, MonitorType, Moves
    <3> QED BY Zenon, <2>2, <3>1, AbsentSteps
  <2> QED BY Zenon, <1>2, <2>1, <2>2, HandSteps
<1>3. mon' # Idle /\ mon'.at = "unfold" => mon'.todo = Absent(mon.task)'
  BY Zenon, NextTodo
<1>4. ASSUME NEW t \in Tasks, ~IsLeaf(t), why'[t] = "", Begun(t)'
      PROVE  \/ Absent(t)' = {}
             \/ status'[t] = "input_validating" /\ Absent(t)' = Children(t)
             \/ mon' # Idle /\ mon'.at = "unfold" /\ mon'.task = t
  BY Zenon, <1>4, NextBegun
<1> QED BY Zenon, <1>1, <1>2, <1>3, <1>4 DEF Unfolded, IsLeaf, Children

\* Who comes to its end has put its last record.
LEMMA EndsWith ==
  ASSUME PoolType, RestType, Protocol, [Next]_vars, NEW c \in Tasks, why[c] = "", why'[c] = "",
         ~closing, ~LaunchAttempt(c), Ended(c)', ~Ended(c)
  PROVE  Completed(c)'
<1> DEFINE a == Me(c)
<1>0. WhyType /\ MonitorType /\ ThreadType /\ planned \in Seq(Records)
  BY Zenon DEF RestType, MonitorType
<1>p. ASSUME Steady(c), pc[a] \in {"seal", "done"} PROVE FALSE
  <2>1. Place(c) /\ current[c] # 0
    BY Zenon, <1>p DEF Protocol, Follows, Steady
  <2>2. status[c] = "output_validating"
    BY Zenon, <1>p, <2>1 DEF Place
  <2> QED BY Zenon, <1>p, <2>1, <2>2 DEF Ended
<1>1. status'[c] # "succeeded"
  BY Zenon, <1>p, SucceedsItself DEF Ended
<1>2. status'[c] = "output_validating" /\ current'[c] # 0 /\ pc'[Me(c)'] \in {"seal", "done"}
  BY Zenon, <1>1 DEF Ended
<1>3. Steady(c)'
  BY Zenon, <1>2 DEF Steady, Phases, Hurried
<1>4. Steady(c) /\ Me(c)' = a /\ a \in Attempts /\ ~Restart
  BY Zenon, <1>3, SteadyBefore
<1>5. pc[a] \notin {"seal", "done"} /\ pc'[a] \in {"seal", "done"}
  BY Zenon, <1>2, <1>4, <1>p
<1>6. Thread(a)
  <2>1. pc'[a] # "loop"
    BY Zenon, <1>5
  <2> QED BY Zenon, <1>4, <1>5, <2>1, PlacesSteps
<1>7. ASSUME NEW l, Goto(a, l) PROVE pc'[a] = l
  BY Zenon, <1>0, <1>4, <1>7 DEF Goto, ThreadType
<1>8. Output(a)
  <2>1. CASE Loop(a)
    <3>1. pc'[a] \in {"exit", "input", "main", "output"}
      BY Zenon, <1>0, <1>4, <2>1, LoopGoes
    <3> QED BY Zenon, <1>5, <3>1
  <2>2. CASE Input(a) \/ MainReleases(a) \/ MainOpens(a) \/ Awake(a)
    <3>1. pc'[a] \in {"park", "exit", "crash", "body", "loop"}
      BY Zenon, <1>7, <2>2 DEF Input, MainReleases, MainOpens, Awake, ReportPlanned,
                               ReportRefusal, Raise
    <3> QED BY Zenon, <1>5, <3>1
  <2>3. CASE Body(a)
    <3>1. pc'[a] \in {"park", "exit", "crash", "gate"}
      BY Zenon, <1>7, <2>3 DEF Body, ReportPlanned, ReportRefusal, Raise
    <3> QED BY Zenon, <1>5, <3>1
  <2>4. CASE Reject(a) \/ Crash(a) \/ Exit(a)
    <3>1. pc'[a] \in {"exit", "crash", "none"}
      BY Zenon, <1>7, <2>4, SealFrame DEF Crash
    <3> QED BY Zenon, <1>5, <3>1
  <2>5. ~Seal(a) /\ ~Done(a)
    BY Zenon, <1>5 DEF Seal, Done
  <2> QED BY Zenon, <1>6, <2>1, <2>2, <2>3, <2>4, <2>5 DEF Thread
<1>9. ReportPlanned(a, "seal") /\ UNCHANGED status
  <2>1. ReportRefusal(a, "reject") => pc'[a] = "reject"
    BY Zenon, <1>7 DEF ReportRefusal
  <2>2. ~ReportRefusal(a, "reject")
    BY Zenon, <1>5, <2>1
  <2> QED BY Zenon, <1>8, <2>2 DEF Output, scheduler
<1>10. planned' = Append(planned, RecordOf(a))
  BY Zenon, <1>9 DEF ReportPlanned, RecordOf
<1>11. RecordOf(a) \in Items(planned')
  <2>1. Items(Append(planned, RecordOf(a))) = Items(planned) \cup {RecordOf(a)}
    <3>1. RecordOf(a) \in Records
      BY Zenon, <1>4, RecordType
    <3> QED BY Zenon, <1>0, <3>1, QueueItems
  <2> QED BY Zenon, <1>10, <2>1
<1>12. RecordOf(a).kind = "phase_done" /\ RecordOf(a).task = c /\ RecordOf(a).phase = "output_validating"
  <2>1. a[1] = c
    BY Zenon DEF Me
  <2> QED BY Zenon, <1>2, <1>4, <1>9, <2>1, RecordType
<1> QED BY Zenon, <1>11, <1>12 DEF Completed, Completes

\* The last record of an end task becomes the announcement.
LEMMA CompletedSteps ==
  ASSUME PoolType, RestType, [Next]_vars, ~closing, ~Restart, NEW c \in Ends, Parent[c] # None, Completed(c)
  PROVE  Completed(c)' \/ Told(Parent[c])'
<1>0. planned \in Seq(Records) /\ Parent[c] \in Tasks
  BY Zenon, TaskConfig DEF RestType, MonitorType
<1>1. PICK r \in Items(planned) : Completes(r) /\ r.task = c
  BY Zenon DEF Completed
<1>2. CASE r \in Items(planned')
  BY Zenon, <1>1, <1>2 DEF Completed, Completes
<1>3. CASE Take /\ r = Head(planned)
  <2>1. Announces(r)
    BY Zenon, <1>1 DEF Announces
  <2>2. planned # <<>> /\ planned' = Append(Tail(planned), Announcement(r))
    BY Zenon, <1>3, <2>1 DEF Take, Announcement
  <2>3. Tail(planned) \in Seq(Records)
    BY Zenon, <1>0, <2>2, TailItems
  <2>4. Announcement(r) \in Records /\ Announcement(r).kind = "subgraph_done" /\ Announcement(r).task = Parent[c]
    BY Zenon, <1>0, <1>1 DEF Announcement, Records, Early, Hurried
  <2>5. Items(Append(Tail(planned), Announcement(r))) = Items(Tail(planned)) \cup {Announcement(r)}
    BY Zenon, <2>3, <2>4, QueueItems
  <2>6. Announcement(r) \in Items(planned')
    BY Zenon, <2>2, <2>5
  <2> QED BY Zenon, <2>4, <2>6 DEF Told
<1> QED BY Zenon, <1>2, <1>3, LostSteps

\* An announcement is not lost on its way.
LEMMA ToldSteps ==
  ASSUME PoolType, RestType, Zero, [Next]_vars, ~closing, ~Restart, NEW p \in Tasks, Told(p),
         Begun(p), why[p] = "", Begun(p)', why'[p] = "", ~LaunchAttempt(p)
  PROVE  Told(p)'
<1>0. WhyType /\ MonitorType /\ ThreadType
  BY Zenon DEF RestType
<1>1. ASSUME NEW r \in Items(planned), r.kind = "subgraph_done", r.task = p
      PROVE  Told(p)'
  <2>1. CASE r \in Items(planned')
    BY Zenon, <1>1, <2>1 DEF Told
  <2>2. CASE Take /\ r = Head(planned)
    <3>1. ~Completes(r) /\ r.kind # "phase_done"
      BY Zenon, <1>1 DEF Completes
    <3>2. status[p] \in {"input_validating", "running"}
      BY Zenon DEF Begun
    <3>3. mon' = [at |-> "move", task |-> p, from |-> status[p], todo |-> {},
                  attempt |-> IF status[p] = "running" THEN current[p] ELSE 0]
      BY Zenon, <1>1, <2>2, <3>1, <3>2 DEF Take
    <3>4. mon'.at = "move" /\ mon'.task = p /\ (mon'.from = "running" \/ mon'.attempt = 0)
      BY Zenon, <3>3
    <3>5. mon' # Idle
      <4>1. Idle.at = "idle"
        BY Zenon DEF Idle
      <4>2. "idle" # "move"
        BY Zenon
      <4> QED BY Zenon, <3>4, <4>1, <4>2
    <3> QED BY Zenon, <3>4, <3>5 DEF Told
  <2> QED BY Zenon, <2>1, <2>2, LostSteps
<1>2. ASSUME mon # Idle, mon.at = "move", mon.task = p, mon.from = "running" \/ mon.attempt = 0
      PROVE  Told(p)'
  <2>1. CASE UNCHANGED mon
    BY Zenon, <1>2, <2>1 DEF Told
  <2>2. ~Take /\ (\A c \in Tasks : ~Unfold(c)) /\ mon.at # "unfold" /\ mon.at # "carry"
    BY Zenon, <1>2 DEF Take, Unfold
  <2>3. CASE Move
    <3>1. /\ status[p] = mon.from /\ status'[p] = Successor(mon.from) /\ mon.attempt = current[p]
          /\ mon.from \in Phases
      <4>1. "" \notin {"raced", "stale"}
        BY Zenon
      <4> QED BY Zenon, <1>0, <1>2, <2>3, <4>1, MoveFrame
    <3>2. CASE mon.from = "running"
      <4>1. status'[p] = "output_validating"
        BY Zenon, <3>1, <3>2 DEF Successor
      <4> QED BY Zenon, <4>1 DEF Begun
    <3>3. CASE mon.attempt = 0
      <4>1. "" # "raced"
        BY Zenon
      <4> QED BY Zenon, <3>1, <3>3, <4>1 DEF Zero
    <3> QED BY Zenon, <1>2, <3>2, <3>3
  <2> QED BY Zenon, <2>1, <2>2, <2>3, MonitorSteps
<1> QED BY Zenon, <1>1, <1>2 DEF Told

\* Every step keeps the end of a subgraph announced.
LEMMA NextAnnounced ==
  ASSUME PoolType, RestType, Zero, Protocol, Announced, [Next]_vars
  PROVE  Announced'
<1> SUFFICES ASSUME NEW c \in Ends, Parent[c] # None, why'[c] = "", ~closing', Ended(c)'
             PROVE  Completed(c)' \/ Told(Parent[c])'
  BY Zenon DEF Announced
<1>0. WhyType /\ MonitorType /\ ThreadType /\ c \in Tasks
  BY Zenon, TaskConfig DEF RestType
<1>1. PICK p \in Tasks : p = Parent[c]
  BY Zenon, <1>0, TaskConfig
<1> SUFFICES ASSUME Begun(p)', why'[p] = "" PROVE Completed(c)' \/ Told(p)'
  BY Zenon, <1>1 DEF Told
<1>2. status'[p] \in Phases
  BY Zenon DEF Begun, Phases
<1>3. ~Restart
  BY Zenon, <1>2, ResumeRests DEF Restart
<1>4. ~closing
  <2>1. ASSUME closing PROVE closing'
    <3>1. CASE \E a \in Attempts : Thread(a)
      BY Zenon, <1>0, <2>1, <3>1, ThreadFrame
    <3>2. CASE ~\E a \in Attempts : Thread(a)
      BY Zenon, <1>3, <2>1, <3>2 DEF Next, Monitor, Dispatch, Operator, Start, Skip,
                                     LaunchAttempt, LaunchFails,
         StopTask, FailTask, RestartTask, CloseMonitors, Shutdown, vars, monitor, Take, Move,
         Unfold, UnfoldRaises, Carry
    <3> QED BY Zenon, <3>1, <3>2
  <2> QED BY Zenon, <2>1
<1>5. ~LaunchAttempt(c)
  <2>1. LaunchAttempt(c) => status'[c] = "input_validating"
    BY Zenon, <1>0 DEF LaunchAttempt, Launch, PoolType
  <2> QED BY Zenon, <2>1 DEF Ended
<1>6. why[c] = ""
  BY Zenon, <1>0, <1>5, WhySteps DEF Keeps
<1>7. ~LaunchAttempt(p)
  <2> SUFFICES ASSUME LaunchAttempt(p) PROVE FALSE
    BY Zenon
  <2>1. status' = [status EXCEPT ![p] = "input_validating"]
    BY Zenon DEF LaunchAttempt, Launch
  <2>2. status'[c] \in {"output_validating", "succeeded"}
    BY Zenon DEF Ended
  <2>3. status[c] \in {"output_validating", "succeeded"}
    BY Zenon, <1>0, <2>1, <2>2 DEF PoolType
  <2>4. c \in Children(p) /\ status[c] # "absent"
    BY Zenon, <1>0, <1>1, <2>3 DEF Children
  <2>5. Stranded(p)
    BY Zenon, <2>3, <2>4 DEF Stranded
  <2>6. why'[p] \in {"raced", "stranded"}
    BY Zenon, <1>0, <2>5 DEF LaunchAttempt, WhyType
  <2> QED BY Zenon, <2>6
<1>8. why[p] = ""
  BY Zenon, <1>7, WhySteps DEF Keeps
<1>9. Begun(p)
  <2>1. CASE status'[p] = status[p]
    BY Zenon, <2>1 DEF Begun
  <2>2. CASE Move /\ mon.task = p
    <3>1. status[p] = mon.from /\ status'[p] = Successor(mon.from)
      BY Zenon, <1>0, <2>2, MoveFrame
    <3> QED BY Zenon, <3>1 DEF Successor, Begun
  <2> QED BY Zenon, <1>2, <1>7, <2>1, <2>2, StatusSteps
<1>10. CASE ~Ended(c)
  BY Zenon, <1>0, <1>4, <1>5, <1>6, <1>10, EndsWith
<1>11. CASE Ended(c)
  <2>1. Completed(c) \/ Told(p)
    BY Zenon, <1>1, <1>4, <1>6, <1>11 DEF Announced
  <2> QED BY Zenon, <1>1, <1>3, <1>4, <1>7, <1>8, <1>9, <2>1, CompletedSteps, ToldSteps
<1> QED BY Zenon, <1>10, <1>11

\* The invariants leave nobody out.
LEMMA SomebodyHas ==
  ASSUME SubgraphsEnd, IInv, Talk, Unfolded
  PROVE  NobodyForgotten
<1> SUFFICES ASSUME NEW t \in Tasks, status[t] \in Phases, why[t] = "", ~closing
             PROVE  Working(t) \/ Awaited(t) \/ ToBeAnnounced(t)
  BY Zenon DEF NobodyForgotten
<1> DEFINE a == Me(t)
<1>0. PoolType /\ RestType /\ ThreadType /\ MonitorType /\ "" \notin {"raced", "stale"} /\ "" # "raced"
  BY Zenon DEF IInv, RestType
<1>1. current[t] # 0
  BY Zenon, <1>0 DEF Talk, Zero
<1>2. Place(t)
  BY Zenon, <1>0, <1>1 DEF Talk, Protocol, Steady, Hurried, Follows
<1>3. a \in Attempts /\ a \in Mapped(t) /\ pc[a] \in Live \cup {"none"}
  <2>1. a \in Attempts
    BY Zenon, <1>0, <1>1, MeIs
  <2>2. a \in Mapped(t)
    BY Zenon, <1>1 DEF Mapped, Me
  <2> QED BY Zenon, <1>0, <2>1, <2>2 DEF ThreadType
<1>4. CASE pc[a] \notin {"park", "gate", "exit", "none"}
  BY Zenon, <1>3, <1>4 DEF Working
<1>5. CASE pc[a] = "park" /\ woken[a]
  BY Zenon, <1>3, <1>5 DEF Working
<1>6. CASE pc[a] = "park" /\ ~woken[a]
  <2>1. Own(t) \/ Busy(t)
    BY Zenon, <1>2, <1>6 DEF Place
  <2> QED BY Zenon, <2>1 DEF Own, Busy, InHand, Has, Reports, Awaited
<1>7. pc[a] # "gate"
  BY Zenon, <1>2 DEF Place
<1>8. CASE pc[a] \in {"exit", "none"}
  <2>1. halted[a] /\ ~IsLeaf(t) /\ status[t] \in {"running", "output_validating"}
    BY Zenon, <1>2, <1>8 DEF Place, Phases
  <2>2. CASE status[t] = "output_validating"
    BY Zenon, <1>1, <2>1, <2>2 DEF Talk, Parted, Awaited
  <2>3. CASE status[t] = "running"
    <3>1. PICK c \in Children(t) : c \in Ends
      BY Zenon, <2>1 DEF SubgraphsEnd
    <3>2. c \in Tasks /\ Parent[c] = t /\ t # None /\ Begun(t) /\ "running" # "input_validating"
      BY Zenon, <2>3, TaskConfig DEF Children, Begun
    <3>3. Absent(t) = {} \/ (mon # Idle /\ mon.task = t)
      BY Zenon, <2>1, <2>3, <3>2 DEF Unfolded
    <3>4. CASE Absent(t) = {}
      <4>1. status[c] # "absent"
        BY Zenon, <3>1, <3>4 DEF Absent
      <4>2. CASE status[c] # "succeeded" \/ why[c] # ""
        BY Zenon, <2>3, <3>1, <4>1, <4>2 DEF ToBeAnnounced
      <4>3. CASE status[c] = "succeeded" /\ why[c] = ""
        <5>1. Completed(c) \/ Told(t)
          BY Zenon, <3>1, <3>2, <4>3 DEF Talk, Announced, Ended
        <5>2. CASE Completed(c)
          BY Zenon, <2>3, <3>1, <5>2 DEF Completed, Items, Awaited, ToBeAnnounced
        <5>3. CASE Told(t)
          BY Zenon, <3>2, <5>3 DEF Told, Items, Awaited
        <5> QED BY Zenon, <5>1, <5>2, <5>3
      <4> QED BY Zenon, <4>2, <4>3
    <3> QED BY Zenon, <3>3, <3>4 DEF Awaited
  <2> QED BY Zenon, <2>1, <2>2, <2>3
<1> QED BY Zenon, <1>4, <1>5, <1>6, <1>7, <1>8
=============================================================================
