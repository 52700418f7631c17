--------------------------- MODULE TaskInvariants ---------------------------
(***************************************************************************)
(* The invariants that the proofs about TaskAttempt rest on: the types and *)
(* the balance of the pools; what the thread of an attempt, the records on *)
(* their way and the monitor that reads them know of each other; and what  *)
(* follows from it for slots, outputs and subgraphs.                       *)
(***************************************************************************)
EXTENDS TaskAttempt

\* No pool exceeds its capacity, and one that is below zero was charged for what
\* was not reserved.
PoolsType ==
    /\ gpu \in 0 .. Gpus /\ tok \in Int /\ tok <= Tokens /\ spent \in Nat
    /\ overdrawn \in BOOLEAN /\ (tok < 0 => overdrawn)

\* The scheduler's own variables have their types.
PoolType ==
    /\ status \in [Tasks -> Statuses]
    /\ open \in [Tasks -> BOOLEAN] /\ tries \in [Tasks -> Nat]
    /\ PoolsType
    /\ pass \subseteq Tasks

\* How many units of a resource are leased.
Leased(amount) == Cardinality(Units(amount, Holding))

\* The balance of LeasesBalance, without its exception.
Balance ==
    /\ gpu = Gpus - Leased(Need)
    /\ overdrawn \/ tok = Tokens - spent - Leased(Reserve)
    /\ Holding = {t \in Tasks : open[t]}

\* What the monitor's thread is doing when it is not idle.
Moves == [at : {"move", "unfold", "carry"}, task : Tasks, from : Phases,
          todo : SUBSET Tasks, attempt : 0 .. MaxAttempts]

\* The types of the rest, part by part.
ThreadType ==
    /\ current \in [Tasks -> 0 .. MaxAttempts]
    /\ pc \in [Attempts -> Live \cup {"none"}]
    /\ halted \in [Attempts -> BOOLEAN] /\ woken \in [Attempts -> BOOLEAN]
    /\ holds \in [Attempts -> BOOLEAN]

\* What is on disk.
FileType ==
    /\ slot \in [Slots -> SlotStatuses] /\ stored \in SUBSET Slots
    /\ sealed \in [Attempts -> SUBSET Slots]

\* The queue and the thread that reads it.
MonitorType ==
    /\ planned \in Seq(Records) /\ mon \in {Idle} \cup Moves /\ closing \in BOOLEAN

\* The CLI and the world.
CliType ==
    /\ todo \in SUBSET Tasks /\ orphan \in SUBSET Slots /\ budget \in [Bounded -> Nat]

\* The history.
WhyType == why \in [Tasks -> Reasons]

\* All but the scheduler's own variables.
RestType == ThreadType /\ FileType /\ MonitorType /\ CliType /\ WhyType

\* What was written over another status is remembered.
Remembers == \A t \in Tasks : why[t] = "raced" => why'[t] = "raced"

\* A slot that is open has one writer, or none if it was left open for nobody; a
\* slot that is not open has none.
Written ==
    \A h \in Slots :
        /\ h \in orphan => slot[h] = "generating" /\ Writers(h) = {}
        /\ slot[h] = "generating" /\ h \notin orphan => \E a \in Attempts : Writers(h) = {a}
        /\ slot[h] # "generating" => Writers(h) = {}

\* The inductive invariant.  LeasesBalance alone says nothing of the capacities,
\* which the clamp of give_back needs, and OneWriter counts the writers of a
\* slot where Written names the one there is.
IInv == PoolType /\ RestType /\ Written /\ (Raced \/ Balance)

\* The record r is one of attempt n of task t.
Reports(r, t, n) == r.kind = "phase_done" /\ r.task = t /\ r.attempt = n

\* A queue has such a record, has at most one, and has none of a phase but s.
Has(q, t, n) == \E i \in DOMAIN q : Reports(q[i], t, n)
Once(q, t, n) == \A i, j \in DOMAIN q : Reports(q[i], t, n) /\ Reports(q[j], t, n) => i = j
Says(q, t, n, s) == \A i \in DOMAIN q : Reports(q[i], t, n) => q[i].phase = s

\* The records of a queue.
Items(q) == {q[i] : i \in DOMAIN q}

\* The current attempt of a task.
Me(t) == <<t, current[t]>>

\* A record of the current attempt is on its way to the monitor, or the monitor
\* has taken one; the end of a subgraph it may have taken as well.
Own(t) == Has(planned, t, current[t])
InHand(t) == mon # Idle /\ mon.task = t /\ mon.attempt = current[t]
Busy(t) == InHand(t) /\ (IsLeaf(t) \/ mon.from # "running")
Published(t) == Outputs[t] \subseteq stored

\* A task is in a phase that its current attempt is to carry out, and nothing has
\* hurried it out of turn.
Steady(t) == status[t] \in Phases /\ ~Hurried(t) /\ current[t] # 0

\* What each place of the thread says of the status, the records and the wake.
Place(t) ==
    LET a == Me(t)
    IN  /\ InHand(t) => status[t] = IF mon.at = "move" THEN mon.from ELSE Successor(mon.from)
        /\ Busy(t) => pc[a] = "park" /\ ~woken[a] /\ ~Own(t)
        /\ halted[a] => /\ ~IsLeaf(t) /\ pc[a] \in {"exit", "none"}
                        /\ status[t] # "input_validating"
        /\ pc[a] # "park" /\ Own(t) =>
              status[t] = "output_validating" /\ pc[a] \in {"seal", "done", "crash"}
        /\ pc[a] = "input" => status[t] = "input_validating"
        /\ pc[a] = "main" =>
              status[t] = "running" \/ (~IsLeaf(t) /\ status[t] = "output_validating")
        /\ pc[a] \in {"body", "gate"} => IsLeaf(t) /\ status[t] = "running"
        /\ pc[a] \in {"output", "seal", "done", "reject"} => status[t] = "output_validating"
        /\ woken[a] => status[t] # "input_validating" /\ (IsLeaf(t) => pc[a] = "park")
        /\ pc[a] = "park" /\ woken[a] => ~Own(t)
        /\ pc[a] = "park" /\ ~woken[a] => Own(t) \/ Busy(t) \/ why[t] # ""
        /\ pc[a] = "park" /\ Own(t) =>
              \/ status[t] = "input_validating"
              \/ status[t] = "running" /\ IsLeaf(t) /\ Published(t)
        /\ pc[a] \in {"gate", "reject"} => why[t] # ""
        /\ pc[a] \in {"exit", "none"} /\ ~halted[a] => why[t] # ""

\* One record at most is on its way, of the phase the task is in, and the thread is
\* where that phase and that record have it.
Follows(t) ==
    /\ Once(planned, t, current[t]) /\ Says(planned, t, current[t], status[t])
    /\ Place(t)

\* The inductive core: so it is for every task in a phase.
Protocol == \A t \in Tasks : Steady(t) => Follows(t)

\* An attempt that was not launched yet has left no trace.
Fresh ==
    /\ \A t \in Tasks : current[t] <= tries[t]
    /\ \A r \in Items(planned) : r.kind = "phase_done" => r.attempt <= tries[r.task]
    /\ mon # Idle => mon.attempt <= tries[mon.task]
    /\ \A t \in Tasks, n \in 1 .. MaxAttempts :
          n > tries[t] => /\ pc[<<t, n>>] = "none" /\ ~halted[<<t, n>>]
                          /\ ~woken[<<t, n>>] /\ ~holds[<<t, n>>]

\* A subgraph that ended is somebody's.
Folded == \A r \in Items(planned) : r.kind = "subgraph_done" => ~IsLeaf(r.task)

\* A task in a phase has an attempt, but at the end of a process.
Zero ==
    \A t \in Tasks : status[t] \in Phases /\ why[t] # "raced" /\ current[t] = 0
                    => closing /\ planned = <<>> /\ mon = Idle

\* A task has an open attempt exactly while it has its leases.
Opens == \A t \in Tasks : why[t] # "raced" => (open[t] <=> status[t] \in Phases \cup {"stopping"})

\* What is on its way to the output validation is published.
Pub ==
    /\ \A r \in Items(planned) : r.kind = "subgraph_done" => r.early \/ Published(r.task)
    /\ \A r \in Items(planned) :
          /\ r.kind = "phase_done" /\ r.attempt = current[r.task] /\ r.phase = "output_validating"
          => Hurried(r.task) \/ Published(r.task)
    /\ mon # Idle /\ mon.at = "move" /\ mon.from = "running"
          => IF mon.attempt = 0 THEN why[mon.task] = "raced"
             ELSE mon.attempt = current[mon.task] => Hurried(mon.task) \/ Published(mon.task)
    /\ PublishedFirst

\* A step that leaves a task and its attempt where they are.
Calm(u) ==
    /\ status'[u] = status[u] /\ current'[u] = current[u]
    /\ why[u] # "" => why'[u] # ""
    /\ pc'[Me(u)] = pc[Me(u)] /\ halted'[Me(u)] = halted[Me(u)] /\ woken'[Me(u)] = woken[Me(u)]
    /\ Own(u)' <=> Own(u)
    /\ Once(planned, u, current[u]) => Once(planned, u, current[u])'
    /\ Says(planned, u, current[u], status[u]) => Says(planned, u, current[u], status[u])'
    /\ InHand(u)' <=> InHand(u)
    /\ InHand(u) => (mon'.at = "move" <=> mon.at = "move") /\ mon'.from = mon.from
    /\ stored \subseteq stored'

\* The three things a step may leave alone: where the attempt is, its records,
\* and what the monitor does for it.
ThreadRests(u) ==
    /\ current'[u] = current[u]
    /\ pc'[Me(u)] = pc[Me(u)] /\ halted'[Me(u)] = halted[Me(u)] /\ woken'[Me(u)] = woken[Me(u)]

\* Its records, counted for the attempt that was current before the step.
QueueRests(u) ==
    LET n == current[u]
    IN  /\ Has(planned', u, n) <=> Has(planned, u, n)
        /\ Once(planned, u, n) => Once(planned', u, n)
        /\ Says(planned, u, n, status[u]) => Says(planned', u, n, status[u])

\* What the monitor does for it.
HandRests(u) ==
    /\ InHand(u)' <=> InHand(u)
    /\ InHand(u) => (mon'.at = "move" <=> mon.at = "move") /\ mon'.from = mon.from

\* The history of a task is not cut short.
Keeps(u) == (why[u] # "" => why'[u] # "") /\ (Hurried(u) => Hurried(u)')

\* A dispatch pass lands waiting tasks again, and touches no other.
Rests(u) == status'[u] = status[u] \/ (status[u] \in Waiting /\ status'[u] \in Waiting)

\* What such a step leaves alone: the status and the monitor.
Beside(t) ==
    /\ current'[t] = current[t] /\ status'[t] = status[t] /\ Keeps(t)
    /\ mon' = mon /\ stored \subseteq stored'

\* The record that the thread of an attempt puts at the end of a phase.
RecordOf(a) == [kind |-> "phase_done", task |-> a[1], attempt |-> a[2], phase |-> status[a[1]]]

\* The record that the end of a subgraph puts for the task of the subgraph.
Announcement(r) == [kind |-> "subgraph_done", task |-> Parent[r.task], early |-> Early(r)]

\* Where an attempt holds its outputs open.
Opened(t) ==
    LET a == Me(t)
    IN  \/ pc[a] \in {"body", "gate", "output", "seal"}
        \/ pc[a] \in {"park", "loop"} /\ status[t] = "output_validating"
        \/ pc[a] = "park" /\ status[t] = "running" /\ (Own(t) \/ (InHand(t) /\ mon.at = "move"))

\* What makes the outputs of a leaf usable: they are open until they are sealed,
\* they are valid from then on, and a thread that is done does not come back.
UseOf(t) ==
    /\ Steady(t) /\ Opened(t) => holds[Me(t)]
    /\ status[t] = "succeeded" \/ (Steady(t) /\ pc[Me(t)] = "done")
       => \A h \in Outputs[t] : slot[h] = "valid"
    /\ status[t] = "succeeded" /\ current[t] # 0 => pc[Me(t)] \in {"loop", "exit", "none"}

\* So it is for every leaf with which nothing was wrong.
Use == \A t \in Tasks : IsLeaf(t) /\ why[t] = "" => UseOf(t)

\* A task whose subgraph ended while its thread was leaving is in the monitor's hands.
Parted ==
    \A t \in Tasks :
        /\ ~IsLeaf(t) /\ why[t] = "" /\ status[t] = "output_validating" /\ current[t] # 0
        /\ halted[Me(t)] \/ pc[Me(t)] = "main"
        => mon # Idle /\ mon.task = t

\* The subtasks that were not submitted yet.
Absent(t) == {c \in Children(t) : status[c] = "absent"}
\* A task that may have to wait for its subgraph.
Begun(t) == status[t] \in {"input_validating", "running"}

\* A subgraph is unfolded as a whole.
Unfolded ==
    /\ \A t \in todo : Parent[t] = None
    /\ mon # Idle => status[mon.task] # "absent"
    /\ mon # Idle /\ mon.at = "unfold" => mon.todo = Absent(mon.task)
    /\ \A t \in Tasks : ~IsLeaf(t) /\ why[t] = "" /\ Begun(t) =>
          \/ Absent(t) = {}
          \/ status[t] = "input_validating" /\ Absent(t) = Children(t)
          \/ mon # Idle /\ mon.at = "unfold" /\ mon.task = t

\* A task is over, or about to be: its last record has been put.
Ended(c) == \/ status[c] = "succeeded"
            \/ /\ status[c] = "output_validating" /\ current[c] # 0
               /\ pc[Me(c)] \in {"seal", "done"}

\* The record that ends a task is on its way.
Completed(c) == \E r \in Items(planned) : Completes(r) /\ r.task = c

\* A task does not wait for its subgraph any more, or is being told.
Told(p) ==
    \/ ~Begun(p) \/ why[p] # ""
    \/ \E r \in Items(planned) : r.kind = "subgraph_done" /\ r.task = p
    \/ /\ mon # Idle /\ mon.at = "move" /\ mon.task = p
       /\ mon.from = "running" \/ mon.attempt = 0

\* The end of a subgraph that is over is announced, or its task does not wait.
Announced ==
    \A c \in Ends : Parent[c] # None /\ why[c] = "" /\ ~closing /\ Ended(c)
                    => Completed(c) \/ Told(Parent[c])

\* The conversation of the attempts and the monitor.
Talk == Fresh /\ Folded /\ Zero /\ Opens /\ Protocol /\ Parted /\ Announced

=============================================================================
