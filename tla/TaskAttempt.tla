---------------------------- MODULE TaskAttempt ----------------------------
(***************************************************************************)
(* Running the tasks of TaskScheduler: the attempt of agent_sys/agent,     *)
(* whose thread takes a task through its three phases, and the monitor of  *)
(* agent_sys/monitor, whose thread moves the task from one phase to the    *)
(* next and wakes the attempt.  Neither holds the scheduler's lock: an     *)
(* attempt writes handoff slots, and enter_phase reads a status and then   *)
(* writes the next one, beside whatever the lock protects.                 *)
(*                                                                         *)
(* One monitor watches every task, as in the graphs the CLI starts.  The   *)
(* executor of a body, the validators and the stores are external: they    *)
(* succeed, refuse or raise.  The monitor's reaction to a refusal (push,   *)
(* escalate, give up) talks to an executor or to the user and moves no     *)
(* task: it is the absence of an action here.                              *)
(***************************************************************************)
EXTENDS TaskScheduler, Sequences

CONSTANTS
    Worlds,         \* bounds: what is submitted, and how often Bounded may happen
    MaxAttempts

Bounded == {"refusals", "stops", "resumes", "restarts"}

ASSUME AttemptConfig ==
    /\ MaxAttempts \in Nat
    /\ Worlds \subseteq [roots : SUBSET Tasks, budget : [Bounded -> Nat]]

VARIABLES
    current,    \* Runner._attempts: the attempt of a task, by number, or 0
    pc,         \* per attempt: where its thread is
    halted,     \* per attempt: _halted
    woken,      \* per attempt: _wake
    holds,      \* per attempt: _model_open
    planned,    \* the monitor's PlannedQueue
    mon,        \* what the monitor's thread is doing
    closing,    \* whether the monitors have been told to stop
    stored,     \* slots with a version published in the artefact store
    sealed,     \* per attempt: _store_sealed, the outputs it published
    todo,       \* tasks the CLI has still to submit
    budget,     \* what is left of a world's bounds
    orphan,     \* history: slots that are open and that nobody will seal
    why         \* history, per task: what disturbed its attempt

attempt == <<current, pc, halted, woken, holds>>
files == <<slot, stored, sealed>>
monitor == <<planned, mon, closing>>
cli == <<todo, budget, orphan>>
vars == <<scheduler, files, attempt, monitor, cli, why>>

Attempts == Tasks \X (1 .. MaxAttempts)
Live == {"loop", "input", "main", "body", "gate", "park", "output", "reject", "seal",
         "done", "crash", "exit"}
Records == [kind : {"phase_done"}, task : Tasks, attempt : 1 .. MaxAttempts,
            phase : Statuses]
           \cup [kind : {"subgraph_done"}, task : Tasks, early : BOOLEAN]
Idle == [at |-> "idle"]
Reasons == {"", "refused", "stopped", "raced", "stale", "missed", "stranded", "hollow"}

TypeOK ==
    /\ SchedulerTypeOK
    /\ current \in [Tasks -> 0 .. MaxAttempts]
    /\ pc \in [Attempts -> Live \cup {"none"}]
    /\ {halted, woken, holds} \subseteq [Attempts -> BOOLEAN]
    /\ sealed \in [Attempts -> SUBSET Slots]
    /\ planned \in Seq(Records)
    /\ mon \in {Idle} \cup [at : {"move", "unfold", "carry"}, task : Tasks, from : Phases,
                            todo : SUBSET Tasks, attempt : 0 .. MaxAttempts]
    /\ closing \in BOOLEAN /\ todo \subseteq Tasks
    /\ orphan \subseteq Slots /\ stored \subseteq Slots
    /\ budget \in [Bounded -> Nat]
    /\ why \in [Tasks -> Reasons]

Init ==
    /\ SchedulerInit
    /\ current = [t \in Tasks |-> 0]
    /\ pc = [a \in Attempts |-> "none"]
    /\ halted = [a \in Attempts |-> FALSE]
    /\ woken = [a \in Attempts |-> FALSE]
    /\ holds = [a \in Attempts |-> FALSE]
    /\ sealed = [a \in Attempts |-> {}] /\ stored = {}
    /\ planned = <<>> /\ mon = Idle /\ closing = FALSE
    /\ \E w \in Worlds : todo = w.roots /\ budget = w.budget
    /\ orphan = {} /\ why = [t \in Tasks |-> ""]

Spend(what) ==
    /\ budget[what] > 0
    /\ budget' = [budget EXCEPT ![what] = @ - 1]

\* history: the first thing that disturbs an attempt is the one remembered, but
\* what an earlier attempt does to it comes before that, and a status written
\* over another before all, which is never forgotten.
Note(t, reason) ==
    why' = [why EXCEPT ![t] = IF @ = "" \/ reason = "raced" \/ (reason = "stale" /\ @ # "raced")
                              THEN reason ELSE @]
-----------------------------------------------------------------------------
\* The scheduler's operations, with what they do to the attempts.

\* The CLI submits what it was given.
Start(t) ==
    /\ t \in todo
    /\ Submit(t)
    /\ todo' = todo \ {t}
    /\ UNCHANGED <<attempt, monitor, stored, sealed, budget, orphan, why>>

Skip(t) ==
    /\ PassOver(t) \/ Demote(t)
    /\ UNCHANGED <<files, attempt, monitor, cli, why>>

\* history: a task whose subgraph was unfolded by an earlier attempt, and will
\* not announce itself to this one.
Stranded(t) ==
    /\ \E c \in Children(t) : status[c] # "absent"
    /\ \E c \in Children(t) :
          status[c] = "absent" \/ (c \in Ends /\ status[c] \in {"output_validating", "succeeded"})

\* Runner.start: a new attempt takes the task's place in the map, and a thread.
LaunchAttempt(t) ==
    LET a == <<t, tries[t] + 1>>
    IN  /\ tries[t] < MaxAttempts
        /\ Launch(t)
        /\ current' = [current EXCEPT ![t] = a[2]]
        /\ pc' = [pc EXCEPT ![a] = "loop"]
        /\ why' = [why EXCEPT ![t] = IF @ = "raced" THEN @
                                     ELSE IF Stranded(t) THEN "stranded" ELSE ""]
        /\ UNCHANGED <<files, halted, woken, holds, monitor, cli>>

\* A launch that fails after the new attempt was pushed may have put it in the
\* map, without a thread.
LaunchFails(t) ==
    /\ \E pushed \in BOOLEAN :
         /\ pushed => tries[t] < MaxAttempts
         /\ AbortLaunch(t, pushed)
         /\ UNCHANGED current \/ (pushed /\ current' = [current EXCEPT ![t] = tries'[t]])
    /\ Spend("refusals")
    /\ UNCHANGED <<files, pc, halted, woken, holds, monitor, todo, orphan, why>>

\* Runner.stop within Scheduler.stop: halt ends the executor, which may raise,
\* and wakes the thread; nobody waits for the thread to end.
Halt(these) ==
    /\ halted' = [a \in Attempts |-> halted[a] \/ a \in these]
    /\ woken' = [a \in Attempts |-> woken[a] \/ a \in these]

Mapped(t) == {<<t, n>> : n \in {current[t]} \ {0}}

StopTask(t) ==
    /\ Spend("stops")
    /\ Halt(Mapped(t))
    /\ \/ Stop(t) /\ current' = [current EXCEPT ![t] = 0]
       \/ StopRaises(t) /\ current[t] # 0 /\ UNCHANGED current
    /\ Note(t, "stopped")
    /\ UNCHANGED <<files, pc, holds, monitor, todo, orphan>>

\* Task.fail, which leaves the attempt's thread alone.
FailTask(t) ==
    /\ Spend("stops")
    /\ status[t] \in Phases
    /\ OnTaskDone(t, "failed", Reserve[t])
    /\ Note(t, "stopped")
    /\ UNCHANGED <<files, attempt, monitor, todo, orphan>>

\* Scheduler.resume_task, while a further attempt is within the bound.
RestartTask(t) ==
    /\ Spend("resumes")
    /\ tries[t] < MaxAttempts
    /\ ResumeTask(t)
    /\ UNCHANGED <<files, attempt, monitor, todo, orphan, why>>
-----------------------------------------------------------------------------
\* The thread of an attempt, TaskAttempt.run.  A halt may come between two lines
\* of it: a thread that finds itself halted where it looks leaves, and one that
\* looked before goes on.

Goto(a, l) == pc' = [pc EXCEPT ![a] = l]

\* history: the attempt is not the one the runner knows for its task.
Stale(a) == halted[a] \/ current[a[1]] # a[2]

\* _report_planned: the record names the status the task has by then.  A monitor
\* that was told to stop refuses it, and the thread dies of that.
ReportPlanned(a, next) ==
    /\ IF closing
       THEN Goto(a, "crash") /\ UNCHANGED planned
       ELSE /\ planned' = Append(planned, [kind |-> "phase_done", task |-> a[1],
                                           attempt |-> a[2], phase |-> status[a[1]]])
            /\ Goto(a, next)
    /\ IF Stale(a) THEN Note(a[1], "stale") ELSE UNCHANGED why
    /\ UNCHANGED <<mon, closing>>

\* A report of the unplanned channel, after which the task waits for a decision
\* that no monitor of this repository takes.
ReportRefusal(a, next) ==
    /\ Spend("refusals")
    /\ Goto(a, IF closing THEN "crash" ELSE next)
    /\ Note(a[1], "refused")
    /\ UNCHANGED monitor

\* What run's except catches.
Raise(a) ==
    /\ Spend("refusals")
    /\ Goto(a, "crash")
    /\ UNCHANGED <<monitor, why>>

\* The head of run's loop, and _one_phase.
Loop(a) ==
    LET phase == status[a[1]]
        place == [input_validating |-> "input", running |-> "main",
                  output_validating |-> "output"]
    IN  /\ pc[a] = "loop"
        /\ \/ halted[a] /\ Goto(a, "exit")
           \/ Goto(a, IF phase \in Phases THEN place[phase] ELSE "exit")
        /\ UNCHANGED <<scheduler, files, current, halted, woken, holds, monitor, cli, why>>

\* _validation of the inputs.
Input(a) ==
    /\ pc[a] = "input"
    /\ \/ ReportPlanned(a, "park") /\ UNCHANGED budget
       \/ ReportRefusal(a, "exit")
    /\ UNCHANGED <<scheduler, files, current, halted, woken, holds, todo, orphan>>

\* _main of a task with a subgraph: release.
MainReleases(a) ==
    /\ pc[a] = "main" /\ ~IsLeaf(a[1])
    /\ Goto(a, "exit")
    /\ halted' = [halted EXCEPT ![a] = TRUE]
    /\ woken' = [woken EXCEPT ![a] = TRUE]
    /\ UNCHANGED <<scheduler, files, current, holds, monitor, cli, why>>

\* Mutant: a version that is open is opened again.
IsOpenAgain(t) == FALSE

\* open_next refuses a version that somebody has open.
IsOpen(t) == \E h \in Outputs[t] : slot[h] = "generating"

\* The slots, once those of S have been opened.
Opening(S) == [h \in Slots |-> IF h \in S THEN "generating" ELSE slot[h]]

\* _main of a leaf, up to the body: _deploy, then _open_outputs, one output after
\* the other.  _model_open is set after the last: what was opened before
\* something raises is left open for nobody.
MainOpens(a) ==
    /\ pc[a] = "main" /\ IsLeaf(a[1])
    /\ \/ /\ ~IsOpen(a[1])
          /\ slot' = Opening(Outputs[a[1]])
          /\ holds' = [holds EXCEPT ![a] = TRUE]
          /\ Goto(a, "body")
          /\ UNCHANGED <<budget, orphan>>
       \/ /\ \E S \in SUBSET {h \in Outputs[a[1]] : slot[h] # "generating"} :
               slot' = Opening(S) /\ orphan' = orphan \cup S
          /\ (IsOpen(a[1]) /\ UNCHANGED budget) \/ Spend("refusals")
          /\ Goto(a, "crash")
          /\ UNCHANGED holds
    /\ IF Stale(a) THEN Note(a[1], "stale") ELSE UNCHANGED why
    /\ UNCHANGED <<scheduler, stored, sealed, current, halted, woken, monitor, todo>>

\* What the gate asks of the store: some version of every output is published.
GatePasses(t, published) == Outputs[t] \subseteq published

\* One round of _main's loop: the body runs, the store's seal publishes what it
\* wrote or refuses some of it, and the gate looks.
Body(a) ==
    /\ pc[a] = "body"
    /\ \/ \E out \in SUBSET Outputs[a[1]] :
            /\ stored' = stored \cup out
            /\ sealed' = [sealed EXCEPT ![a] = @ \cup out]
            /\ \/ /\ GatePasses(a[1], stored')
                  /\ IF out = Outputs[a[1]] THEN UNCHANGED budget ELSE Spend("refusals")
                  /\ ReportPlanned(a, "park")
               \/ ReportRefusal(a, "gate")
       \/ Raise(a) /\ UNCHANGED <<stored, sealed>>
       \/ halted[a] /\ Goto(a, "exit") /\ UNCHANGED <<stored, sealed, monitor, budget, why>>
    /\ UNCHANGED <<scheduler, slot, current, halted, woken, holds, todo, orphan>>

\* _await_wake, after a phase and after a failed gate.
Awake(a) ==
    /\ pc[a] \in {"park", "gate"} /\ woken[a]
    /\ woken' = [woken EXCEPT ![a] = FALSE]
    /\ Goto(a, IF halted[a] THEN "exit" ELSE IF pc[a] = "park" THEN "loop" ELSE "body")
    /\ UNCHANGED <<scheduler, files, current, halted, holds, monitor, cli, why>>

\* Mutant: on_done comes before the seal.
OutputUnsealed(a) ==
    /\ pc[a] = "output"
    /\ \/ ReportPlanned(a, "done") /\ UNCHANGED budget
       \/ ReportRefusal(a, "reject")
    /\ UNCHANGED <<scheduler, files, current, halted, woken, holds, todo, orphan>>

\* _validation of the outputs, in _close.
Output(a) ==
    /\ pc[a] = "output"
    /\ \/ ReportPlanned(a, "seal") /\ UNCHANGED budget
       \/ ReportRefusal(a, "reject")
    /\ UNCHANGED <<scheduler, files, current, halted, woken, holds, todo, orphan>>

\* An output that the attempt did not publish is not usable.
Verdict(a, passed, h) == IF passed /\ h \in sealed[a] THEN "valid" ELSE "invalid"

\* The outputs that the attempt has opened.
Mine(a) == IF holds[a] THEN Outputs[a[1]] ELSE {}

\* _seal_model_versions, once: _model_open is cleared, then one output after the
\* other is sealed.  A version that is not open raises, and so may a store that
\* cannot be written: what was not sealed by then is left open for nobody.
SealAs(a, passed, next, otherwise) ==
    LET left == {h \in Mine(a) : slot[h] = "generating"}
    IN  /\ \E S \in SUBSET left :
             /\ slot' = [h \in Slots |-> IF h \in S THEN Verdict(a, passed, h) ELSE slot[h]]
             /\ orphan' = orphan \cup (left \ S)
             /\ \/ S = Mine(a) /\ Goto(a, next) /\ UNCHANGED budget
                \/ /\ left = Mine(a) => S # {}
                   /\ IF left = Mine(a) THEN Spend("refusals") ELSE UNCHANGED budget
                   /\ Goto(a, otherwise)
        /\ holds' = [holds EXCEPT ![a] = FALSE]
        /\ UNCHANGED <<scheduler, stored, sealed, current, halted, woken, monitor, todo>>

Seal(a) ==
    /\ pc[a] = "seal"
    /\ SealAs(a, TRUE, "done", "crash")
    /\ IF holds[a] /\ ~(Outputs[a[1]] \subseteq sealed[a]) THEN Note(a[1], "hollow")
       ELSE UNCHANGED why

Reject(a) == pc[a] = "reject" /\ SealAs(a, FALSE, "exit", "crash") /\ UNCHANGED why

\* on_done, at the end of _close; a scheduler that refuses it raises.
Done(a) ==
    /\ pc[a] = "done"
    /\ \E used \in Usage(a[1]) : OnTaskDone(a[1], "succeeded", used)
    /\ Goto(a, IF Accepts(a[1]) THEN "exit" ELSE "crash")
    /\ IF Stale(a) THEN Note(a[1], "stale") ELSE UNCHANGED why
    /\ UNCHANGED <<files, current, halted, woken, holds, monitor, cli>>

\* _crash: whatever was reported, the task is closed, if the scheduler has it.
Crash(a) ==
    /\ pc[a] = "crash"
    /\ \E used \in Usage(a[1]) : OnTaskDone(a[1], "failed", used)
    /\ Goto(a, "exit")
    /\ IF Stale(a) THEN Note(a[1], "stale") ELSE UNCHANGED why
    /\ UNCHANGED <<files, current, halted, woken, holds, monitor, cli>>

\* run's finally, _close_model_slot, which ends the thread even if it raises.
Exit(a) == pc[a] = "exit" /\ SealAs(a, FALSE, "none", "none") /\ UNCHANGED why

Thread(a) ==
    \/ Loop(a) \/ Input(a) \/ MainReleases(a) \/ MainOpens(a) \/ Body(a) \/ Awake(a)
    \/ Output(a) \/ Seal(a) \/ Reject(a) \/ Done(a) \/ Crash(a) \/ Exit(a)
-----------------------------------------------------------------------------
\* The monitor's thread, _advance.

\* next_phase.
Successor(phase) == IF phase = "input_validating" THEN "running" ELSE "output_validating"

\* The last phase is not an advance.
Completes(r) == r.kind = "phase_done" /\ r.phase = "output_validating"

\* Mutant: any phase of the end task announces the subgraph.
AnnouncesEarly(r) ==
    r.kind = "phase_done" /\ r.task \in Ends /\ Parent[r.task] # None /\ ~closing

\* _notify_parent_done: the end task's completion is the subgraph's, and is
\* reported to the parent, unless the monitor refuses reports by now.
Announces(r) == Completes(r) /\ r.task \in Ends /\ Parent[r.task] # None /\ ~closing

\* history: the end task was hurried on by an earlier attempt, or by a status
\* written over another, or has a further attempt by now.
Hurried(t) == why[t] \in {"raced", "stale"}
Early(r) == Hurried(r.task) \/ r.attempt # current[r.task]

\* A record is taken; next_phase, and the check at the head of enter_phase,
\* read the status the task has now.  What they refuse is recorded and dropped.
Take ==
    LET r == Head(planned)
        t == r.task
    IN  /\ mon = Idle /\ planned # <<>>
        /\ planned' = IF Announces(r)
                      THEN Append(Tail(planned), [kind |-> "subgraph_done", task |-> Parent[t],
                                                    early |-> Early(r)])
                      ELSE Tail(planned)
        /\ mon' = IF ~Completes(r) /\ status[t] \in {"input_validating", "running"}
                  THEN [at |-> "move", task |-> t, from |-> status[t], todo |-> {},
                        attempt |-> IF r.kind = "phase_done" THEN r.attempt
                                    ELSE IF status[t] = "running" THEN current[t] ELSE 0]
                  ELSE Idle
        /\ IF r.kind = "subgraph_done" /\ r.early THEN Note(t, "stale") ELSE UNCHANGED why
        /\ UNCHANGED <<scheduler, files, attempt, closing, cli>>

\* enter_phase writes the status through _move, without the scheduler's lock.
Move ==
    LET t == mon.task
        unfolds == mon.from = "input_validating" /\ ~IsLeaf(t)
                   /\ \A c \in Children(t) : status[c] = "absent"
    IN  /\ mon.at = "move"
        /\ status' = [status EXCEPT ![t] = Successor(mon.from)]
        /\ mon' = IF unfolds THEN [mon EXCEPT !.at = "unfold", !.todo = Children(t)]
                  ELSE [mon EXCEPT !.at = "carry"]
        /\ IF status[t] # mon.from THEN Note(t, "raced")
           ELSE IF mon.attempt # current[t] THEN Note(t, "stale") ELSE UNCHANGED why
        /\ UNCHANGED <<open, tries, pools, pass, files, attempt, planned, closing, cli>>

\* The subtasks are submitted one by one ...
Unfold(c) ==
    /\ mon.at = "unfold"
    /\ c \in mon.todo
    /\ Submit(c)
    /\ mon' = [mon EXCEPT !.todo = @ \ {c}, !.at = IF mon.todo = {c} THEN "carry" ELSE @]
    /\ UNCHANGED <<stored, sealed, attempt, planned, closing, cli, why>>

\* ... if the zone is placed and none of them is refused.
UnfoldRaises ==
    /\ mon.at = "unfold"
    /\ Spend("refusals")
    /\ mon' = Idle
    /\ Note(mon.task, "refused")
    /\ UNCHANGED <<scheduler, files, attempt, planned, closing, todo, orphan>>

\* Mutant: an attempt that the runner knows has a thread.
IsRunningIfKnown(a) == TRUE

\* is_running.
IsRunning(a) == pc[a] \in Live /\ ~halted[a]

\* A thread in one of these places does not wait for a wake again.
Leaving(a) == pc[a] \in {"seal", "reject", "done", "crash", "exit"}
              \/ (pc[a] = "main" /\ ~IsLeaf(a[1]))

\* A thread that has ended, or was released and has nothing left to do.
Gone(a) == pc[a] = "none" \/ (pc[a] = "exit" /\ ~IsLeaf(a[1]))

\* carry_on: the attempt's thread is woken if there is one, and otherwise begin
\* takes one.  (After a stop that raised, begin would start it beside a thread of
\* the attempt that is still to find itself halted; here it waits for that one.)
Carry ==
    LET a == <<mon.task, current[mon.task]>>
    IN  /\ mon.at = "carry"
        /\ mon' = Idle
        /\ IF a[2] = 0 THEN UNCHANGED <<pc, halted, woken, why>>
           ELSE IF IsRunning(a)
           THEN /\ woken' = [woken EXCEPT ![a] = TRUE]
                /\ IF mon.attempt # a[2] THEN Note(a[1], "stale")
                   ELSE IF Leaving(a) THEN Note(a[1], "missed") ELSE UNCHANGED why
                /\ UNCHANGED <<pc, halted>>
           ELSE /\ Gone(a)
                /\ Goto(a, "loop")
                /\ woken' = [woken EXCEPT ![a] = FALSE]
                /\ halted' = [halted EXCEPT ![a] = FALSE]
                /\ UNCHANGED why
        /\ UNCHANGED <<scheduler, files, current, holds, planned, closing, cli>>

Monitor == Take \/ Move \/ (\E c \in Tasks : Unfold(c)) \/ UnfoldRaises \/ Carry
-----------------------------------------------------------------------------
\* The end of a process.  The CLI stops the monitors, which refuse reports from
\* then on and drain their queues; disposes of the attempts; and is gone.
CloseMonitors ==
    /\ ~closing /\ todo = {}
    /\ Spend("restarts")
    /\ closing' = TRUE
    /\ UNCHANGED <<scheduler, files, attempt, planned, mon, todo, orphan, why>>

\* Runner.shutdown.
Shutdown ==
    /\ closing /\ planned = <<>> /\ mon = Idle
    /\ \E t \in Tasks : current[t] # 0
    /\ Halt(UNION {Mapped(t) : t \in Tasks})
    /\ current' = [t \in Tasks |-> 0]
    /\ UNCHANGED <<scheduler, files, pc, holds, monitor, cli, why>>

\* A new process resumes from the stores, after such an end or after a crash.
\* What had not been submitted still is to be.
Restart ==
    /\ IF closing THEN UNCHANGED budget ELSE Spend("restarts")
    /\ Resume
    /\ orphan' = {h \in Slots : slot[h] = "generating"}
    /\ current' = [t \in Tasks |-> 0]
    /\ pc' = [a \in Attempts |-> "none"]
    /\ halted' = [a \in Attempts |-> FALSE] /\ woken' = [a \in Attempts |-> FALSE]
    /\ holds' = [a \in Attempts |-> FALSE] /\ sealed' = [a \in Attempts |-> {}]
    /\ planned' = <<>> /\ mon' = Idle /\ closing' = FALSE
    /\ UNCHANGED <<stored, todo, why>>

Dispatch == \E t \in Tasks : Skip(t) \/ LaunchAttempt(t) \/ LaunchFails(t)

Operator == \E t \in Tasks : StopTask(t) \/ FailTask(t) \/ RestartTask(t)

Next ==
    \/ \E t \in Tasks : Start(t)
    \/ Dispatch
    \/ \E a \in Attempts : Thread(a)
    \/ Monitor
    \/ Operator
    \/ CloseMonitors \/ Shutdown \/ Restart

Spec == Init /\ [][Next]_vars

\* Threads are scheduled, and the CLI submits what it has.  That the thread of an
\* attempt takes its next step supposes that executors and validators return: the
\* monitor does not look for one that never does.  Nobody need stop, resume or
\* restart anything.
FairSpec ==
    /\ Spec
    /\ \A t \in Tasks : WF_vars(Start(t))
    /\ WF_vars(Dispatch) /\ WF_vars(Monitor)
    /\ \A a \in Attempts : WF_vars(Thread(a))
-----------------------------------------------------------------------------
\* The units of a resource that the tasks of S have leased.
Units(amount, S) == UNION {{t} \X (1 .. amount[t]) : t \in S}

Holding == {t \in Tasks : status[t] \in Phases \cup {"stopping"}}

Raced == \E t \in Tasks : why[t] = "raced"

\* What is missing from a pool is what the tasks in a phase, or being stopped,
\* have leased of it, and tokens are missing also for being spent: no stop,
\* failure, aborted launch, late completion or restart loses a lease or returns
\* one twice, and a task has an open attempt exactly while it has its leases.
\* Nothing is said of a run in which enter_phase has written a status over
\* another, or of the tokens once what was charged has exceeded the budget: the
\* clamps of give_back and of a restart then forget some of it.
LeasesBalance ==
    Raced \/ /\ gpu = Gpus - Cardinality(Units(Need, Holding))
             /\ overdrawn \/ tok = Tokens - spent - Cardinality(Units(Reserve, Holding))
             /\ Holding = {t \in Tasks : open[t]}

Writers(h) == {a \in Attempts : holds[a] /\ h \in Outputs[a[1]]}

\* A version that is open for writing has one attempt that will seal it, through
\* stops, retries beside a thread that has not ended, and failures.  It is left
\* open for nobody by a process that dies, and by an attempt that fails between
\* opening its first output and its last, or between sealing them.
OneWriter ==
    \A h \in Slots :
        IF slot[h] = "generating" /\ h \notin orphan THEN Cardinality(Writers(h)) = 1
        ELSE Writers(h) = {}

\* A task comes to its output validation only when some version of each of its
\* outputs is published: by the body of a leaf, and for a task with a subgraph
\* by the subgraph.  The exceptions are a status written over another, and a
\* record of an earlier attempt, of the task or of the end of its subgraph.
PublishedFirst ==
    \A t \in Tasks :
        status[t] = "output_validating" /\ ~Hurried(t) => Outputs[t] \subseteq stored

Working(t) == \E a \in Mapped(t) :
    pc[a] \in Live \ {"park", "gate", "exit"} \/ (pc[a] = "park" /\ woken[a])

Awaited(t) ==
    \/ mon # Idle /\ mon.task = t
    \/ \E i \in DOMAIN planned : planned[i].task = t

ToBeAnnounced(t) ==
    /\ status[t] = "running"
    /\ \E c \in Children(t) \cap Ends :
          Awaited(c) \/ status[c] \notin {"absent", "succeeded"} \/ why[c] # ""

\* A task in a phase is somebody's: a thread of its attempt is at work, a record
\* about it is on its way to the monitor or in its hands, or the end of its
\* subgraph is still to come, or was disturbed itself.  The tasks whose attempt
\* was disturbed are left out, for they may be nobody's: a refusal waits for a
\* decision, an operator intervened, a status was written over another, a record
\* came from an earlier attempt, a subgraph ended or was half unfolded under an
\* earlier attempt, or the wake after a subgraph came while the thread of its
\* task was leaving and was lost.
NobodyForgotten ==
    \A t \in Tasks :
        status[t] \in Phases /\ why[t] = "" /\ ~closing
        => Working(t) \/ Awaited(t) \/ ToBeAnnounced(t)

\* A leaf that succeeded leaves its outputs usable for its consumers.  (A task
\* with a subgraph may succeed before the end of the subgraph has sealed them.)
SuccessIsUsable ==
    \A t \in Tasks : IsLeaf(t) /\ status[t] = "succeeded" /\ why[t] = ""
                     => \A h \in Outputs[t] : slot[h] = "valid"

Undisturbed ==
    /\ ~overdrawn
    /\ \A t \in Tasks : why[t] = "" /\ status[t] \notin Resumable \cup {"stopping"}

\* All that was submitted succeeds, in a run in which nothing is refused, raises
\* or is stopped, the token budget is not overdrawn, no status is written over
\* another, no record of an earlier attempt moves a task, no gate passes on what
\* an earlier attempt published, no wake is lost to a thread that is leaving, no
\* restart falls between the unfolding of a subgraph and its end being heard, and
\* no process is left closing.  Other restarts are allowed, and any order of the
\* steps that are left.
Finishes == []Undisturbed /\ <>[]~closing => <>[](\A t \in Tasks : status[t] \in {"absent", "succeeded"})
-----------------------------------------------------------------------------
\* What the theorems ask of a graph of tasks, beyond what its validation does.

\* The CLI submits tasks that are of no subgraph.
RootsAreRoots == \A w \in Worlds : \A t \in w.roots : Parent[t] = None

\* A subgraph has a task that is marked as its end.
SubgraphsEnd == \A t \in Tasks : IsLeaf(t) \/ Children(t) \cap Ends # {}

\* The end of a subgraph writes what the task of the subgraph promises.  Nothing
\* in the graph's validation asks for it.
EndsExport == \A c \in Ends : Parent[c] # None => Outputs[Parent[c]] \subseteq Outputs[c]

\* Two leaves write no slot in common.
SlotsApart ==
    \A t, u \in Tasks : IsLeaf(t) /\ IsLeaf(u) /\ t # u => Outputs[t] \cap Outputs[u] = {}
=============================================================================
