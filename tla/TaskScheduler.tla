--------------------------- MODULE TaskScheduler ---------------------------
(***************************************************************************)
(* The scheduler of agent_sys/task_graph: which task is in which status,   *)
(* what it has leased, and the handoff slots that make one task wait for   *)
(* another.  The operations here are the ones that TaskAttempt composes    *)
(* with the threads that call them.                                        *)
(*                                                                         *)
(* Every operation of the Scheduler holds its lock to the end of the       *)
(* dispatch pass it starts, and attempts write slots without it.  So an    *)
(* operation is a step that leaves behind the tasks its pass has still to  *)
(* look at, pass; a Launch looks at one of them; and an operation waits    *)
(* until pass is empty.  The order of a pass is the policy's, which is     *)
(* pluggable: any.                                                         *)
(*                                                                         *)
(* A pool is the set of tasks of one status, and is not written down.      *)
(***************************************************************************)
EXTENDS Integers, FiniteSets

CONSTANTS
    Tasks, Slots,
    Inputs, Outputs,    \* per task: the slots it reads and writes
    Parent,             \* per task: whose subgraph it is of, or None
    Ends,               \* the tasks marked is_end
    Need,               \* per task: GPUs
    Reserve,            \* per task: tokens, 0 if it does not name the pool
    Charges,            \* per task: what it may report without having reserved it
    Gpus, Tokens,       \* capacities of the two pools
    None

ASSUME TaskConfig ==
    /\ IsFiniteSet(Tasks) /\ None \notin Tasks
    /\ Inputs \in [Tasks -> SUBSET Slots] /\ Outputs \in [Tasks -> SUBSET Slots]
    /\ Parent \in [Tasks -> Tasks \cup {None}] /\ Ends \subseteq Tasks
    /\ Need \in [Tasks -> Nat] /\ Reserve \in [Tasks -> Nat]
    /\ Charges \in [Tasks -> SUBSET Nat]
    /\ Gpus \in Nat /\ Tokens \in Nat

VARIABLES
    status,     \* per task: TaskStatus, or "absent"
    open,       \* per task: the top of its history is an open Execution
    tries,      \* per task: how many Executions it has had
    gpu, tok,   \* available
    spent,      \* the token pool's durable total
    overdrawn,  \* history: the token pool has been below zero
    slot,       \* per slot: HandoffStatus of its latest version, or "undeclared"
    pass        \* what the running dispatch pass has still to look at

pools == <<gpu, tok, spent, overdrawn>>
scheduler == <<status, open, tries, pools, pass>>

Waiting == {"waiting_handoff", "waiting_resource"}
Phases == {"input_validating", "running", "output_validating"}
Resumable == {"failed", "suspended"}
Statuses == Waiting \cup Phases \cup Resumable
            \cup {"absent", "stopping", "succeeded", "cancelled"}
SlotStatuses == {"undeclared", "created", "generating", "valid", "invalid"}

Children(t) == {c \in Tasks : Parent[c] = t}
IsLeaf(t) == Children(t) = {}

SchedulerTypeOK ==
    /\ status \in [Tasks -> Statuses]
    /\ open \in [Tasks -> BOOLEAN] /\ tries \in [Tasks -> Nat]
    /\ gpu \in 0 .. Gpus /\ tok \in Int /\ tok <= Tokens /\ spent \in Nat
    /\ overdrawn \in BOOLEAN /\ (tok < 0 => overdrawn)
    /\ slot \in [Slots -> SlotStatuses]
    /\ pass \subseteq Tasks

SchedulerInit ==
    /\ status = [t \in Tasks |-> "absent"]
    /\ open = [t \in Tasks |-> FALSE] /\ tries = [t \in Tasks |-> 0]
    /\ gpu = Gpus /\ tok = Tokens /\ spent = 0 /\ overdrawn = FALSE
    /\ slot = [h \in Slots |-> "undeclared"]
    /\ pass = {}
-----------------------------------------------------------------------------
LockFree == pass = {}

\* _ready and _landing: the query that replaces a dependency counter.
Ready(t) == \A h \in Inputs[t] : slot[h] = "valid"
Landing(t) == IF Ready(t) THEN "waiting_resource" ELSE "waiting_handoff"

\* try_dispatch, from statuses st: every waiting task is landed again, and the
\* pass goes over those that are eligible.
TryDispatch(st) ==
    /\ status' = [t \in Tasks |-> IF st[t] \in Waiting THEN Landing(t) ELSE st[t]]
    /\ pass' = {t \in Tasks : status'[t] = "waiting_resource"}

\* submit.  TaskMgr.add revives a cancelled id and no other; declare leaves a
\* slot alone that exists.
Submit(t) ==
    /\ LockFree
    /\ status[t] \in {"absent", "cancelled"}
    /\ slot' = [h \in Slots |-> IF h \in Outputs[t] /\ slot[h] = "undeclared"
                                THEN "created" ELSE slot[h]]
    /\ TryDispatch([status EXCEPT ![t] = "waiting_handoff"])
    /\ UNCHANGED <<open, tries, pools>>

\* Mutant: give_back does not clamp.
AtMostAnything(n, cap) == n

\* The clamp of give_back.
AtMost(n, cap) == IF n <= cap THEN n ELSE cap

\* What the attempt of a task may report: no more counts than was reserved.
Usage(t) == IF Reserve[t] > 0 THEN 0 .. Reserve[t] ELSE Charges[t] \cup {0}

\* _release.  give_back: a GPU comes back whole, tokens less what was used of the
\* reservation.  charge: what was used without a reservation is booked all the
\* same, below zero if it must.
Release(t, used) ==
    /\ gpu' = AtMost(gpu + Need[t], Gpus)
    /\ IF Reserve[t] > 0
       THEN /\ tok' = AtMost(tok + (Reserve[t] - used), Tokens)
            /\ spent' = AtMost(spent + used, Tokens)
       ELSE tok' = tok - used /\ spent' = spent + used
    /\ overdrawn' = (overdrawn \/ tok' < 0)

\* What on_task_done asks of a task: _require, and, after the leases are back,
\* an attempt for close_execution to close.  Where it refuses, it raises.
Accepts(t) == status[t] \in Phases /\ open[t]

\* Mutant: nobody else is looked at.
OnTaskDoneQuietly(t, outcome, used) ==
    /\ LockFree
    /\ IF status[t] \in Phases THEN Release(t, used) ELSE UNCHANGED pools
    /\ open' = [open EXCEPT ![t] = @ /\ ~Accepts(t)]
    /\ status' = [status EXCEPT ![t] = IF Accepts(t) THEN outcome ELSE @]
    /\ UNCHANGED <<tries, pass>>

\* on_task_done.
OnTaskDone(t, outcome, used) ==
    /\ LockFree
    /\ IF status[t] \in Phases THEN Release(t, used) ELSE UNCHANGED pools
    /\ IF Accepts(t)
       THEN /\ open' = [open EXCEPT ![t] = FALSE]
            /\ TryDispatch([status EXCEPT ![t] = outcome])
       ELSE UNCHANGED <<open, status, pass>>
    /\ UNCHANGED tries

\* resume_task.
ResumeTask(t) ==
    /\ LockFree
    /\ status[t] \in Resumable
    /\ TryDispatch([status EXCEPT ![t] = "waiting_handoff"])
    /\ UNCHANGED <<open, tries, pools>>

\* stop, whose runner acknowledges at once: on_stopped settles at the whole
\* reservation ...
Stop(t) ==
    /\ LockFree
    /\ status[t] \in Phases
    /\ Release(t, Reserve[t])
    /\ IF open[t]
       THEN /\ open' = [open EXCEPT ![t] = FALSE]
            /\ TryDispatch([status EXCEPT ![t] = "suspended"])
       ELSE status' = [status EXCEPT ![t] = "stopping"] /\ UNCHANGED <<open, pass>>
    /\ UNCHANGED tries

\* ... or raises, and then nobody acknowledges.
StopRaises(t) ==
    /\ LockFree
    /\ status[t] \in Phases
    /\ status' = [status EXCEPT ![t] = "stopping"]
    /\ UNCHANGED <<open, tries, pools, pass>>
-----------------------------------------------------------------------------
\* The loop of _dispatch_pass.

CanAfford(t) == Need[t] <= gpu /\ (Reserve[t] > 0 => Reserve[t] <= tok)

Look(t) == t \in pass /\ pass' = pass \ {t}

\* Moved since selection, or cannot be afforded: nothing is taken.
PassOver(t) ==
    /\ Look(t)
    /\ status[t] # "waiting_resource" \/ (Ready(t) /\ ~CanAfford(t))
    /\ UNCHANGED <<status, open, tries, pools>>

\* An input went stale since the pass began.
Demote(t) ==
    /\ Look(t)
    /\ status[t] = "waiting_resource" /\ ~Ready(t)
    /\ status' = [status EXCEPT ![t] = "waiting_handoff"]
    /\ UNCHANGED <<open, tries, pools>>

Eligible(t) == status[t] = "waiting_resource" /\ Ready(t) /\ CanAfford(t)

\* Mutant: the tokens are not reserved.
LaunchUnreserved(t) ==
    /\ Look(t)
    /\ Eligible(t) /\ ~open[t]
    /\ gpu' = gpu - Need[t]
    /\ open' = [open EXCEPT ![t] = TRUE]
    /\ tries' = [tries EXCEPT ![t] = @ + 1]
    /\ status' = [status EXCEPT ![t] = "input_validating"]
    /\ UNCHANGED <<spent, tok, overdrawn>>

\* The leases are taken, an attempt is pushed, and the runner is started.
Launch(t) ==
    /\ Look(t)
    /\ Eligible(t) /\ ~open[t]
    /\ gpu' = gpu - Need[t] /\ tok' = tok - Reserve[t]
    /\ open' = [open EXCEPT ![t] = TRUE]
    /\ tries' = [tries EXCEPT ![t] = @ + 1]
    /\ status' = [status EXCEPT ![t] = "input_validating"]
    /\ UNCHANGED <<spent, overdrawn>>

\* Something raised on the way, before an attempt was pushed or after it:
\* _abort_launch gives the leases back unspent, closes the attempt that is open,
\* which may be an older one, and parks the task.
AbortLaunch(t, pushed) ==
    /\ Look(t)
    /\ Eligible(t)
    /\ pushed => ~open[t]
    /\ open' = [open EXCEPT ![t] = FALSE]
    /\ tries' = [tries EXCEPT ![t] = IF pushed THEN @ + 1 ELSE @]
    /\ status' = [status EXCEPT ![t] = "failed"]
    /\ spent' = IF Reserve[t] > 0 THEN AtMost(spent, Tokens) ELSE spent
    /\ UNCHANGED <<gpu, tok, overdrawn>>
-----------------------------------------------------------------------------
\* resume_all: what the stores hold is what memory held, and no lease survives.
\* TaskMgr closes the attempts the restart cut short.
Resume ==
    /\ open' = [t \in Tasks |-> FALSE]
    /\ gpu' = Gpus
    /\ tok' = IF spent <= Tokens THEN Tokens - spent ELSE 0
    /\ TryDispatch([t \in Tasks |->
                       IF status[t] \in Phases THEN "waiting_resource"
                       ELSE IF status[t] = "stopping" THEN "suspended" ELSE status[t]])
    /\ UNCHANGED <<tries, spent, overdrawn, slot>>
=============================================================================
