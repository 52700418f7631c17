-------------------------- MODULE TaskOutcomeProofs -------------------------
(***************************************************************************)
(* What comes of an attempt, for every graph of tasks, every pool and every*)
(* number of attempts: outputs are published before they are validated, a  *)
(* leaf that succeeded is usable, and no task is left with nobody to move  *)
(* it.  The theorems join the books of TaskAttemptProofs with the          *)
(* conversation of TaskProtocolProofs.                                     *)
(***************************************************************************)
EXTENDS TaskAttemptProofs, TaskProtocolProofs

\* The conversation begins with nobody in a phase and nothing said.
LEMMA InitTalk == Init => Talk
<1> SUFFICES ASSUME Init PROVE Talk
  BY Zenon
<1>0. /\ \A t \in Tasks : status[t] = "absent" /\ ~open[t] /\ tries[t] = 0 /\ current[t] = 0
      /\ planned = <<>> /\ mon = Idle
      /\ \A a \in Attempts : pc[a] = "none" /\ ~halted[a] /\ ~woken[a] /\ ~holds[a]
  BY Zenon DEF Init, SchedulerInit
<1>1. Items(planned) = {}
  BY <1>0 DEF Items
<1>2. "absent" \notin Phases \cup {"stopping", "succeeded", "output_validating"}
  BY DEF Phases
<1>3. Fresh
  <2>1. \A t \in Tasks, n \in 1 .. MaxAttempts : <<t, n>> \in Attempts
    BY Zenon DEF Attempts
  <2>2. \A t \in Tasks : current[t] <= tries[t]
    BY <1>0
  <2> QED BY Zenon, <1>0, <1>1, <2>1, <2>2 DEF Fresh
<1>4. Folded /\ Announced
  BY Zenon, <1>0, <1>1, <1>2, TaskConfig DEF Folded, Announced, Ended
<1>5. Zero /\ Opens /\ Protocol /\ Parted
  BY Zenon, <1>0, <1>2 DEF Zero, Opens, Protocol, Steady, Parted
<1> QED BY Zenon, <1>3, <1>4, <1>5 DEF Talk

\* Every step keeps the conversation going.
LEMMA NextTalk == IInv /\ Talk /\ [Next]_vars => Talk'
<1> SUFFICES ASSUME IInv, Talk, [Next]_vars PROVE Talk'
  BY Zenon
<1>1. PoolType /\ RestType /\ Fresh /\ Folded /\ Zero /\ Opens /\ Protocol /\ Parted /\ Announced
  BY Zenon DEF IInv, Talk
<1>2. Remembers
  BY Zenon, <1>1, NextType
<1>3. Fresh' /\ Folded' /\ Zero'
  BY Zenon, <1>1, <1>2, NextFresh, NextFolded, NextZero
<1>4. Opens' /\ Protocol' /\ Parted' /\ Announced'
  BY Zenon, <1>1, <1>2, NextOpens, NextProtocol, NextParted, NextAnnounced
<1> QED BY Zenon, <1>3, <1>4 DEF Talk

\* In every reachable state.
LEMMA TalkInvariant == Spec => [](IInv /\ Talk)
  BY InitIInv, NextIInv, InitTalk, NextTalk, PTL DEF Spec

\* _run_main and _advance: whatever attempts are stopped, restarted or killed and
\* however late their records are read, a task that nothing has hurried enters the
\* validation of its outputs after they are published, if the end of a subgraph
\* writes what the task of the subgraph promises.
THEOREM ValidatedIsPublished == ASSUME EndsExport PROVE Spec => []PublishedFirst
<1>1. Init => Pub
  <2> SUFFICES ASSUME Init PROVE Pub
    BY Zenon
  <2>1. (\A t \in Tasks : status[t] = "absent") /\ planned = <<>> /\ mon = Idle
    BY Zenon DEF Init, SchedulerInit
  <2>2. Items(planned) = {} /\ "absent" # "output_validating"
    BY <2>1 DEF Items
  <2> QED BY Zenon, <2>1, <2>2 DEF Pub, PublishedFirst
<1>2. IInv /\ Talk /\ Pub /\ [Next]_vars => Pub'
  BY Zenon, NextType, NextPub DEF IInv, Talk
<1>3. Pub => PublishedFirst
  BY Zenon DEF Pub
<1> QED BY <1>1, <1>2, <1>3, TalkInvariant, PTL DEF Spec

\* A leaf that succeeded with nothing wrong has valid outputs, and no attempt, late
\* thread or restart takes that from it, if no two leaves write the same slot.
THEOREM LeafSuccessUsable == ASSUME SlotsApart PROVE Spec => []SuccessIsUsable
<1>1. Init => Use
  <2> SUFFICES ASSUME Init PROVE Use
    BY Zenon
  <2>1. \A t \in Tasks : status[t] = "absent" /\ current[t] = 0
    BY Zenon DEF Init, SchedulerInit
  <2>2. "absent" # "succeeded"
    OBVIOUS
  <2> QED BY Zenon, <2>1, <2>2 DEF Use, UseOf, Steady
<1>2. IInv /\ Talk /\ Use /\ [Next]_vars => Use'
  BY Zenon, NextUse DEF IInv, Talk
<1>3. Use => SuccessIsUsable
  BY Zenon DEF Use, UseOf, SuccessIsUsable
<1> QED BY <1>1, <1>2, <1>3, TalkInvariant, PTL DEF Spec

\* A task in a phase that nothing has disturbed (why = "", which leaves out a wake
\* that _await_wake loses) has a thread, a record on its way, the monitor or a
\* subtask to move it on, while the monitors are open, if the CLI submits the tasks
\* of no subgraph and every subgraph has an end.
THEOREM NobodyIsForgotten ==
  ASSUME RootsAreRoots, SubgraphsEnd
  PROVE  Spec => []NobodyForgotten
<1>1. Init => Unfolded
  <2> SUFFICES ASSUME Init PROVE Unfolded
    BY Zenon
  <2>1. (\A t \in Tasks : status[t] = "absent") /\ mon = Idle /\ (\E w \in Worlds : todo = w.roots)
    BY Zenon DEF Init, SchedulerInit
  <2>2. "absent" \notin {"input_validating", "running"}
    OBVIOUS
  <2> QED BY Zenon, <2>1, <2>2 DEF Unfolded, Begun, RootsAreRoots
<1>2. IInv /\ Unfolded /\ [Next]_vars => Unfolded'
  BY Zenon, NextUnfolded DEF IInv
<1>3. IInv /\ Talk /\ Unfolded => NobodyForgotten
  BY Zenon, SomebodyHas
<1> QED BY <1>1, <1>2, <1>3, TalkInvariant, PTL DEF Spec
=============================================================================
