------------------------ MODULE ParsingThreadsProofs ------------------------
(***************************************************************************)
(* The inductive invariant of ParsingThreads and the theorems that follow  *)
(* from it, for every number of threads and of tasks.                      *)
(***************************************************************************)
EXTENDS ParsingThreads, FiniteSetTheorems, TLAPS

Active == {w \in Worker : wpc[w] \notin {"absent", "exited"}}

\* Threads are created in order, and the main loop starts with all of them.
SpawnInv ==
  /\ \A w \in Worker : wpc[w] = "absent" <=> w > spawned
  /\ mpc # "spawn" => spawned = NbThreads

\* A thread only leaves its loop because the work queue was empty.
LeaveInv ==
  \A w \in Worker : wpc[w] \in {"leaving", "exited"} => nextTask > NbTasks

\* What the result log says of the item a thread holds.
HeldInv ==
  \A w \in Worker :
    /\ produced[w] => wpc[w] \in {"finished", "returned"} /\ HasOutcome(task[w])
    /\ wpc[w] \in Holding =>
         \A i \in DOMAIN results : results[i].task = task[w] =>
           ~results[i].isError /\ produced[w]

\* Only tasks that left the work queue have results.
LogInv == \A i \in DOMAIN results : results[i].task < nextTask

\* The main loop was left because the counter was zero.
LoopInv ==
  /\ mpc \in {"join", "done"} => \A w \in Worker : wpc[w] = "exited"
  /\ mpc = "handle" => nbRead > 0

IInv ==
  /\ TypeOK
  /\ RunningCountsThreads
  /\ SpawnInv
  /\ LeaveInv
  /\ EachTaskTakenOnce
  /\ HeldInv
  /\ LogInv
  /\ NoTaskForgotten
  /\ AtMostOneIndexThenOneError
  /\ LoopInv
  /\ HandledAsRead

-----------------------------------------------------------------------------
USE ThreadsAssumption, TasksAssumption

\* What IndexingResultQueue::write leaves in the log.
LEMMA WriteAppends ==
  ASSUME TypeOK, NEW t \in Task, NEW e \in BOOLEAN, Write(t, e)
  PROVE  /\ results' \in Seq(Result)
         /\ Len(results') = Len(results) + 1
         /\ DOMAIN results = 1 .. Len(results)
         /\ DOMAIN results' = 1 .. Len(results) + 1
         /\ \A i \in 1 .. Len(results) : results'[i] = results[i]
         /\ results'[Len(results) + 1] = [task |-> t, isError |-> e]
  BY DEF TypeOK, Write, Result

\* Sets of threads are finite and have at most NbThreads members.
LEMMA ThreadSets ==
  ASSUME NEW S \in SUBSET Worker
  PROVE  /\ IsFiniteSet(S)
         /\ Cardinality(S) \in 0 .. NbThreads
         /\ S # {} => Cardinality(S) > 0
         /\ S # Worker => Cardinality(S) < NbThreads
<1>1. IsFiniteSet(Worker) /\ Cardinality(Worker) = NbThreads
  BY FS_Interval DEF Worker
<1>2. /\ IsFiniteSet(S)
      /\ Cardinality(S) <= Cardinality(Worker)
      /\ Cardinality(S) = Cardinality(Worker) => S = Worker
  BY <1>1, FS_Subset
<1>3. Cardinality(S) \in Nat
  BY <1>2, FS_CardinalityType
<1>4. S # {} => Cardinality(S) # 0
  BY <1>2, FS_EmptySet
<1> QED
  BY <1>1, <1>2, <1>3, <1>4

\* Before a thread exists and before a command is taken.
LEMMA InitIInv == Init => IInv
<1> SUFFICES ASSUME Init PROVE IInv
  OBVIOUS
<1>1. TypeOK
  BY DEF Init, TypeOK, Worker, Task, ThreadPc, Holding, Result
<1>2. RunningCountsThreads
  <2>1. {w \in Worker : wpc[w] \notin {"absent", "exited"}} = {}
    BY DEF Init
  <2> QED
    BY <2>1, FS_EmptySet DEF Init, RunningCountsThreads
<1>3. SpawnInv /\ LeaveInv /\ EachTaskTakenOnce
  BY DEF Init, SpawnInv, LeaveInv, EachTaskTakenOnce, Worker, Holding
<1>4. HeldInv /\ LogInv /\ NoTaskForgotten /\ AtMostOneIndexThenOneError /\ LoopInv
  BY DEF Init, HeldInv, LogInv, NoTaskForgotten, AtMostOneIndexThenOneError,
         LoopInv, Holding
<1>5. HandledAsRead
  BY DEF Init, HandledAsRead, Handled, Produced, Failed
<1> QED
  BY <1>1, <1>2, <1>3, <1>4, <1>5 DEF IInv

\* No step leaves the types.
LEMMA TypeStep == IInv /\ [Next]_vars => TypeOK'
<1> SUFFICES ASSUME IInv, [Next]_vars PROVE TypeOK'
  OBVIOUS
<1> USE DEF IInv, TypeOK, ThreadPc, Holding, Goto, queues, mainVars, threadVars
<1>1. ASSUME NEW w \in Worker, TakeTask(w) PROVE TypeOK'
  BY <1>1 DEF TakeTask
<1>2. ASSUME NEW w \in Worker, QueueEmpty(w) PROVE TypeOK'
  BY <1>2 DEF QueueEmpty
<1>3. ASSUME NEW w \in Worker, FileMissing(w) PROVE TypeOK'
  BY <1>3 DEF FileMissing
<1>4. ASSUME NEW w \in Worker, Initialize(w) PROVE TypeOK'
  BY <1>4 DEF Initialize
<1>5. ASSUME NEW w \in Worker, Finish(w) PROVE TypeOK'
  <2>1. task[w] \in Task
    BY <1>5 DEF Finish, EachTaskTakenOnce, Task
  <2>2. results' \in Seq(Result) /\ Len(results') = Len(results) + 1
    BY <1>5, <2>1, WriteAppends DEF Finish
  <2> QED
    BY <1>5, <2>2 DEF Finish
<1>6. ASSUME NEW w \in Worker, InvocationReturns(w) PROVE TypeOK'
  BY <1>6 DEF InvocationReturns
<1>7. ASSUME NEW w \in Worker, Conclude(w) PROVE TypeOK'
  <2>1. task[w] \in Task
    BY <1>7 DEF Conclude, EachTaskTakenOnce, Task
  <2>2. CASE ~success[w] \/ ~produced[w]
    <3>1. results' \in Seq(Result) /\ Len(results') = Len(results) + 1
      BY <1>7, <2>1, <2>2, WriteAppends DEF Conclude
    <3> QED
      BY <1>7, <3>1 DEF Conclude
  <2>3. CASE ~(~success[w] \/ ~produced[w])
    BY <1>7, <2>3 DEF Conclude
  <2> QED
    BY <2>2, <2>3
<1>8. ASSUME NEW w \in Worker, Leave(w) PROVE TypeOK'
  <2>1. w \in Active
    BY <1>8 DEF Leave, Active
  <2>2. Active \in SUBSET Worker /\ running = Cardinality(Active)
    BY DEF Active, RunningCountsThreads
  <2>3. running \in 0 .. NbThreads /\ running > 0
    BY <2>1, <2>2, ThreadSets
  <2> QED
    BY <1>8, <2>3 DEF Leave
<1>9. ASSUME AddOne PROVE TypeOK'
  <2>1. spawned + 1 \in Worker \ Active
    BY <1>9 DEF AddOne, Worker, Active
  <2>2. Active \in SUBSET Worker /\ running = Cardinality(Active)
    BY DEF Active, RunningCountsThreads
  <2>3. running \in 0 .. NbThreads /\ running < NbThreads
    BY <2>1, <2>2, ThreadSets
  <2> QED
    BY <1>9, <2>1, <2>3 DEF AddOne
<1>10. CASE AddedAll
  BY <1>10 DEF AddedAll
<1>11. CASE CheckRunning
  BY <1>11 DEF CheckRunning
<1>12. CASE TryRead
  BY <1>12 DEF TryRead
<1>13. CASE TryReadTimeout
  BY <1>13 DEF TryReadTimeout
<1>14. CASE Feed
  <2>1. results[nbRead] \in Result
    BY <1>14 DEF Feed, LoopInv
  <2> QED
    BY <1>14, <2>1 DEF Feed, Result
<1>15. CASE ReportError
  <2>1. results[nbRead] \in Result
    BY <1>15 DEF ReportError, LoopInv
  <2> QED
    BY <1>15, <2>1 DEF ReportError, Result
<1>16. CASE Join
  BY <1>16 DEF Join
<1>17. CASE Returned \/ UNCHANGED vars
  BY <1>17 DEF Returned, vars
<1> QED
  BY <1>1, <1>2, <1>3, <1>4, <1>5, <1>6, <1>7, <1>8, <1>9, <1>10, <1>11,
     <1>12, <1>13, <1>14, <1>15, <1>16, <1>17 DEF Next, MainNext, WorkerNext

-----------------------------------------------------------------------------

\* The steps of the main thread once the threads exist, and stuttering: they
\* leave the threads, the work queue and the result log alone.
MainLoopStep ==
  \/ AddedAll \/ CheckRunning \/ TryRead \/ TryReadTimeout
  \/ Feed \/ ReportError \/ Join \/ Returned \/ UNCHANGED vars

\* The steps of the main loop leave the threads and their queues alone.
LEMMA MainLoopFrame ==
  MainLoopStep => UNCHANGED <<nextTask, results, running, spawned, threadVars>>
BY DEF MainLoopStep, AddedAll, CheckRunning, TryRead, TryReadTimeout, Feed,
       ReportError, Join, Returned, vars, queues, mainVars, threadVars

\* Every other step creates a thread or is a thread's.
LEMMA StepCases ==
  [Next]_vars => MainLoopStep \/ AddOne \/ \E w \in Worker : WorkerNext(w)
BY DEF Next, MainNext, MainLoopStep

\* A write happens in finish() or at the end of the loop's body.
LEMMA WorkerLog ==
  ASSUME NEW w \in Worker, WorkerNext(w)
  PROVE  \/ (Finish(w) /\ Write(task[w], FALSE))
         \/ (Conclude(w) /\ Write(task[w], TRUE) /\ (~success[w] \/ ~produced[w]))
         \/ UNCHANGED results
BY DEF WorkerNext, TakeTask, QueueEmpty, FileMissing, Initialize, Finish,
       InvocationReturns, Conclude, Leave, queues

\* A parsing thread does not touch what the main thread owns.
LEMMA WorkerMain ==
  ASSUME NEW w \in Worker, WorkerNext(w)
  PROVE  UNCHANGED mainVars
BY DEF WorkerNext, TakeTask, QueueEmpty, FileMissing, Initialize, Finish,
       InvocationReturns, Conclude, Leave

\* A parsing thread moves only itself, and exits only by Leave.
LEMMA WorkerMoves ==
  ASSUME TypeOK, NEW w \in Worker, WorkerNext(w)
  PROVE  /\ wpc[w] \notin {"absent", "exited"}
         /\ wpc' = [wpc EXCEPT ![w] = wpc'[w]]
         /\ wpc'[w] # "absent"
         /\ wpc'[w] = "exited" => Leave(w)
         /\ wpc'[w] = "leaving" => QueueEmpty(w)
<1> USE DEF TypeOK
<1>1. CASE Leave(w)
  BY <1>1 DEF Leave, Goto
<1>2. CASE InvocationReturns(w)
  BY <1>2 DEF InvocationReturns
<1>3. CASE Conclude(w)
  BY <1>3 DEF Conclude, Goto
<1>4. CASE TakeTask(w) \/ QueueEmpty(w) \/ FileMissing(w) \/ Initialize(w) \/ Finish(w)
  BY <1>4 DEF TakeTask, QueueEmpty, FileMissing, Initialize, Finish, Goto
<1> QED
  BY <1>1, <1>2, <1>3, <1>4 DEF WorkerNext

\* Only TakeTask takes from the work queue.
LEMMA WorkerTakes ==
  ASSUME NEW w \in Worker, WorkerNext(w)
  PROVE  TakeTask(w) \/ UNCHANGED nextTask
BY DEF WorkerNext, QueueEmpty, FileMissing, Initialize, Finish, InvocationReturns,
       Conclude, Leave, queues

\* The counter follows the threads: one more in addOne, one less in the
\* last statement of a thread.
LEMMA CountStep == IInv /\ [Next]_vars => RunningCountsThreads'
<1> SUFFICES ASSUME IInv, [Next]_vars PROVE running' = Cardinality(Active')
  BY DEF RunningCountsThreads, Active
<1>1. /\ Active \in SUBSET Worker /\ running = Cardinality(Active)
      /\ IsFiniteSet(Active)
  BY ThreadSets DEF IInv, RunningCountsThreads, Active
<1>2. CASE MainLoopStep
  BY <1>1, <1>2, MainLoopFrame DEF threadVars, Active
<1>3. CASE AddOne
  <2>1. spawned + 1 \in Worker
    BY <1>3 DEF AddOne, IInv, TypeOK, Worker
  <2>2. Active' = Active \cup {spawned + 1} /\ spawned + 1 \notin Active
    BY <1>3, <2>1 DEF AddOne, Goto, Active, IInv, TypeOK
  <2> QED
    BY <1>1, <1>3, <2>2, FS_AddElement DEF AddOne, IInv, TypeOK
<1>4. ASSUME NEW w \in Worker, WorkerNext(w) PROVE running' = Cardinality(Active')
  <2>1. CASE Leave(w)
    <3>1. Active' = Active \ {w} /\ w \in Active
      BY <2>1 DEF Leave, Goto, Active, IInv, TypeOK
    <3> QED
      BY <1>1, <2>1, <3>1, FS_RemoveElement DEF Leave
  <2>2. CASE ~Leave(w)
    <3>1. UNCHANGED running
      BY <1>4, <2>2 DEF WorkerNext, TakeTask, QueueEmpty, FileMissing, Initialize,
            Finish, InvocationReturns, Conclude
    <3>2. /\ wpc[w] \notin {"absent", "exited"}
          /\ wpc' = [wpc EXCEPT ![w] = wpc'[w]]
          /\ wpc'[w] \notin {"absent", "exited"}
      BY <1>4, <2>2, WorkerMoves DEF IInv
    <3>3. Active' = Active
      BY <3>2 DEF Active, IInv, TypeOK
    <3> QED
      BY <1>1, <3>1, <3>3
  <2> QED
    BY <2>1, <2>2
<1> QED
  BY <1>2, <1>3, <1>4, StepCases

\* Threads are created in order.
LEMMA SpawnStep == IInv /\ [Next]_vars => SpawnInv'
<1> SUFFICES ASSUME IInv, [Next]_vars PROVE SpawnInv'
  OBVIOUS
<1> USE DEF IInv, TypeOK, SpawnInv
<1>1. CASE MainLoopStep
  <2>1. UNCHANGED <<wpc, spawned>>
    BY <1>1, MainLoopFrame DEF threadVars
  <2>2. mpc' # "spawn" => mpc # "spawn" \/ spawned = NbThreads
    BY <1>1 DEF MainLoopStep, AddedAll, CheckRunning, TryRead, TryReadTimeout, Feed,
          ReportError, Join, Returned, vars, mainVars
  <2> QED
    BY <2>1, <2>2
<1>2. CASE AddOne
  <2>1. spawned + 1 \in Worker /\ spawned' = spawned + 1 /\ mpc' = "spawn"
    BY <1>2 DEF AddOne, Worker
  <2>2. wpc' = [wpc EXCEPT ![spawned + 1] = "next"]
    BY <1>2 DEF AddOne, Goto
  <2> QED
    BY <2>1, <2>2 DEF Worker
<1>3. ASSUME NEW w \in Worker, WorkerNext(w) PROVE SpawnInv'
  <2>1. UNCHANGED <<mpc, spawned>>
    BY <1>3, WorkerMain DEF mainVars
  <2>2. /\ wpc[w] # "absent"
        /\ wpc' = [wpc EXCEPT ![w] = wpc'[w]]
        /\ wpc'[w] # "absent"
    BY <1>3, WorkerMoves
  <2> QED
    BY <2>1, <2>2 DEF Worker
<1> QED
  BY <1>1, <1>2, <1>3, StepCases

\* A thread leaves when the work queue is empty, which it stays.
LEMMA LeaveStep == IInv /\ [Next]_vars => LeaveInv'
<1> SUFFICES ASSUME IInv, [Next]_vars PROVE LeaveInv'
  OBVIOUS
<1> USE DEF IInv, TypeOK, LeaveInv
<1>1. CASE MainLoopStep
  BY <1>1, MainLoopFrame DEF threadVars
<1>2. CASE AddOne
  BY <1>2 DEF AddOne, Goto, queues
<1>3. ASSUME NEW w \in Worker, WorkerNext(w) PROVE LeaveInv'
  <2>1. nextTask' \in Nat /\ nextTask' >= nextTask
    BY <1>3, WorkerTakes DEF TakeTask
  <2>2. wpc'[w] \in {"leaving", "exited"} => nextTask > NbTasks
    BY <1>3, WorkerMoves DEF QueueEmpty, Leave, Goto
  <2>3. wpc' = [wpc EXCEPT ![w] = wpc'[w]]
    BY <1>3, WorkerMoves
  <2> QED
    BY <2>1, <2>2, <2>3
<1> QED
  BY <1>1, <1>2, <1>3, StepCases

\* next() hands out a number that no thread has.
LEMMA TakenStep == IInv /\ [Next]_vars => EachTaskTakenOnce'
<1> SUFFICES ASSUME IInv, [Next]_vars PROVE EachTaskTakenOnce'
  OBVIOUS
<1> USE DEF IInv, TypeOK, EachTaskTakenOnce
<1>1. CASE MainLoopStep
  BY <1>1, MainLoopFrame DEF threadVars
<1>2. CASE AddOne
  BY <1>2 DEF AddOne, Goto, Holding, queues
<1>3. ASSUME NEW w \in Worker, TakeTask(w) PROVE EachTaskTakenOnce'
  BY <1>3 DEF TakeTask, Goto, Holding
<1>4. ASSUME NEW w \in Worker, WorkerNext(w), ~TakeTask(w) PROVE EachTaskTakenOnce'
  <2>1. UNCHANGED nextTask
    BY <1>4, WorkerTakes
  <2>2. CASE Conclude(w)
    BY <2>1, <2>2 DEF Conclude, Goto, Holding
  <2>3. CASE ~Conclude(w)
    <3>1. UNCHANGED task
      BY <1>4, <2>3 DEF WorkerNext, QueueEmpty, FileMissing, Initialize, Finish,
            InvocationReturns, Leave
    <3>2. wpc'[w] \in Holding => wpc[w] \in Holding
      BY <1>4, <2>3 DEF WorkerNext, QueueEmpty, FileMissing, Initialize, Finish,
            InvocationReturns, Leave, Goto, Holding
    <3>3. wpc' = [wpc EXCEPT ![w] = wpc'[w]]
      BY <1>4, WorkerMoves
    <3> QED
      BY <2>1, <3>1, <3>2, <3>3
  <2> QED
    BY <2>2, <2>3
<1> QED
  BY <1>1, <1>2, <1>3, <1>4, StepCases

\* The log after a step: unchanged, or one result more, for the item held by
\* the thread that took the step.
LEMMA LogStep ==
  ASSUME IInv, NEW w \in Worker, WorkerNext(w)
  PROVE  \/ UNCHANGED results
         \/ /\ Finish(w) \/ (Conclude(w) /\ (~success[w] \/ ~produced[w]))
            /\ wpc[w] \in Holding
            /\ task[w] \in Task /\ task[w] < nextTask
            /\ DOMAIN results = 1 .. Len(results)
            /\ DOMAIN results' = 1 .. Len(results) + 1
            /\ \A i \in 1 .. Len(results) : results'[i] = results[i]
            /\ results'[Len(results) + 1].task = task[w]
            /\ Finish(w) => ~results'[Len(results) + 1].isError
            /\ Conclude(w) => results'[Len(results) + 1].isError
<1>1. CASE Finish(w) /\ Write(task[w], FALSE)
  <2>1. wpc[w] \in Holding /\ ~Conclude(w)
    BY <1>1 DEF Finish, Conclude, Goto, Holding
  <2>2. task[w] \in Task /\ task[w] < nextTask
    BY <2>1 DEF IInv, EachTaskTakenOnce, TypeOK, Task
  <2>3. /\ DOMAIN results = 1 .. Len(results)
        /\ DOMAIN results' = 1 .. Len(results) + 1
        /\ \A i \in 1 .. Len(results) : results'[i] = results[i]
        /\ results'[Len(results) + 1] = [task |-> task[w], isError |-> FALSE]
    BY <1>1, <2>2, WriteAppends DEF IInv
  <2>4. ~results'[Len(results) + 1].isError /\ results'[Len(results) + 1].task = task[w]
    BY <2>3
  <2> QED
    BY <1>1, <2>1, <2>2, <2>3, <2>4
<1>2. CASE Conclude(w) /\ Write(task[w], TRUE) /\ (~success[w] \/ ~produced[w])
  <2>1. wpc[w] \in Holding /\ ~Finish(w)
    BY <1>2 DEF Finish, Conclude, Goto, Holding
  <2>2. task[w] \in Task /\ task[w] < nextTask
    BY <2>1 DEF IInv, EachTaskTakenOnce, TypeOK, Task
  <2>3. /\ DOMAIN results = 1 .. Len(results)
        /\ DOMAIN results' = 1 .. Len(results) + 1
        /\ \A i \in 1 .. Len(results) : results'[i] = results[i]
        /\ results'[Len(results) + 1] = [task |-> task[w], isError |-> TRUE]
    BY <1>2, <2>2, WriteAppends DEF IInv
  <2> QED
    BY <1>2, <2>1, <2>2, <2>3
<1> QED
  BY <1>1, <1>2, WorkerLog

\* Outcomes are never withdrawn.
LEMMA OutcomeKept ==
  ASSUME IInv, NEW w \in Worker, WorkerNext(w), NEW t
  PROVE  /\ HasOutcome(t) => HasOutcome(t)'
         /\ results' # results /\ t = task[w] => HasOutcome(t)'
<1>1. CASE UNCHANGED results
  BY <1>1 DEF HasOutcome
<1>2. CASE results' # results
  <2>1. /\ DOMAIN results \subseteq DOMAIN results'
        /\ \A i \in DOMAIN results : results'[i] = results[i]
    BY <1>2, LogStep DEF IInv, TypeOK
  <2>2. \E i \in DOMAIN results' : results'[i].task = task[w]
    BY <1>2, LogStep DEF IInv, TypeOK
  <2> QED
    BY <2>1, <2>2 DEF HasOutcome
<1> QED
  BY <1>1, <1>2

\* A thread lets go of its command in Conclude only, with a result.
LEMMA ForgottenStep == IInv /\ [Next]_vars => NoTaskForgotten'
<1> SUFFICES ASSUME IInv, [Next]_vars PROVE NoTaskForgotten'
  OBVIOUS
<1> USE DEF IInv, TypeOK, NoTaskForgotten
<1>1. CASE MainLoopStep
  BY <1>1, MainLoopFrame DEF threadVars, HasOutcome
<1>2. CASE AddOne
  BY <1>2 DEF AddOne, Goto, Holding, queues, HasOutcome
<1>3. ASSUME NEW w \in Worker, WorkerNext(w) PROVE NoTaskForgotten'
  <2> SUFFICES ASSUME NEW t \in 1 .. nextTask' - 1
               PROVE  HasOutcome(t)' \/ \E v \in Worker : wpc'[v] \in Holding /\ task'[v] = t
    OBVIOUS
  <2>1. HasOutcome(t) => HasOutcome(t)'
    BY <1>3, OutcomeKept
  <2>2. CASE TakeTask(w)
    <3>1. CASE t = nextTask
      BY <2>2, <3>1 DEF TakeTask, Goto, Holding
    <3>2. CASE t # nextTask
      <4>1. t \in 1 .. nextTask - 1
        BY <2>2, <3>2 DEF TakeTask
      <4>2. \A v \in Worker : wpc[v] \in Holding =>
              wpc'[v] \in Holding /\ task'[v] = task[v]
        BY <2>2 DEF TakeTask, Goto, Holding
      <4> QED
        BY <2>1, <4>1, <4>2
    <3> QED
      BY <3>1, <3>2
  <2>3. CASE Conclude(w)
    <3>1. t = task[w] => HasOutcome(t)'
      <4>1. CASE ~success[w] \/ ~produced[w]
        <5>1. DOMAIN results' # DOMAIN results
          BY <2>3, <4>1, WriteAppends DEF Conclude, Write
        <5> QED
          BY <1>3, <5>1, OutcomeKept
      <4>2. CASE success[w] /\ produced[w]
        <5>1. HasOutcome(task[w])
          BY <4>2 DEF HeldInv
        <5> QED
          BY <2>1, <5>1
      <4> QED
        BY <4>1, <4>2
    <3>2. \A v \in Worker \ {w} : wpc'[v] = wpc[v] /\ task'[v] = task[v]
      BY <2>3 DEF Conclude, Goto
    <3>3. UNCHANGED nextTask
      BY <2>3 DEF Conclude
    <3> QED
      BY <2>1, <3>1, <3>2, <3>3
  <2>4. CASE ~TakeTask(w) /\ ~Conclude(w)
    <3>1. UNCHANGED <<task, nextTask>>
      BY <1>3, <2>4 DEF WorkerNext, QueueEmpty, FileMissing, Initialize, Finish,
            InvocationReturns, Leave, queues
    <3>2. wpc[w] \in Holding => wpc'[w] \in Holding
      BY <1>3, <2>4 DEF WorkerNext, QueueEmpty, FileMissing, Initialize, Finish,
            InvocationReturns, Leave, Goto, Holding
    <3>3. wpc' = [wpc EXCEPT ![w] = wpc'[w]]
      BY <1>3, WorkerMoves
    <3>4. \A v \in Worker : wpc[v] \in Holding => wpc'[v] \in Holding
      BY <3>2, <3>3
    <3> QED
      BY <2>1, <3>1, <3>4
  <2> QED
    BY <2>2, <2>3, <2>4
<1> QED
  BY <1>1, <1>2, <1>3, StepCases

\* Results are about commands that were taken.
LEMMA LogInvStep == IInv /\ [Next]_vars => LogInv'
<1> SUFFICES ASSUME IInv, [Next]_vars PROVE LogInv'
  OBVIOUS
<1> USE DEF IInv, TypeOK, LogInv
<1>1. CASE MainLoopStep
  BY <1>1, MainLoopFrame
<1>2. CASE AddOne
  BY <1>2 DEF AddOne, queues
<1>3. ASSUME NEW w \in Worker, WorkerNext(w) PROVE LogInv'
  <2>1. nextTask' \in Nat /\ nextTask' >= nextTask
    BY <1>3, WorkerTakes DEF TakeTask
  <2>2. \A i \in DOMAIN results : results[i].task \in Nat
    <3>1. \A i \in DOMAIN results : results[i] \in Result
      OBVIOUS
    <3> QED
      BY <3>1 DEF Result, Task
  <2>3. CASE UNCHANGED results
    BY <2>1, <2>2, <2>3
  <2>4. CASE results' # results
    <3>1. task[w] \in Nat /\ task[w] < nextTask
      BY <1>3, <2>4, LogStep DEF Task
    <3>2. \A i \in DOMAIN results' : i \in DOMAIN results \/ i = Len(results) + 1
      BY <1>3, <2>4, LogStep
    <3>3. \A i \in DOMAIN results : results'[i] = results[i]
      BY <1>3, <2>4, LogStep
    <3>4. results'[Len(results) + 1].task = task[w]
      BY <1>3, <2>4, LogStep
    <3> QED
      BY <2>1, <2>2, <3>1, <3>2, <3>3, <3>4
  <2> QED
    BY <2>3, <2>4
<1> QED
  BY <1>1, <1>2, <1>3, StepCases

\* What a thread knows of its command is what the log says of it.
LEMMA HeldStep == IInv /\ [Next]_vars => HeldInv'
<1> SUFFICES ASSUME IInv, [Next]_vars PROVE HeldInv'
  OBVIOUS
<1> USE DEF IInv, TypeOK
<1>1. CASE MainLoopStep
  BY <1>1, MainLoopFrame DEF threadVars, HeldInv, HasOutcome
<1>2. CASE AddOne
  <2>1. UNCHANGED <<results, task, produced>>
    BY <1>2 DEF AddOne, queues
  <2>2. \A v \in Worker :
          \/ wpc'[v] = wpc[v]
          \/ wpc[v] = "absent" /\ wpc'[v] = "next"
    BY <1>2 DEF AddOne, Goto
  <2> QED
    BY <2>1, <2>2 DEF HeldInv, HasOutcome, Holding
<1>3. ASSUME NEW w \in Worker, WorkerNext(w), NEW v \in Worker, v # w
      PROVE  /\ produced'[v] => wpc'[v] \in {"finished", "returned"} /\ HasOutcome(task[v])'
             /\ wpc'[v] \in Holding =>
                  \A i \in DOMAIN results' : results'[i].task = task'[v] =>
                    ~results'[i].isError /\ produced'[v]
  <2>1. wpc'[v] = wpc[v] /\ produced'[v] = produced[v] /\ task'[v] = task[v]
    BY <1>3 DEF WorkerNext, TakeTask, QueueEmpty, FileMissing, Initialize, Finish,
          InvocationReturns, Conclude, Leave, Goto
  <2>2. HasOutcome(task[v]) => HasOutcome(task[v])'
    BY <1>3, <2>1, OutcomeKept DEF HasOutcome
  <2>3. CASE UNCHANGED results
    BY <2>1, <2>2, <2>3 DEF HeldInv
  <2>4. CASE results' # results
    <3>1. wpc[v] \in Holding => task[v] # task[w]
      BY <1>3, <2>4, LogStep DEF EachTaskTakenOnce
    <3>2. \A i \in DOMAIN results' :
            \/ i \in DOMAIN results /\ results'[i] = results[i]
            \/ results'[i].task = task[w]
      BY <1>3, <2>4, LogStep
    <3> QED
      BY <2>1, <2>2, <3>1, <3>2 DEF HeldInv
  <2> QED
    BY <2>3, <2>4
<1>4. ASSUME NEW w \in Worker, WorkerNext(w)
      PROVE  /\ produced'[w] => wpc'[w] \in {"finished", "returned"} /\ HasOutcome(task[w])'
             /\ wpc'[w] \in Holding =>
                  \A i \in DOMAIN results' : results'[i].task = task'[w] =>
                    ~results'[i].isError /\ produced'[w]
  <2>0. /\ produced[w] => wpc[w] \in {"finished", "returned"} /\ HasOutcome(task[w])
        /\ wpc[w] \in Holding =>
             \A i \in DOMAIN results : results[i].task = task[w] =>
               ~results[i].isError /\ produced[w]
    BY DEF HeldInv
  <2>1. CASE TakeTask(w)
    <3>1. \A i \in DOMAIN results : results[i].task # nextTask
      <4>1. \A i \in DOMAIN results : results[i] \in Result /\ results[i].task < nextTask
        BY DEF LogInv
      <4> QED
        BY <4>1 DEF Result, Task
    <3>2. ~produced[w]
      BY <2>0, <2>1 DEF TakeTask, Goto
    <3>3. task'[w] = nextTask /\ results' = results /\ produced' = produced
      BY <2>1 DEF TakeTask
    <3> QED
      BY <3>1, <3>2, <3>3
  <2>2. CASE QueueEmpty(w) \/ Leave(w)
    BY <2>0, <2>2 DEF QueueEmpty, Leave, Goto, Holding, queues
  <2>3. CASE FileMissing(w)
    <3>1. wpc[w] = "parsing" /\ wpc'[w] = "returned" /\ UNCHANGED <<results, task, produced>>
      BY <2>3 DEF FileMissing, Goto, queues
    <3> QED
      BY <2>0, <3>1 DEF Holding, HasOutcome
  <2>4. CASE Initialize(w)
    <3>1. wpc[w] = "parsing" /\ ~produced'[w] /\ UNCHANGED <<results, task>>
      BY <2>4 DEF Initialize, Goto, queues
    <3> QED
      BY <2>0, <3>1 DEF Holding
  <2>5. CASE Finish(w)
    <3>1. /\ wpc[w] = "indexing" /\ wpc'[w] = "finished"
          /\ produced'[w] /\ UNCHANGED task
      BY <2>5 DEF Finish, Goto
    <3>2. results' # results
      <4>1. task[w] \in Task
        BY <3>1 DEF EachTaskTakenOnce, Holding, Task
      <4>2. Len(results') = Len(results) + 1
        BY <2>5, <4>1, WriteAppends DEF Finish
      <4> QED
        BY <4>2
    <3>3. HasOutcome(task[w])'
      <4>1. \A t : t = task[w] => HasOutcome(t)'
        BY <1>4, <3>2, OutcomeKept
      <4> QED
        BY <3>1, <4>1
    <3>4. \A i \in DOMAIN results : results[i].task # task[w]
      BY <2>0, <3>1 DEF Holding
    <3>5. \A i \in DOMAIN results' :
            \/ i \in DOMAIN results /\ results'[i] = results[i]
            \/ ~results'[i].isError
      <4>1. /\ DOMAIN results' = 1 .. Len(results) + 1
            /\ DOMAIN results = 1 .. Len(results)
            /\ \A i \in 1 .. Len(results) : results'[i] = results[i]
        BY <1>4, <3>2, LogStep
      <4>2. ~results'[Len(results) + 1].isError
        BY <1>4, <2>5, <3>2, LogStep
      <4> QED
        BY <4>1, <4>2
    <3> QED
      BY <3>1, <3>3, <3>4, <3>5
  <2>6. CASE InvocationReturns(w)
    <3>1. /\ wpc[w] \in {"parsing", "indexing", "finished"} /\ wpc'[w] = "returned"
          /\ UNCHANGED <<results, task, produced>>
      BY <2>6 DEF InvocationReturns, queues
    <3> QED
      BY <2>0, <3>1 DEF Holding, HasOutcome
  <2>7. CASE Conclude(w)
    BY <2>7 DEF Conclude, Goto, Holding
  <2> QED
    BY <1>4, <2>1, <2>2, <2>3, <2>4, <2>5, <2>6, <2>7 DEF WorkerNext
<1>5. ASSUME NEW w \in Worker, WorkerNext(w) PROVE HeldInv'
  BY <1>3, <1>4, <1>5 DEF HeldInv
<1> QED
  BY <1>1, <1>2, <1>5, StepCases

\* The second result about a command is an error, and there is no third.
LEMMA OrderStep == IInv /\ [Next]_vars => AtMostOneIndexThenOneError'
<1> SUFFICES ASSUME IInv, [Next]_vars PROVE AtMostOneIndexThenOneError'
  OBVIOUS
<1> USE DEF IInv, TypeOK, AtMostOneIndexThenOneError
<1>1. CASE MainLoopStep \/ AddOne
  BY <1>1, MainLoopFrame DEF AddOne, queues
<1>2. ASSUME NEW w \in Worker, WorkerNext(w) PROVE AtMostOneIndexThenOneError'
  <2>1. CASE UNCHANGED results
    BY <2>1
  <2>2. CASE results' # results
    <3>1. /\ wpc[w] \in Holding
          /\ DOMAIN results = 1 .. Len(results)
          /\ DOMAIN results' = 1 .. Len(results) + 1
          /\ \A i \in 1 .. Len(results) : results'[i] = results[i]
          /\ results'[Len(results) + 1].task = task[w]
      BY <1>2, <2>2, LogStep
    <3>2. \A i \in DOMAIN results : results[i].task = task[w] =>
            ~results[i].isError /\ produced[w]
      BY <3>1 DEF HeldInv
    <3>3. \A i \in DOMAIN results :
            results[i].task = task[w] => results'[Len(results) + 1].isError
      <4>1. CASE Conclude(w)
        BY <1>2, <2>2, <4>1, LogStep
      <4>2. CASE Finish(w)
        <5>1. ~produced[w]
          BY <4>2 DEF Finish, Goto, HeldInv
        <5> QED
          BY <3>2, <5>1
      <4> QED
        BY <1>2, <2>2, <4>1, <4>2, LogStep
    <3>4. ASSUME NEW i \in DOMAIN results', NEW j \in DOMAIN results',
                 i < j, results'[i].task = results'[j].task
          PROVE  ~results'[i].isError /\ results'[j].isError
      <4>1. i \in DOMAIN results /\ results'[i] = results[i]
        BY <3>1, <3>4
      <4>2. CASE j = Len(results) + 1
        BY <3>1, <3>2, <3>3, <3>4, <4>1, <4>2
      <4>3. CASE j # Len(results) + 1
        <5>1. j \in DOMAIN results /\ results'[j] = results[j]
          BY <3>1, <4>3
        <5> QED
          BY <3>4, <4>1, <5>1
      <4> QED
        BY <4>2, <4>3
    <3> QED
      BY <3>4
  <2> QED
    BY <2>1, <2>2
<1> QED
  BY <1>1, <1>2, StepCases

\* The loop is left when the counter, hence the set of threads, is empty.
LEMMA LoopStep == IInv /\ [Next]_vars => LoopInv'
<1> SUFFICES ASSUME IInv, [Next]_vars PROVE LoopInv'
  OBVIOUS
<1> USE DEF IInv, TypeOK, LoopInv
<1>1. CASE CheckRunning
  <2>1. UNCHANGED wpc /\ mpc' # "handle"
    BY <1>1 DEF CheckRunning, threadVars
  <2>2. CASE running = 0
    <3>1. Active = {}
      <4>1. Active \in SUBSET Worker /\ Cardinality(Active) = 0
        BY <2>2 DEF Active, RunningCountsThreads
      <4> QED
        BY <4>1, ThreadSets
    <3>2. spawned = NbThreads
      BY <1>1 DEF CheckRunning, SpawnInv
    <3>3. \A w \in Worker : wpc[w] = "exited"
      BY <3>1, <3>2 DEF Active, SpawnInv, Worker
    <3> QED
      BY <2>1, <3>3
  <2>3. CASE running # 0
    BY <1>1, <2>1, <2>3 DEF CheckRunning
  <2> QED
    BY <2>2, <2>3
<1>2. CASE MainLoopStep /\ ~CheckRunning
  <2>1. UNCHANGED wpc
    BY <1>2, MainLoopFrame DEF threadVars
  <2>2. mpc' \in {"join", "done"} => mpc \in {"join", "done"}
    BY <1>2 DEF MainLoopStep, AddedAll, TryRead, TryReadTimeout, Feed, ReportError,
          Join, Returned, vars, mainVars
  <2>3. mpc' = "handle" => nbRead' > 0
    BY <1>2 DEF MainLoopStep, AddedAll, TryRead, TryReadTimeout, Feed, ReportError,
          Join, Returned, vars, queues, mainVars
  <2> QED
    BY <2>1, <2>2, <2>3
<1>3. CASE AddOne
  BY <1>3 DEF AddOne
<1>4. ASSUME NEW w \in Worker, WorkerNext(w) PROVE LoopInv'
  <2>1. wpc[w] # "exited"
    BY <1>4, WorkerMoves
  <2>2. UNCHANGED <<mpc, nbRead>>
    BY <1>4, WorkerMain DEF mainVars, WorkerNext, TakeTask, QueueEmpty, FileMissing,
          Initialize, Finish, InvocationReturns, Conclude, Leave, queues
  <2> QED
    BY <2>1, <2>2
<1> QED
  BY <1>1, <1>2, <1>3, <1>4, StepCases

\* Every pop is followed by the feed or the report of what was popped.
LEMMA HandledStep == IInv /\ [Next]_vars => HandledAsRead'
<1> SUFFICES ASSUME IInv, [Next]_vars PROVE HandledAsRead'
  OBVIOUS
<1> USE DEF IInv, TypeOK
<1>0. Handled \subseteq 1 .. nbRead /\ 1 .. nbRead \subseteq DOMAIN results
  BY DEF Handled
<1>1. ASSUME Handled' = Handled, UNCHANGED <<snapshot, reported>>,
             \A i \in Handled : results'[i] = results[i]
      PROVE  HandledAsRead'
  <2>1. \A i \in Handled, t \in Task :
          /\ Produced(t, i)' <=> Produced(t, i)
          /\ Failed(t, i)' <=> Failed(t, i)
    BY <1>1 DEF Produced, Failed
  <2> QED
    BY <1>1, <2>1 DEF HandledAsRead
<1>2. CASE AddedAll \/ CheckRunning \/ TryRead \/ TryReadTimeout \/ Join \/ Returned
           \/ UNCHANGED vars
  <2>1. UNCHANGED <<snapshot, reported, results>>
    BY <1>2 DEF AddedAll, CheckRunning, TryRead, TryReadTimeout, Join, Returned, vars,
          queues, mainVars
  <2>2. Handled' = Handled
    BY <1>2 DEF Handled, AddedAll, CheckRunning, TryRead, TryReadTimeout, Join, Returned,
          vars, queues, mainVars
  <2> QED
    BY <1>1, <2>1, <2>2
<1>3. ASSUME Feed \/ ReportError PROVE HandledAsRead'
  <2>1. /\ Handled = 1 .. nbRead - 1 /\ Handled' = 1 .. nbRead
        /\ nbRead > 0 /\ nbRead \in DOMAIN results
        /\ UNCHANGED results
    BY <1>3 DEF Feed, ReportError, Handled, LoopInv, queues
  <2>2. Handled' = Handled \cup {nbRead}
    BY <2>1
  <2>3. \A i, t : /\ Produced(t, i)' <=> Produced(t, i)
                  /\ Failed(t, i)' <=> Failed(t, i)
    BY <2>1 DEF Produced, Failed
  <2>4. results[nbRead].task \in Task
    <3>1. results[nbRead] \in Result
      BY <2>1
    <3> QED
      BY <3>1 DEF Result
  <2>5. CASE Feed
    <3>1. /\ snapshot' = snapshot \cup {results[nbRead].task} /\ reported' = reported
          /\ ~results[nbRead].isError
      BY <2>5 DEF Feed
    <3>2. \A t \in Task : /\ Produced(t, nbRead) <=> t = results[nbRead].task
                          /\ ~Failed(t, nbRead)
      BY <3>1 DEF Produced, Failed
    <3> QED
      BY <2>2, <2>3, <2>4, <3>1, <3>2 DEF HandledAsRead
  <2>6. CASE ReportError
    <3>1. /\ reported' = reported \cup {results[nbRead].task} /\ snapshot' = snapshot
          /\ results[nbRead].isError
      BY <2>6 DEF ReportError
    <3>2. \A t \in Task : /\ Failed(t, nbRead) <=> t = results[nbRead].task
                          /\ ~Produced(t, nbRead)
      BY <3>1 DEF Produced, Failed
    <3> QED
      BY <2>2, <2>3, <2>4, <3>1, <3>2 DEF HandledAsRead
  <2> QED
    BY <1>3, <2>5, <2>6
<1>4. CASE AddOne
  <2>1. UNCHANGED <<snapshot, reported, results, nbRead, mpc>>
    BY <1>4 DEF AddOne, queues
  <2> QED
    BY <1>1, <2>1 DEF Handled
<1>5. ASSUME NEW w \in Worker, WorkerNext(w) PROVE HandledAsRead'
  <2>1. UNCHANGED <<snapshot, reported, nbRead, mpc>>
    BY <1>5, WorkerMain DEF mainVars, WorkerNext, TakeTask, QueueEmpty, FileMissing,
          Initialize, Finish, InvocationReturns, Conclude, Leave, queues
  <2>2. \A i \in DOMAIN results : results'[i] = results[i]
    BY <1>5, LogStep
  <2> QED
    BY <1>0, <1>1, <2>1, <2>2 DEF Handled
<1> QED
  BY <1>2, <1>3, <1>4, <1>5, StepCases DEF MainLoopStep

\* All together: the invariant is inductive.
LEMMA StepIInv == IInv /\ [Next]_vars => IInv'
BY TypeStep, CountStep, SpawnStep, LeaveStep, TakenStep, HeldStep, LogInvStep,
   ForgottenStep, OrderStep, LoopStep, HandledStep DEF IInv

\* The invariant holds in every state of every behaviour.
LEMMA Invariance == Spec => []IInv
BY InitIInv, StepIInv, PTL DEF Spec

-----------------------------------------------------------------------------
(* The theorems. *)

\* Every variable of the multi-threaded scan keeps its type: the queues'
\* cursors stay in range and the counter stays between 0 and nbThreads.
THEOREM TypeCorrect == Spec => []TypeOK
<1>1. IInv => TypeOK
  BY DEF IInv
<1> QED
  BY <1>1, Invariance, PTL

\* m_running is always the number of threads that may still write a result,
\* whatever the order in which they start and end.
THEOREM CounterIsExact == Spec => []RunningCountsThreads
<1>1. IInv => RunningCountsThreads
  BY DEF IInv
<1> QED
  BY <1>1, Invariance, PTL

\* A command is parsed by one thread only and never forgotten by it.
THEOREM TasksConserved == Spec => [](EachTaskTakenOnce /\ NoTaskForgotten)
<1>1. IInv => EachTaskTakenOnce /\ NoTaskForgotten
  BY DEF IInv
<1> QED
  BY <1>1, Invariance, PTL

\* A command has at most one index and at most one error, in that order.
THEOREM OneIndexThenOneError == Spec => []AtMostOneIndexThenOneError
<1>1. IInv => AtMostOneIndexThenOneError
  BY DEF IInv
<1> QED
  BY <1>1, Invariance, PTL

\* Reading zero from the counter means that nothing is left to be written.
LEMMA QuiescenceFromIInv == IInv => NothingMoreAfterLoop
<1> SUFFICES ASSUME IInv, mpc \in {"join", "done"}
             PROVE  /\ \A w \in Worker : wpc[w] = "exited"
                    /\ \A t \in Task : HasOutcome(t)
  BY DEF NothingMoreAfterLoop
<1>1. \A w \in Worker : wpc[w] = "exited"
  BY DEF IInv, LoopInv
<1>2. nextTask > NbTasks
  <2>1. 1 \in Worker
    BY DEF Worker
  <2> QED
    BY <1>1, <2>1 DEF IInv, LeaveInv
<1>3. \A t \in Task : t \in 1 .. nextTask - 1
  BY <1>2 DEF Task, IInv, TypeOK
<1> QED
  BY <1>1, <1>3 DEF IInv, NoTaskForgotten, Holding

\* When the main thread leaves its loop, every thread has exited and every
\* command has an outcome in the result queue.
THEOREM Quiescence == Spec => []NothingMoreAfterLoop
BY QuiescenceFromIInv, Invariance, PTL

\* The snapshot and the printed errors are the results popped so far.
THEOREM HandledExactly == Spec => []HandledAsRead
<1>1. IInv => HandledAsRead
  BY DEF IInv
<1> QED
  BY <1>1, Invariance, PTL

-----------------------------------------------------------------------------
(* The refinement of Aggregation. *)

Indexed == {t \in Task : \E i \in DOMAIN results : Produced(t, i)}
FailedTasks == {t \in Task : \E i \in DOMAIN results : Failed(t, i)}
Closed == mpc \in {"join", "done"}

\* What changes neither the log nor the snapshot is a stutter of Aggregation.
LEMMA AbstractStutter ==
  ASSUME UNCHANGED <<results, snapshot>>, Closed' = Closed
  PROVE  [Agg!Next]_(Agg!vars)
BY DEF Agg!vars, Closed, Produced, Failed

\* A write by a thread adds its task to one of the two sets, which it was
\* not in.
LEMMA AbstractWrite ==
  ASSUME IInv, NEW w \in Worker, WorkerNext(w), results' # results
  PROVE  [Agg!Next]_(Agg!vars)
<1>1. /\ wpc[w] \in Holding
      /\ task[w] \in Task
      /\ DOMAIN results = 1 .. Len(results)
      /\ DOMAIN results' = 1 .. Len(results) + 1
      /\ \A i \in 1 .. Len(results) : results'[i] = results[i]
      /\ results'[Len(results) + 1].task = task[w]
      /\ Finish(w) => ~results'[Len(results) + 1].isError
      /\ Conclude(w) => results'[Len(results) + 1].isError
  BY LogStep
<1>2. UNCHANGED <<snapshot, mpc>>
  BY WorkerMain DEF mainVars
<1>3. ~Closed
  BY WorkerMoves DEF IInv, LoopInv, Closed
<1>4. Closed' = Closed
  BY <1>2 DEF Closed
<1>5. Len(results) \in Nat
  BY DEF IInv, TypeOK
<1> PICK n \in Nat : n = Len(results) + 1
  BY <1>5
<1>6. /\ DOMAIN results' = DOMAIN results \cup {n}
      /\ results'[n].task = task[w]
      /\ Finish(w) => ~results'[n].isError
      /\ Conclude(w) => results'[n].isError
  BY <1>1, <1>5
<1>7. \A i \in DOMAIN results, t \in Task :
        /\ Produced(t, i)' <=> Produced(t, i)
        /\ Failed(t, i)' <=> Failed(t, i)
  BY <1>1 DEF Produced, Failed
<1>8. \A i \in DOMAIN results : ~Failed(task[w], i)
  BY <1>1 DEF IInv, HeldInv, Failed
<1>9. CASE Finish(w)
  <2>1. \A t \in Task : /\ Produced(t, n)' <=> t = task[w]
                        /\ ~Failed(t, n)'
    BY <1>6, <1>9 DEF Produced, Failed
  <2>2. Indexed' = Indexed \cup {task[w]}
    BY <1>1, <1>6, <1>7, <2>1 DEF Indexed
  <2>3. FailedTasks' = FailedTasks
    BY <1>6, <1>7, <2>1 DEF FailedTasks
  <2>4. task[w] \notin Indexed \cup FailedTasks
    <3>1. ~produced[w]
      BY <1>9 DEF Finish, Goto, IInv, HeldInv
    <3>2. \A i \in DOMAIN results : ~Produced(task[w], i)
      BY <1>1, <3>1 DEF IInv, HeldInv, Produced
    <3> QED
      BY <1>8, <3>2 DEF Indexed, FailedTasks
  <2>5. Agg!Index(task[w])
    BY <1>2, <1>3, <1>4, <2>2, <2>3, <2>4 DEF Agg!Index, Indexed, FailedTasks, Closed
  <2> QED
    BY <1>1, <2>5 DEF Agg!Next
<1>10. CASE Conclude(w)
  <2>1. \A t \in Task : /\ Failed(t, n)' <=> t = task[w]
                        /\ ~Produced(t, n)'
    BY <1>6, <1>10 DEF Produced, Failed
  <2>2. FailedTasks' = FailedTasks \cup {task[w]}
    BY <1>1, <1>6, <1>7, <2>1 DEF FailedTasks
  <2>3. Indexed' = Indexed
    BY <1>6, <1>7, <2>1 DEF Indexed
  <2>4. task[w] \notin FailedTasks
    BY <1>8 DEF FailedTasks
  <2>5. Agg!Fail(task[w])
    BY <1>2, <1>3, <1>4, <2>2, <2>3, <2>4 DEF Agg!Fail, Indexed, FailedTasks, Closed
  <2> QED
    BY <1>1, <2>5 DEF Agg!Next
<1> QED
  BY <1>9, <1>10, LogStep

\* Feeding the result just popped aggregates a task for the first time.
LEMMA AbstractFeed ==
  ASSUME IInv, Feed
  PROVE  [Agg!Next]_(Agg!vars)
<1> DEFINE r == results[nbRead].task
<1>1. /\ nbRead \in DOMAIN results /\ ~results[nbRead].isError
      /\ Handled = 1 .. nbRead - 1
      /\ snapshot' = snapshot \cup {r}
      /\ UNCHANGED results /\ mpc = "handle" /\ mpc' = "check"
  BY DEF Feed, IInv, TypeOK, LoopInv, Handled, queues
<1>2. r \in Task
  <2>1. results[nbRead] \in Result
    BY <1>1 DEF IInv, TypeOK
  <2> QED
    BY <2>1 DEF Result
<1>3. Produced(r, nbRead)
  BY <1>1 DEF Produced
<1>4. r \notin snapshot
  <2> SUFFICES ASSUME NEW i \in Handled, Produced(r, i) PROVE FALSE
    BY DEF IInv, HandledAsRead
  <2>1. i \in DOMAIN results /\ i < nbRead
    BY <1>1 DEF IInv, TypeOK
  <2> QED
    BY <1>1, <2>1 DEF IInv, AtMostOneIndexThenOneError, Produced
<1>5. Indexed' = Indexed /\ FailedTasks' = FailedTasks /\ r \in Indexed
  BY <1>1, <1>2, <1>3 DEF Indexed, FailedTasks, Produced, Failed
<1>6. ~Closed /\ Closed' = Closed
  BY <1>1 DEF Closed
<1>7. Agg!Aggregate(r)
  BY <1>1, <1>4, <1>5, <1>6 DEF Agg!Aggregate, Indexed, FailedTasks, Closed
<1> QED
  BY <1>2, <1>7 DEF Agg!Next

\* Reading zero closes the scan: every task has its outcome.
LEMMA AbstractClose ==
  ASSUME IInv, IInv', CheckRunning, running = 0
  PROVE  [Agg!Next]_(Agg!vars)
<1>1. mpc = "check" /\ mpc' = "join" /\ UNCHANGED <<results, snapshot>>
  BY DEF CheckRunning, queues
<1>2. ~Closed /\ Closed'
  BY <1>1 DEF Closed
<1>3. \A t \in Task : HasOutcome(t)
  <2>1. NothingMoreAfterLoop'
    BY QuiescenceFromIInv, PTL
  <2> QED
    BY <1>1, <2>1 DEF NothingMoreAfterLoop, HasOutcome
<1>4. Indexed \cup FailedTasks = Task
  <2>1. \A t \in Task, i \in DOMAIN results :
          results[i].task = t => Produced(t, i) \/ Failed(t, i)
    BY DEF Produced, Failed
  <2> QED
    BY <1>3, <2>1 DEF Indexed, FailedTasks, HasOutcome
<1>5. Indexed' = Indexed /\ FailedTasks' = FailedTasks
  BY <1>1 DEF Indexed, FailedTasks, Produced, Failed
<1>6. Agg!Close
  BY <1>1, <1>2, <1>4, <1>5 DEF Agg!Close, Indexed, FailedTasks, Closed
<1> QED
  BY <1>6 DEF Agg!Next

\* Every step is a step of Aggregation or a stutter.
LEMMA AbstractStep == IInv /\ IInv' /\ [Next]_vars => [Agg!Next]_(Agg!vars)
<1> SUFFICES ASSUME IInv, IInv', [Next]_vars PROVE [Agg!Next]_(Agg!vars)
  OBVIOUS
<1>1. ASSUME NEW w \in Worker, WorkerNext(w) PROVE [Agg!Next]_(Agg!vars)
  <2>1. UNCHANGED <<mpc, snapshot>>
    BY <1>1, WorkerMain DEF mainVars
  <2>2. CASE UNCHANGED results
    BY <2>1, <2>2, AbstractStutter DEF Closed
  <2> QED
    BY <1>1, <2>2, AbstractWrite
<1>2. CASE Feed
  BY <1>2, AbstractFeed
<1>3. CASE CheckRunning /\ running = 0
  BY <1>3, AbstractClose
<1>4. CASE AddOne \/ (MainLoopStep /\ ~Feed /\ ~(CheckRunning /\ running = 0))
  <2>1. UNCHANGED <<results, snapshot>>
    BY <1>4 DEF AddOne, MainLoopStep, AddedAll, CheckRunning, TryRead, TryReadTimeout,
          ReportError, Join, Returned, vars, queues, mainVars
  <2>2. Closed' = Closed
    <3>1. running \in Nat
      BY DEF IInv, TypeOK
    <3> QED
      BY <1>4, <3>1 DEF Closed, AddOne, MainLoopStep, AddedAll, CheckRunning, TryRead,
            TryReadTimeout, ReportError, Join, Returned, vars, mainVars
  <2> QED
    BY <2>1, <2>2, AbstractStutter
<1> QED
  BY <1>1, <1>2, <1>3, <1>4, StepCases

\* The multi-threaded scan implements Aggregation: whatever the threads do, a
\* command gets at most one index before it fails, only indexes are
\* aggregated, each of them once, and the scan does not close early.
THEOREM Refinement == Spec => ImplementsAggregation
<1>1. Init => Agg!Init
  BY DEF Init, Agg!Init
<1>2. Spec => []IInv
  BY Invariance
<1> QED
  BY <1>1, <1>2, AbstractStep, PTL DEF Spec, ImplementsAggregation, Agg!Spec
=============================================================================
