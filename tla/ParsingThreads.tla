--------------------------- MODULE ParsingThreads ---------------------------
(***************************************************************************)
(* The multi-threaded scan, Scanner::scanMultiThreaded (scanner.cpp) with  *)
(* its worker threads, the WorkQueue they take compile commands from and   *)
(* the IndexingResultQueue they write to.                                  *)
(*                                                                         *)
(* One process per parsing thread and one for the thread that created      *)
(* them, which reads the results and feeds them to the snapshot.           *)
(*                                                                         *)
(* Abstractions.  A task is the position of its command in the list the    *)
(* work queue was built from.  Both queues are logs with a cursor: what    *)
(* was popped stays in the log, so that properties can speak of it.        *)
(* Whether a file exists, whether the front-end reaches the indexing       *)
(* callbacks and what the tool invocation returns are choices of the       *)
(* environment (the file system and libclang).                             *)
(***************************************************************************)
EXTENDS Integers, Sequences, FiniteSets

CONSTANTS
  NbThreads,   \* ScannerData::nbThreads
  NbTasks      \* how many commands pass the translation unit filters

\* assert(d->nbThreads > 0) at the head of scanMultiThreaded
ASSUME ThreadsAssumption == NbThreads \in Nat \ {0}
ASSUME TasksAssumption == NbTasks \in Nat

Worker == 1 .. NbThreads
Task == 1 .. NbTasks

VARIABLES
  nextTask,   \* WorkQueue: tasks nextTask .. NbTasks are still queued
  results,    \* IndexingResultQueue: everything ever written to it, in order
  nbRead,     \* IndexingResultQueue: how many of them were popped
  running,    \* WorkerThreads::m_running
  mpc,        \* where the main thread is in scanMultiThreaded
  spawned,    \* how many threads WorkerThreads::add has created
  wpc,        \* where each parsing thread is in parsing_thread_proc
  task,       \* the item each parsing thread holds
  success,    \* parsing_thread_proc's local variable
  produced,   \* ThreadProcIndexDataConsumer::m_produced_output
  snapshot,   \* the tasks whose index was fed to the SnapshotCreator
  reported    \* the tasks reported as failed on the standard output

queues == <<nextTask, results, nbRead>>
mainVars == <<mpc, spawned, snapshot, reported>>
threadVars == <<wpc, task, success, produced>>
vars == <<queues, running, mainVars, threadVars>>

Result == [task : Task, isError : BOOLEAN]

\* A thread holds an item between next() and the end of the loop's body.
Holding == {"parsing", "indexing", "finished", "returned"}
ThreadPc == Holding \cup {"absent", "next", "leaving", "exited"}

Init ==
  /\ nextTask = 1
  /\ results = <<>>
  /\ nbRead = 0
  /\ running = 0
  /\ mpc = "spawn"
  /\ spawned = 0
  /\ wpc = [w \in Worker |-> "absent"]
  /\ task = [w \in Worker |-> 0]
  /\ success = [w \in Worker |-> FALSE]
  /\ produced = [w \in Worker |-> FALSE]
  /\ snapshot = {}
  /\ reported = {}

Goto(w, from, to) ==
  /\ wpc[w] = from
  /\ wpc' = [wpc EXCEPT ![w] = to]

-----------------------------------------------------------------------------
(* The parsing threads.                                                    *)

\* mutant of Write: the queue is a stack
WriteOnTop(t, isError) ==
  results' = <<[task |-> t, isError |-> isError]>> \o results

\* IndexingResultQueue::write, under the queue's mutex
Write(t, isError) ==
  results' = Append(results, [task |-> t, isError |-> isError])

\* WorkQueue::next() on a queue that is not empty
TakeTask(w) ==
  /\ Goto(w, "next", "parsing")
  /\ nextTask <= NbTasks
  /\ task' = [task EXCEPT ![w] = nextTask]
  /\ nextTask' = nextTask + 1
  /\ UNCHANGED <<results, nbRead, running, mainVars, success, produced>>

\* WorkQueue::next() returned nullopt: the thread leaves its loop
QueueEmpty(w) ==
  /\ Goto(w, "next", "leaving")
  /\ nextTask > NbTasks
  /\ UNCHANGED <<queues, running, mainVars, task, success, produced>>

\* mutant of FileMissing: the loop is continued without an error result
FileMissingIgnored(w) ==
  /\ Goto(w, "parsing", "next")
  /\ success' = [success EXCEPT ![w] = FALSE]
  /\ UNCHANGED <<queues, running, mainVars, task, produced>>

\* run_invocation: the file does not exist
FileMissing(w) ==
  /\ Goto(w, "parsing", "returned")
  /\ success' = [success EXCEPT ![w] = FALSE]
  /\ UNCHANGED <<queues, running, mainVars, task, produced>>

\* the front-end reached ThreadProcIndexDataConsumer::initialize
Initialize(w) ==
  /\ Goto(w, "parsing", "indexing")
  /\ produced' = [produced EXCEPT ![w] = FALSE]
  /\ UNCHANGED <<queues, running, mainVars, task, success>>

\* ThreadProcIndexDataConsumer::finish: the index goes to the result queue
\* before the invocation has returned, hence before its success is known
Finish(w) ==
  /\ Goto(w, "indexing", "finished")
  /\ Write(task[w], FALSE)
  /\ produced' = [produced EXCEPT ![w] = TRUE]
  /\ UNCHANGED <<nextTask, nbRead, running, mainVars, task, success>>

\* ToolInvocation::run() returns, or throws and success is set to false; it
\* may do so before initialize, before finish or after it
InvocationReturns(w) ==
  /\ wpc[w] \in {"parsing", "indexing", "finished"}
  /\ wpc' = [wpc EXCEPT ![w] = "returned"]
  /\ \E ok \in BOOLEAN : success' = [success EXCEPT ![w] = ok]
  /\ UNCHANGED <<queues, running, mainVars, task, produced>>

\* mutant of Conclude: didProduceOutput() is not tested
ConcludeOnSuccessOnly(w) ==
  /\ Goto(w, "returned", "next")
  /\ IF ~success[w]
       THEN Write(task[w], TRUE)
       ELSE UNCHANGED results
  /\ produced' = [produced EXCEPT ![w] = FALSE]
  /\ task' = [task EXCEPT ![w] = 0]
  /\ success' = [success EXCEPT ![w] = FALSE]
  /\ UNCHANGED <<nextTask, nbRead, running, mainVars>>

\* the end of the loop's body: an empty index that carries only the main
\* file and the error flag if something went wrong
Conclude(w) ==
  /\ Goto(w, "returned", "next")
  /\ IF ~success[w] \/ ~produced[w]
       THEN Write(task[w], TRUE)
       ELSE UNCHANGED results
  /\ produced' = [produced EXCEPT ![w] = FALSE]
  /\ task' = [task EXCEPT ![w] = 0]
  /\ success' = [success EXCEPT ![w] = FALSE]
  /\ UNCHANGED <<nextTask, nbRead, running, mainVars>>

\* mutant of Leave: an exit path without the fetch_sub
LeaveUncounted(w) ==
  /\ Goto(w, "leaving", "exited")
  /\ UNCHANGED <<queues, running, mainVars, task, success, produced>>

\* running.fetch_sub(1), the thread's last statement
Leave(w) ==
  /\ Goto(w, "leaving", "exited")
  /\ running' = running - 1
  /\ UNCHANGED <<queues, mainVars, task, success, produced>>

-----------------------------------------------------------------------------
(* The main thread.                                                        *)

\* WorkerThreads::addOne: the counter is incremented by the creator, before
\* the thread exists
AddOne ==
  /\ mpc = "spawn"
  /\ spawned < NbThreads
  /\ running' = running + 1
  /\ spawned' = spawned + 1
  /\ Goto(spawned + 1, "absent", "next")
  /\ UNCHANGED <<queues, mpc, snapshot, reported, task, success, produced>>

\* the loop of WorkerThreads::add ends
AddedAll ==
  /\ mpc = "spawn"
  /\ spawned = NbThreads
  /\ mpc' = "check"
  /\ UNCHANGED <<queues, running, spawned, snapshot, reported, threadVars>>

\* mutant of CheckRunning: off by one
CheckMoreThanOneRunning ==
  /\ mpc = "check"
  /\ mpc' = IF running > 1 THEN "read" ELSE "join"
  /\ UNCHANGED <<queues, running, spawned, snapshot, reported, threadVars>>

\* while (threads.nbRunning() > 0)
CheckRunning ==
  /\ mpc = "check"
  /\ mpc' = IF running > 0 THEN "read" ELSE "join"
  /\ UNCHANGED <<queues, running, spawned, snapshot, reported, threadVars>>

\* IndexingResultQueue::tryRead found or was handed a result
TryRead ==
  /\ mpc = "read"
  /\ nbRead < Len(results)
  /\ nbRead' = nbRead + 1
  /\ mpc' = "handle"
  /\ UNCHANGED <<nextTask, results, running, spawned, snapshot, reported, threadVars>>

\* IndexingResultQueue::tryRead waited 250 ms and the queue is still empty
TryReadTimeout ==
  /\ mpc = "read"
  /\ nbRead = Len(results)
  /\ mpc' = "check"
  /\ UNCHANGED <<queues, running, spawned, snapshot, reported, threadVars>>

\* m_snapshot_creator->feed(std::move(result))
Feed ==
  /\ mpc = "handle"
  /\ ~results[nbRead].isError
  /\ snapshot' = snapshot \cup {results[nbRead].task}
  /\ mpc' = "check"
  /\ UNCHANGED <<queues, running, spawned, reported, threadVars>>

\* "error: tool invocation failed for ..."
ReportError ==
  /\ mpc = "handle"
  /\ results[nbRead].isError
  /\ reported' = reported \cup {results[nbRead].task}
  /\ mpc' = "check"
  /\ UNCHANGED <<queues, running, spawned, snapshot, threadVars>>

\* threads.destroy(): every thread is joined
Join ==
  /\ mpc = "join"
  /\ \A w \in Worker : wpc[w] = "exited"
  /\ mpc' = "done"
  /\ UNCHANGED <<queues, running, spawned, snapshot, reported, threadVars>>

\* scanMultiThreaded has returned
Returned ==
  /\ mpc = "done"
  /\ UNCHANGED vars

-----------------------------------------------------------------------------

WorkerNext(w) ==
  \/ TakeTask(w) \/ QueueEmpty(w)
  \/ FileMissing(w) \/ Initialize(w) \/ Finish(w) \/ InvocationReturns(w)
  \/ Conclude(w) \/ Leave(w)

MainNext ==
  \/ AddOne \/ AddedAll
  \/ CheckRunning \/ TryRead \/ TryReadTimeout \/ Feed \/ ReportError
  \/ Join

Next == MainNext \/ (\E w \in Worker : WorkerNext(w)) \/ Returned

Spec == Init /\ [][Next]_vars

\* The operating system runs every thread, and the front-end returns from
\* every invocation.
Fairness == WF_vars(MainNext) /\ \A w \in Worker : WF_vars(WorkerNext(w))

FairSpec == Spec /\ Fairness

-----------------------------------------------------------------------------
(* Properties.                                                             *)

HasOutcome(t) == \E i \in DOMAIN results : results[i].task = t
Produced(t, i) == results[i].task = t /\ ~results[i].isError
Failed(t, i) == results[i].task = t /\ results[i].isError

\* the results the main thread has finished with
Handled == 1 .. (IF mpc = "handle" THEN nbRead - 1 ELSE nbRead)

\* Every variable has its type.
TypeOK ==
  /\ nextTask \in 1 .. NbTasks + 1
  /\ results \in Seq(Result)
  /\ nbRead \in 0 .. Len(results)
  /\ running \in 0 .. NbThreads
  /\ mpc \in {"spawn", "check", "read", "handle", "join", "done"}
  /\ spawned \in 0 .. NbThreads
  /\ wpc \in [Worker -> ThreadPc]
  /\ task \in [Worker -> 0 .. NbTasks]
  /\ success \in [Worker -> BOOLEAN]
  /\ produced \in [Worker -> BOOLEAN]
  /\ snapshot \subseteq Task
  /\ reported \subseteq Task

\* The counter the main loop polls is the number of threads that may still
\* write a result (WorkerThreads::m_running).
RunningCountsThreads ==
  running = Cardinality({w \in Worker : wpc[w] \notin {"absent", "exited"}})

\* Two threads never parse the same command, and a command that is being
\* parsed or was parsed is not in the work queue any more (WorkQueue::next).
EachTaskTakenOnce ==
  \A w \in Worker : wpc[w] \in Holding =>
    /\ task[w] \in 1 .. nextTask - 1
    /\ \A v \in Worker \ {w} : wpc[v] \in Holding => task[v] # task[w]

\* A command that left the work queue is in the hands of a thread or has a
\* result: no exit from the loop's body forgets it.
NoTaskForgotten ==
  \A t \in 1 .. nextTask - 1 :
    HasOutcome(t) \/ \E w \in Worker : wpc[w] \in Holding /\ task[w] = t

\* A command produces at most one index and at most one error, and the index
\* comes first: an invocation that fails after finish() has both.
AtMostOneIndexThenOneError ==
  \A i, j \in DOMAIN results :
    i < j /\ results[i].task = results[j].task
      => ~results[i].isError /\ results[j].isError

\* When the main thread leaves its loop because it read zero, every thread
\* has exited, every command was taken and has a result: none will be
\* written after that.
NothingMoreAfterLoop ==
  mpc \in {"join", "done"} =>
    /\ \A w \in Worker : wpc[w] = "exited"
    /\ \A t \in Task : HasOutcome(t)

\* The snapshot is made of exactly the indexes popped so far, and the errors
\* printed are exactly the failures popped so far.
HandledAsRead ==
  /\ snapshot = {t \in Task : \E i \in Handled : Produced(t, i)}
  /\ reported = {t \in Task : \E i \in Handled : Failed(t, i)}

\* The scan ends.
Termination == <>(mpc = "done")

\* The scan implements Aggregation, whose liveness (every task gets an
\* outcome, then the scan closes) it has under Fairness.
Agg == INSTANCE Aggregation WITH
  indexed <- {t \in Task : \E i \in DOMAIN results : Produced(t, i)},
  failed <- {t \in Task : \E i \in DOMAIN results : Failed(t, i)},
  aggregated <- snapshot,
  closed <- mpc \in {"join", "done"}

ImplementsAggregation == Agg!Spec
ImplementsFairAggregation == Agg!FairSpec

\* scanner.h says of Scanner that it works by "producing a
\* TranslationUnitIndex for each translation unit in the project and then
\* aggregates the results in a single database file": when the scan ends,
\* every index that was produced is in the snapshot.
AggregatesEveryResult ==
  mpc = "done" =>
    \A i \in DOMAIN results : ~results[i].isError => results[i].task \in snapshot
=============================================================================
