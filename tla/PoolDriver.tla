------------------------------- MODULE PoolDriver -------------------------------
(***************************************************************************)
(* The program of Lab3 around its pool (Lab3/Project1/Source.cpp):           *)
(* generators that call addTask() while the test runs, and testSolution(),   *)
(* which ends the test, calls stop(false), joins the generators, reads the   *)
(* counters, prints them and destroys the pool.  The profiler only reads.    *)
(***************************************************************************)
EXTENDS PoolAccounting

CONSTANT Main     \* the thread of testSolution()

ASSUME MainAssumption == Main \in StopCallers

VARIABLES
    driver,          \* where testSolution() is
    isTestRunning,
    loop,            \* where each taskGenerator() is, when not inside addTask()
    report           \* the counters as testSolution() has read them

driverVars == <<driver, isTestRunning, loop, report>>

NothingRead == -1

DriverInit ==
    /\ driver = "testing"
    /\ isTestRunning = TRUE
    /\ loop = [g \in Generators |-> "test"]
    /\ report = [completed |-> NothingRead, submitted |-> NothingRead]

-------------------------------------------------------------------------------
(* taskGenerator().                                                          *)

\* Bound: a generator goes on only as long as there are tasks left.
TaskLeft ==
    Cardinality({g \in Generators : loop[g] = "call"})
        < Cardinality({t \in Tasks : fate[t] = "fresh"})

\* The condition of the loop.
TestLoop(g) ==
    /\ loop[g] = "test"
    /\ gen[g].pc = "idle"
    /\ \/ isTestRunning /\ TaskLeft /\ loop' = [loop EXCEPT ![g] = "call"]
       \/ ~isTestRunning /\ loop' = [loop EXCEPT ![g] = "done"]
    /\ UNCHANGED <<vars, driver, isTestRunning, report>>

CallAddTask(g) ==
    /\ loop[g] = "call"
    /\ \E t \in Tasks : AddTask(g, t)
    /\ loop' = [loop EXCEPT ![g] = "test"]
    /\ UNCHANGED <<driver, isTestRunning, report>>

-------------------------------------------------------------------------------
(* testSolution().                                                           *)

\* Mutant: the flag is left as it is.
FlagAfterTestKept == isTestRunning

FlagAfterTest == FALSE

EndTest ==
    /\ driver = "testing"
    /\ isTestRunning' = FlagAfterTest
    /\ driver' = "stopping"
    /\ UNCHANGED <<vars, loop, report>>

CallStop ==
    /\ driver = "stopping"
    /\ StopCall(Main, FALSE)
    /\ driver' = "joining"
    /\ UNCHANGED <<isTestRunning, loop, report>>

\* Mutant: only one generator is joined.
GeneratorsJoinedOne == \E g \in Generators : loop[g] = "done"

GeneratorsJoined == \A g \in Generators : loop[g] = "done"

JoinGenerators ==
    /\ driver = "joining"
    /\ stopper[Main].pc = "returned"
    /\ GeneratorsJoined
    /\ driver' = "readCompleted"
    /\ UNCHANGED <<vars, isTestRunning, loop, report>>

ReadCompleted ==
    /\ driver = "readCompleted"
    /\ report' = [report EXCEPT !.completed = tasksCompleted]
    /\ driver' = "readSubmitted"
    /\ UNCHANGED <<vars, isTestRunning, loop>>

ReadSubmitted ==
    /\ driver = "readSubmitted"
    /\ report' = [report EXCEPT !.submitted = tasksSubmitted]
    /\ driver' = "reported"
    /\ UNCHANGED <<vars, isTestRunning, loop>>

\* ~ThreadPool() at the end of the scope: stop() has been called, nothing is left.
DestroyPool ==
    /\ driver = "reported"
    /\ stopFlag
    /\ driver' = "destroyed"
    /\ UNCHANGED <<vars, isTestRunning, loop, report>>

-------------------------------------------------------------------------------
MainStep ==
    \/ EndTest \/ CallStop \/ JoinGenerators \/ ReadCompleted \/ ReadSubmitted
    \/ DestroyPool

GeneratorStep(g) == TestLoop(g) \/ CallAddTask(g)

DriverNext ==
    \/ MainStep
    \/ \E g \in Generators : GeneratorStep(g)
    \/ /\ \/ \E g \in Generators : AddStep(g)
          \/ \E w \in Workers : LoopStep(w) \/ SpuriousInLoop(w)
          \/ StopStep(Main)
       /\ UNCHANGED driverVars

\* The threads are scheduled and the clock reaches the end of the test.
DriverFairness ==
    /\ WF_<<vars, driverVars>>(MainStep)
    /\ \A g \in Generators : WF_<<vars, driverVars>>(GeneratorStep(g))

DriverSpec == Init /\ DriverInit /\ [][DriverNext]_<<vars, driverVars>>
              /\ Fairness /\ DriverFairness

-------------------------------------------------------------------------------
\* What testSolution() prints is final and adds up, although generators may have
\* been inside addTask() when the pool was stopped: every task counted as submitted
\* has been executed, dropped, or charged and refused, those counted as completed
\* have been executed, and no thread is left that could use the pool, which is
\* destroyed next (Source.cpp 85-117; ThreadPool.cpp 19).
ReportIsFinal ==
    driver \in {"reported", "destroyed"} =>
        /\ report.completed = Cardinality({t \in Tasks : fate[t] = "executed"})
        /\ report.submitted =
               report.completed + Cardinality({t \in Tasks : fate[t] = "dropped"})
               + Cardinality(UNION {leaked[q] : q \in Queues})
        /\ \A w \in Workers : at[w] = "exited"
        /\ \A g \in Generators : loop[g] = "done" /\ gen[g].pc = "idle"

\* The test ends: stop(false) returns although generators still call addTask(), and
\* each of them leaves its loop (Source.cpp 39, 85-91).
TestEnds == driver = "testing" ~> driver = "destroyed"
================================================================================
