------------------------------ MODULE MCPoolDriver ------------------------------
(* The pool as a library, used by any threads and stopped by one or paused by    *)
(* one and stopped by two, or by the program of Lab3: which of the three a        *)
(* behaviour shows is chosen at the start.                                        *)
EXTENDS MCBalancedPool, PoolDriver

\* No testSolution() and no taskGenerator().
LibraryInit ==
    /\ driver \in {"stopped", "paused"}
    /\ isTestRunning = FALSE
    /\ loop = [g \in Generators |-> "done"]
    /\ report = [completed |-> NothingRead, submitted |-> NothingRead]

\* Bound: only Main calls stop(), with true, as stop(false) is what testSolution()
\* calls, and nobody calls pause() or resume().
OnlyStopped ==
    /\ \A c \in StopCallers \ {Main} : stopper[c].pc = "idle"
    /\ stopper[Main].finish
    /\ \A c \in PauseCallers : pauser[c].pc = "idle"

\* Bound: one generator has one task; the argument of a stop() that comes too late to
\* read it does not vary.
OneTask ==
    /\ \A c \in StopCallers : stopper[c].pc = "early" => stopper[c].finish
    /\ \A g \in Generators \ {CHOOSE h \in Generators : TRUE} : gen[g].pc = "idle"
    /\ \A t \in Tasks \ {t1} : fate[t] = "fresh"

MCInit == Init /\ (DriverInit \/ LibraryInit)

MCNext ==
    \/ driver = "stopped" /\ Next /\ OnlyStopped' /\ UNCHANGED driverVars
    \/ driver = "paused" /\ Next /\ OneTask' /\ UNCHANGED driverVars
    \/ driver \notin {"stopped", "paused"} /\ DriverNext

MCSpec == MCInit /\ [][MCNext]_<<vars, driverVars>> /\ Fairness /\ DriverFairness
================================================================================
