------------------------------- MODULE MCForkJoin -------------------------------
(* The fork-join programs of Lab1 and Lab2 on small instances.  They share      *)
(* nothing: which of the two a behaviour runs is chosen at the start, and the   *)
(* variables of the other stay as they are.                                     *)
EXTENDS RowWorkers, Reduction

CONSTANTS
    Lengths,   \* lengths of the vectors
    Elements   \* elements of the vectors

VARIABLE program

MCVectors == UNION {[1 .. n -> Elements] : n \in Lengths}
MCElements == {-100, -43, -42}
MCRowThreadsNums == <<1, 3, 2, 4>>
MCThreadsNums == <<2, 3>>

AnyOf(S) == CHOOSE x \in S : TRUE

allVars == <<rowVars, vars, program>>

MCInit ==
    /\ program \in {"Lab1", "Lab2"}
    /\ RowInit
    /\ ReductionInit
    /\ program = "Lab1" => vec = AnyOf(Vectors)
    /\ program = "Lab2" => size = AnyOf(MatrixSizes)

MCNext ==
    \/ program = "Lab1" /\ RowNext /\ UNCHANGED <<vars, program>>
    \/ program = "Lab2" /\ ReductionNext /\ UNCHANGED <<rowVars, program>>

\* As long as a thread of the program can go on, one of them does.
MCSpec == MCInit /\ [][MCNext]_allVars /\ WF_allVars(MCNext)

\* The types of both programs.
ForkJoinTypeOK == RowTypeOK /\ ReductionTypeOK

\* Every call of parallelSolution() returns, so that testSolutions() does, although
\* the scheduler only has to run some thread that can go on and never a particular
\* one: a compare-exchange that fails does so because another thread has changed
\* the value (Lab2 lines 114 and 146-149), and the joins wait for threads that end
\* (Lab1 line 133, Lab2 line 207).
CallsReturn ==
    <>(IF program = "Lab1" THEN rowCall = RowCalls /\ RowsReturned
                           ELSE callNo = Calls /\ Returned)
================================================================================
