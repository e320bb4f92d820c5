------------------------------ MODULE MCCalcServer ------------------------------
(* A second connection, so that stop() meets sessions and calculations that live. *)
EXTENDS CalcServer

CONSTANT Second

ASSUME SecondAssumption == Second \in Sessions

\* Bound: while there is a second connection, it is idle, and the others have lost
\* their clients, have read what these sent, and have a matrix of one row at most
\* and one calculation.
SecondIsIdle ==
    session[Second].phase # "gone" =>
        \A s \in Sessions :
            /\ net[s].toServer = <<>>
            /\ session[s].matrixSize <= IF s = Second THEN 0 ELSE 1
            /\ Cardinality(Running(s)) <= 1
            /\ s # Second => ~net[s].clientOpen
================================================================================
