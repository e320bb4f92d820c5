----------------------------- MODULE MCHttpServer -----------------------------
(* HttpServer on a small instance.                                            *)
EXTENDS HttpServer, TLC

MCQueueOf == [w \in Workers |-> Queue]

\* Sessions run the same code, and so do workers; used where no liveness is checked.
HttpSymmetry == Permutations(Sessions) \cup Permutations(Workers)

\* Bound: the clients send so many requests between them, one of them all, or each of
\* them one.
RequestsBound ==
    \A s, r \in Sessions : s # r => sent[s] + sent[r] <= MaxRequests

\* Bound: only the requests of one of the clients come in parts.
PartsBound ==
    \A s \in Sessions \ {CHOOSE r \in Sessions : TRUE} :
        \A n \in DOMAIN wire[s] : wire[s][n] # "part"

\* Both bounds on what clients do, for liveness.
LiveSpec == Init /\ [][Next /\ RequestsBound' /\ PartsBound']_vars /\ Fairness
================================================================================
