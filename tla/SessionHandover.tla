----------------------------- MODULE SessionHandover -----------------------------
(***************************************************************************)
(* What the HTTP server of Lab5 promises about a ClientSession, whose       *)
(* buffers have no lock (Lab5/Server/ClientSession.h 43-48): they belong to *)
(* the select() loop or to the thread pool, the pool gets a session with a  *)
(* whole request, which the loop does not drop on the way, and gives it back *)
(* with a response and never otherwise, and only the loop destroys it.      *)
(***************************************************************************)
CONSTANT Sessions

VARIABLE hands    \* of each session: who has it, and with what

Awaited   == <<"nobody", "nothing">>
Reading   == <<"loop", "nothing">>
Received  == <<"loop", "request">>
Submitted == <<"pool", "request">>
Responded == <<"pool", "response">>
Sending   == <<"loop", "response">>
Destroyed == <<"destroyed", "nothing">>

Moves ==
    { <<Awaited, Reading>>,        \* accept()
      <<Reading, Received>>,       \* the end of a request has been read
      <<Received, Submitted>>,     \* handed over
      <<Submitted, Responded>>,    \* processRequest()
      <<Responded, Sending>>,      \* handed back
      <<Sending, Reading>>,        \* all sent
      <<Reading, Destroyed>>, <<Sending, Destroyed>> }

Init == hands = [s \in Sessions |-> Awaited]

\* Several sessions may move at once, as when the server is torn down.
Next == \A s \in Sessions :
           LET before == hands[s]
               after == hands'[s]
           IN  after = before \/ <<before, after>> \in Moves

Spec == Init /\ [][Next]_hands
================================================================================
