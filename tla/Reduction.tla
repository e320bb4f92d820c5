-------------------------------- MODULE Reduction --------------------------------
(***************************************************************************)
(* Lab2, for one vector: testSolutions() calls parallelSolution() for each   *)
(* variant and each number of threads, and compares what it returns with    *)
(* defaultSolution().  parallelSolution() counts the elements below -42 and  *)
(* finds the least of them, in threads over consecutive blocks that publish *)
(* to a shared count and minimum, under a mutex or by compare-exchange      *)
(* loops, element by element or once per block.                             *)
(*                                                                          *)
(* One step is one access to the shared variables together with the local   *)
(* work up to it; what happens under the mutex is one step.  A             *)
(* compare_exchange_weak() that fails spuriously reloads the value it       *)
(* expected: it changes nothing and is a stuttering step.                   *)
(***************************************************************************)
EXTENDS RowPartition, Sequences, FiniteSets

CONSTANTS
    Vectors,      \* the vectors, as sequences of integers
    ThreadsNums,  \* threadsNums of testSolutions(), a sequence
    INT_MAX       \* the minimum of no element

ASSUME ReductionAssumption ==
    /\ Vectors \subseteq Seq(Int)
    /\ ThreadsNums \in Seq(Nat \ {0}) /\ ThreadsNums # <<>>
    /\ INT_MAX \in Int
    /\ \A v \in Vectors : \A i \in DOMAIN v : v[i] < INT_MAX

VARIABLES
    vec,         \* arr, with indices from 1
    callNo,      \* which call of parallelSolution() this is
    count, min,  \* mutexCount and mutexMin, or casCount and casMin
    worker,      \* thread -> program counter and local variables
    created,     \* threads created so far
    joined       \* threads joined so far

vars == <<vec, callNo, count, min, worker, created, joined>>
call == <<vec, callNo>>

\* The loops over the variants and over the numbers of threads.
syncTypes == <<"MutexUnoptimized", "MutexOptimized", "CASUnoptimized", "CASOptimized">>
Calls == Len(syncTypes) * Len(ThreadsNums)
ThreadsNumOf(c) == ThreadsNums[1 + ((c - 1) % Len(ThreadsNums))]

syncType   == syncTypes[1 + ((callNo - 1) \div Len(ThreadsNums))]
threadsNum == ThreadsNumOf(callNo)

Threads   == 0 .. threadsNum - 1
Optimized == syncType \in {"MutexOptimized", "CASOptimized"}
WithMutex == syncType \in {"MutexUnoptimized", "MutexOptimized"}

\* Is element i one that is looked for?
Hit(i) == vec[i] < -42

Lesser(a, b) == IF a < b THEN a ELSE b

\* Mutant: the last thread does not take the remainder.
ElemsEndShort(t) == (t + 1) * RowsPerThread(threadsNum, Len(vec))

\* The block of a thread: the counts of Lab1 without its clamp.
ElemsStart(t, n, v) == FirstRow(t, n, Len(v)) + 1
ElemsEnd(t)         == LastRow(t, threadsNum, Len(vec))

\* The threads of call c before they start.
NewWorkers(c) ==
    [t \in 0 .. ThreadsNumOf(c) - 1 |->
        [pc |-> "scan", i |-> ElemsStart(t, ThreadsNumOf(c), vec), localCount |-> 0,
         localMin |-> INT_MAX, currCount |-> 0, currMin |-> INT_MAX]]

ReductionInit ==
    /\ vec \in Vectors
    /\ callNo = 1
    /\ count = 0
    /\ min = INT_MAX
    /\ worker = NewWorkers(1)
    /\ created = 0
    /\ joined = 0

At(t, pc) == t < created /\ worker[t].pc = pc

\* The loop over the block goes on, or the thread ends after its one update.
Published(w) == IF Optimized THEN [w EXCEPT !.pc = "done"]
                             ELSE [w EXCEPT !.pc = "scan", !.i = @ + 1,
                                            !.localCount = 0, !.localMin = INT_MAX]

CreateThread ==
    /\ created < threadsNum
    /\ created' = created + 1
    /\ UNCHANGED <<call, count, min, worker, joined>>

--------------------------------------------------------------------------------
(* The loop over the block.                                                   *)

InBlock(t) == At(t, "scan") /\ worker[t].i <= ElemsEnd(t)

SkipElement(t) ==
    /\ InBlock(t)
    /\ ~Hit(worker[t].i)
    /\ worker' = [worker EXCEPT ![t].i = @ + 1]
    /\ UNCHANGED <<call, count, min, created, joined>>

KeepLocally(t) ==
    /\ InBlock(t)
    /\ Optimized
    /\ Hit(worker[t].i)
    /\ worker' = [worker EXCEPT ![t].localCount = @ + 1,
                                ![t].localMin = Lesser(vec[worker[t].i], @),
                                ![t].i = @ + 1]
    /\ UNCHANGED <<call, count, min, created, joined>>

\* An optimized thread has nothing to publish, or its loop is simply over.
EndBlock(t) ==
    /\ At(t, "scan")
    /\ worker[t].i > ElemsEnd(t)
    /\ worker[t].localCount = 0
    /\ worker' = [worker EXCEPT ![t].pc = "done"]
    /\ UNCHANGED <<call, count, min, created, joined>>

\* What is to be published: a hit, or what an optimized thread has kept.
ToPublish(t) ==
    IF Optimized
    THEN [worker[t] EXCEPT !.pc = "publish"]
    ELSE [worker[t] EXCEPT !.pc = "publish", !.localCount = 1,
                           !.localMin = vec[worker[t].i]]

HasToPublish(t) ==
    IF Optimized THEN /\ At(t, "scan")
                      /\ worker[t].i > ElemsEnd(t)
                      /\ worker[t].localCount > 0
                 ELSE InBlock(t) /\ Hit(worker[t].i)

--------------------------------------------------------------------------------
(* Publishing.                                                                *)

UpdateUnderMutex(t) ==
    /\ WithMutex
    /\ HasToPublish(t)
    /\ LET w == ToPublish(t)
       IN  /\ count' = count + w.localCount
           /\ min' = Lesser(w.localMin, min)
           /\ worker' = [worker EXCEPT ![t] = Published(w)]
    /\ UNCHANGED <<call, created, joined>>

LoadCount(t) ==
    /\ ~WithMutex
    /\ HasToPublish(t)
    /\ worker' = [worker EXCEPT ![t] = [ToPublish(t) EXCEPT !.currCount = count]]
    /\ UNCHANGED <<call, count, min, created, joined>>

\* Mutant: the sum is stored without a comparison.
ExchangeCountBlindly(t) ==
    /\ At(t, "publish")
    /\ count' = worker[t].currCount + worker[t].localCount
    /\ worker' = [worker EXCEPT ![t].pc = "loadMin"]
    /\ UNCHANGED <<call, min, created, joined>>

ExchangeCount(t) ==
    /\ At(t, "publish")
    /\ count = worker[t].currCount
    /\ count' = worker[t].currCount + worker[t].localCount
    /\ worker' = [worker EXCEPT ![t].pc = "loadMin"]
    /\ UNCHANGED <<call, min, created, joined>>

\* Mutant: the value expected is not loaded again.
ReloadCountNot(t) ==
    /\ At(t, "publish")
    /\ count # worker[t].currCount
    /\ UNCHANGED vars

ReloadCount(t) ==
    /\ At(t, "publish")
    /\ count # worker[t].currCount
    /\ worker' = [worker EXCEPT ![t].currCount = count]
    /\ UNCHANGED <<call, count, min, created, joined>>

\* curr_min has the value of min now: the loop ends, or tries to exchange.
TestMin(t) ==
    worker' = [worker EXCEPT ![t] =
                  IF @.localMin < min THEN [@ EXCEPT !.pc = "exchange", !.currMin = min]
                                      ELSE Published(@)]

LoadMin(t) ==
    /\ At(t, "loadMin")
    /\ TestMin(t)
    /\ UNCHANGED <<call, count, min, created, joined>>

\* Mutant: the minimum is stored without a comparison.
ExchangeMinBlindly(t) ==
    /\ At(t, "exchange")
    /\ min' = worker[t].localMin
    /\ worker' = [worker EXCEPT ![t] = Published(@)]
    /\ UNCHANGED <<call, count, created, joined>>

ExchangeMin(t) ==
    /\ At(t, "exchange")
    /\ min = worker[t].currMin
    /\ min' = worker[t].localMin
    /\ worker' = [worker EXCEPT ![t] = Published(@)]
    /\ UNCHANGED <<call, count, created, joined>>

\* Mutant: who loses the exchange takes the minimum for settled.
ReloadMinGivesUp(t) ==
    /\ At(t, "exchange")
    /\ min # worker[t].currMin
    /\ worker' = [worker EXCEPT ![t] = Published(@)]
    /\ UNCHANGED <<call, count, min, created, joined>>

ReloadMin(t) ==
    /\ At(t, "exchange")
    /\ min # worker[t].currMin
    /\ TestMin(t)
    /\ UNCHANGED <<call, count, min, created, joined>>

JoinThread ==
    /\ created = threadsNum
    /\ joined < threadsNum
    /\ worker[joined].pc = "done"
    /\ joined' = joined + 1
    /\ UNCHANGED <<call, count, min, worker, created>>

\* parallelSolution() has returned.
Returned == joined = threadsNum

\* The next call on the same vector, with a count and a minimum of its own.
NextCall ==
    /\ Returned
    /\ callNo < Calls
    /\ callNo' = callNo + 1
    /\ count' = 0
    /\ min' = INT_MAX
    /\ worker' = NewWorkers(callNo + 1)
    /\ created' = 0
    /\ joined' = 0
    /\ UNCHANGED vec

ThreadStep(t) ==
    \/ SkipElement(t) \/ KeepLocally(t) \/ EndBlock(t)
    \/ UpdateUnderMutex(t)
    \/ LoadCount(t) \/ ExchangeCount(t) \/ ReloadCount(t)
    \/ LoadMin(t) \/ ExchangeMin(t) \/ ReloadMin(t)

ReductionNext ==
    \/ CreateThread \/ NextCall
    \/ \E t \in Threads : ThreadStep(t)
    \/ JoinThread

ReductionSpec == ReductionInit /\ [][ReductionNext]_vars

--------------------------------------------------------------------------------
Hits == {i \in DOMAIN vec : Hit(i)}

\* The least of the elements of a set of indices, or INT_MAX.
IsMinOf(m, indices) ==
    /\ \A i \in indices : m <= vec[i]
    /\ m # INT_MAX => \E i \in indices : m = vec[i]

\* defaultSolution(): what one loop over the vector returns.
DefaultResult(c, m) == c = Cardinality(Hits) /\ IsMinOf(m, Hits)

IsResCorrect == DefaultResult(count, min)

\* The hits of a thread that its updates of count, or of min, stand for.
HitsOf(t) == {i \in Hits : ElemsStart(t, threadsNum, vec) <= i /\ i < worker[t].i}
AtHit(t)  == IF Optimized THEN HitsOf(t) ELSE {worker[t].i}

CountedOf(t) ==
    CASE worker[t].pc \in {"scan", "publish"} -> IF Optimized THEN {} ELSE HitsOf(t)
      [] worker[t].pc \in {"loadMin", "exchange"} -> HitsOf(t) \cup AtHit(t)
      [] worker[t].pc = "done" -> HitsOf(t)
MinimisedOf(t) ==
    IF worker[t].pc = "done" \/ ~Optimized THEN HitsOf(t) ELSE {}

\* Types of the variables.  A thread that is joined has ended, and one that is
\* not created yet has done nothing.
ReductionTypeOK ==
    /\ vec \in Vectors /\ callNo \in 1 .. Calls
    /\ count \in 0 .. Len(vec)
    /\ min \in {vec[i] : i \in Hits} \cup {INT_MAX}
    /\ worker \in [Threads ->
          [pc : {"scan", "publish", "loadMin", "exchange", "done"},
           i : 1 .. Len(vec) + 1,
           localCount : 0 .. Len(vec), currCount : 0 .. Len(vec),
           localMin : Int, currMin : Int]]
    /\ created \in 0 .. threadsNum
    /\ joined \in 0 .. threadsNum
    /\ \A t \in Threads :
          /\ t < joined => worker[t].pc = "done"
          /\ t >= created => worker[t].pc = "scan" /\ worker[t].localCount = 0

\* When parallelSolution() returns, count and minimum are those of
\* defaultSolution(), in all four variants, whatever the threads did in between:
\* the test isResCorrect of testSolutions() (line 295) never reports an ERROR.
ResultIsReference == Returned => IsResCorrect

\* At every moment the shared count is the number of the hits the threads have
\* published: no update is lost between load() and compare_exchange_weak()
\* (lines 113-114 and 142-143), and none is counted twice by a retry.
CountAccounts == count = Cardinality(UNION {CountedOf(t) : t \in Threads})

\* At every moment the shared minimum is at most every hit whose thread has left
\* its minimum loop, however that loop was left (the condition failed, or the
\* exchange succeeded), and it is one of the hits counted so far.
MinAccounts ==
    /\ \A t \in Threads : \A i \in MinimisedOf(t) : min <= vec[i]
    /\ min # INT_MAX => \E t \in Threads : \E i \in CountedOf(t) : min = vec[i]

\* In a call the shared minimum never rises and the count never falls: a thread that was
\* delayed inside its loop (lines 116-120 and 145-149) cannot put back a value
\* another thread has improved upon.
NeverWorse == [][callNo' = callNo => min' <= min /\ count' >= count]_vars
================================================================================
