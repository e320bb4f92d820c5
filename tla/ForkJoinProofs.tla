----------------------------- MODULE ForkJoinProofs -----------------------------
(* The fork-join programs.  Lab1 computes the matrix of defaultSolution(): for    *)
(* every size, every list of thread counts and both distributions, each row is    *)
(* calculated exactly once.  Lab2 computes what defaultSolution() does: for every *)
(* vector, every list of thread counts and all four variants.  At the end, what   *)
(* the two say of the specification that the run of MCForkJoin checks.            *)
EXTENDS MCForkJoin, RowPartitionProofs, FiniteSetTheorems

-------------------------------------------------------------------------------
(* The rows that lie ahead of the threads of Lab1.                            *)

\* The end and the step of a loop, for given call and size.
EndOf(t, c, m) == IF TypeOf(c) = "Block" THEN LastRow(t, ThreadsOf(c, m), m) ELSE m
StepOf(c, m)   == IF TypeOf(c) = "Block" THEN 1 ELSE ThreadsOf(c, m)

\* A loop at row n comes to row r.
ComesTo(n, r, t, c, m) == n <= r /\ r < EndOf(t, c, m) /\ (r - n) % StepOf(c, m) = 0

\* A call has at least one thread, and no more than rows.
LEMMA ThreadsOfCall ==
    ASSUME NEW c \in Nat \ {0}, NEW m \in Nat \ {0}
    PROVE  ThreadsOf(c, m) \in 1 .. m
  <1>1. Len(RowThreadsNums) \in Nat \ {0}
    BY RowAssumption
  <1>2. 1 + ((c - 1) % Len(RowThreadsNums)) \in 1 .. Len(RowThreadsNums)
    BY <1>1, ModIndex
  <1>3. RowThreadsNums[1 + ((c - 1) % Len(RowThreadsNums))] \in Nat \ {0}
    BY <1>2, RowAssumption
  <1> QED  BY <1>3 DEF ThreadsOf, ThreadsUsed

\* At the start of a call each row lies ahead of exactly one thread.
LEMMA CallPartitions ==
    ASSUME NEW c \in Nat \ {0}, NEW m \in Nat \ {0}, NEW r \in 0 .. m - 1
    PROVE  LET T == 0 .. ThreadsOf(c, m) - 1
           IN  /\ \A t \in T : StartRow(t, c, m) \in Nat
               /\ \E t \in T : ComesTo(StartRow(t, c, m), r, t, c, m)
               /\ \A t, u \in T : /\ ComesTo(StartRow(t, c, m), r, t, c, m)
                                  /\ ComesTo(StartRow(u, c, m), r, u, c, m)
                                  => t = u
  <1> DEFINE n == ThreadsOf(c, m)
  <1>1. n \in Nat \ {0}
    BY ThreadsOfCall
  <1>2. r \in Nat
    OBVIOUS
  <1>3. CASE TypeOf(c) = "Block"
    <2>1. \A t : StartRow(t, c, m) = FirstRow(t, n, m) /\ EndOf(t, c, m) = LastRow(t, n, m)
      BY <1>3 DEF StartRow, EndOf
    <2>2. StepOf(c, m) = 1
      BY <1>3 DEF StepOf
    <2> HIDE DEF n
    <2>3. \A t \in 0 .. n - 1 : FirstRow(t, n, m) \in Nat /\ LastRow(t, n, m) \in Nat
      BY <1>1, BlockBounds
    <2>4. ASSUME NEW t \in 0 .. n - 1
          PROVE  ComesTo(StartRow(t, c, m), r, t, c, m)
                    <=> FirstRow(t, n, m) <= r /\ r < LastRow(t, n, m)
      <3>1. CASE FirstRow(t, n, m) <= r
        <4>1. (r - FirstRow(t, n, m)) % 1 = 0
          BY <1>2, <2>3, <3>1, ModOne, r - FirstRow(t, n, m) \in Nat
        <4> QED  BY <2>1, <2>2, <3>1, <4>1 DEF ComesTo
      <3>2. CASE ~(FirstRow(t, n, m) <= r)
        BY <2>1, <3>2 DEF ComesTo
      <3> QED  BY <3>1, <3>2
    <2>5. ASSUME NEW t \in 0 .. n - 1, NEW u \in 0 .. n - 1, t < u
          PROVE  LastRow(t, n, m) <= FirstRow(u, n, m)
      BY <1>1, <2>5, BlocksAscend
    <2>6. \E t \in 0 .. n - 1 : FirstRow(t, n, m) <= r /\ r < LastRow(t, n, m)
      BY <1>1, BlocksCover
    <2>7. \A t, u \in 0 .. n - 1 :
             /\ FirstRow(t, n, m) <= r /\ r < LastRow(t, n, m)
             /\ FirstRow(u, n, m) <= r /\ r < LastRow(u, n, m)
             => t = u
      <3> SUFFICES ASSUME NEW t \in 0 .. n - 1, NEW u \in 0 .. n - 1, t # u,
                          FirstRow(t, n, m) <= r, r < LastRow(t, n, m),
                          FirstRow(u, n, m) <= r, r < LastRow(u, n, m)
                   PROVE  FALSE
        OBVIOUS
      <3>1. t < u \/ u < t
        BY <1>1
      <3> QED  BY <1>2, <2>3, <2>5, <3>1
    <2> QED  BY <2>1, <2>3, <2>4, <2>6, <2>7 DEF n
  <1>4. CASE TypeOf(c) # "Block"
    <2>1. \A t : StartRow(t, c, m) = t /\ EndOf(t, c, m) = m
      BY <1>4 DEF StartRow, EndOf
    <2>2. StepOf(c, m) = n
      BY <1>4 DEF StepOf
    <2> HIDE DEF n
    <2>3. \A t : ComesTo(StartRow(t, c, m), r, t, c, m) <=> t <= r /\ (r - t) % n = 0
      BY <2>1, <2>2 DEF ComesTo
    <2>4. r % n \in 0 .. n - 1 /\ r % n <= r /\ (r - (r % n)) % n = 0
      BY <1>1, <1>2, ModOwner
    <2>5. \A t, u \in 0 .. n - 1 :
             t <= r /\ (r - t) % n = 0 /\ u <= r /\ (r - u) % n = 0 => t = u
      BY <1>1, <1>2, ModUnique
    <2>6. \A t \in 0 .. n - 1 : StartRow(t, c, m) \in Nat
      BY <1>1, <2>1
    <2> QED  BY <2>3, <2>4, <2>5, <2>6 DEF n
  <1> QED  BY <1>3, <1>4

(***************************************************************************)
(* The inductive invariant.  A row that is still as it was filled lies      *)
(* ahead of exactly one thread, and no other row lies ahead of any.          *)
(***************************************************************************)

\* The loop of thread t comes to row r.
Ahead(t, r) == nextRow[t] <= r /\ r < EndRow(t) /\ (r - nextRow[t]) % RowStep = 0

RowShape ==
    /\ rowCall \in Nat \ {0} /\ rowCall <= RowCalls
    /\ size \in Nat \ {0} /\ Rows = 0 .. size - 1
    /\ k \in 1 .. size
    /\ matrix \in [Rows -> {"raw", "calculated"}]
    /\ nextRow \in [0 .. k - 1 -> Nat]
    /\ rowsCreated \in 0 .. k
    /\ rowsJoined \in 0 .. k
    /\ rowsJoined > 0 => rowsCreated = k

RawIsAhead    == \A r \in Rows : matrix[r] = "raw" => \E t \in 0 .. k - 1 : Ahead(t, r)
AheadIsRaw    == \A r \in Rows, t \in 0 .. k - 1 : Ahead(t, r) => matrix[r] = "raw"
OneAhead      == \A r \in Rows, t, u \in 0 .. k - 1 : Ahead(t, r) /\ Ahead(u, r) => t = u
JoinedAreDone == \A t \in 0 .. k - 1 : t < rowsJoined => nextRow[t] >= EndRow(t)

RowInv == RowShape /\ RawIsAhead /\ AheadIsRaw /\ OneAhead /\ JoinedAreDone

\* Ahead in terms of the call and the size only.
LEMMA AheadDef ==
    ASSUME NEW t, NEW r
    PROVE  Ahead(t, r) <=> ComesTo(nextRow[t], r, t, rowCall, size)
  BY DEF Ahead, ComesTo, EndRow, EndOf, RowStep, StepOf, type, k

\* A call that has just begun.
RowsBegun(c, m) ==
    /\ matrix = Filled(m) /\ rowCall = c /\ nextRow = StartRows(c, m)
    /\ rowsCreated = 0 /\ rowsJoined = 0

\* A filled matrix has the rows it was filled with.
LEMMA FilledSize ==
    ASSUME NEW m \in Nat \ {0}, matrix = Filled(m)
    PROVE  Rows = 0 .. m - 1 /\ size = m
  <1>1. Rows = 0 .. m - 1
    BY DEF Rows, Filled
  <1>2. Cardinality(0 .. m - 1) = m
    BY FS_Interval
  <1> QED  BY <1>1, <1>2 DEF size

\* The invariant holds when a call begins: the distribution is a partition.
LEMMA RowsBegunInv ==
    ASSUME NEW c \in Nat \ {0}, c <= RowCalls, NEW m \in Nat \ {0}, RowsBegun(c, m)
    PROVE  RowInv
  <1> DEFINE n == ThreadsOf(c, m)
  <1>1. Rows = 0 .. m - 1 /\ size = m
    BY FilledSize DEF RowsBegun
  <1>2. k = n /\ rowCall = c
    BY <1>1 DEF RowsBegun, k
  <1>3. n \in 1 .. m
    BY ThreadsOfCall
  <1>4. nextRow = [t \in 0 .. n - 1 |-> StartRow(t, c, m)]
    BY DEF RowsBegun, StartRows
  <1> HIDE DEF n
  <1>5. \A t \in 0 .. n - 1 : StartRow(t, c, m) \in Nat
    BY CallPartitions, 0 \in 0 .. m - 1 DEF n
  <1>6. \A r \in Rows : matrix[r] = "raw"
    BY <1>1 DEF RowsBegun, Filled
  <1>7. RowShape
    <2>1. matrix \in [Rows -> {"raw", "calculated"}]
      BY <1>1 DEF RowsBegun, Filled
    <2>2. nextRow \in [0 .. k - 1 -> Nat]
      BY <1>2, <1>4, <1>5
    <2>3. rowsCreated \in 0 .. k /\ rowsJoined = 0
      BY <1>2, <1>3 DEF RowsBegun
    <2> QED  BY <1>1, <1>2, <1>3, <2>1, <2>2, <2>3 DEF RowShape
  <1>8. ASSUME NEW r \in Rows, NEW t \in 0 .. k - 1
        PROVE  Ahead(t, r) <=> ComesTo(StartRow(t, c, m), r, t, c, m)
    BY <1>1, <1>2, <1>4, AheadDef
  <1>9. RawIsAhead
    BY <1>1, <1>2, <1>8, CallPartitions DEF RawIsAhead, n
  <1>10. AheadIsRaw
    BY <1>6 DEF AheadIsRaw
  <1>11. OneAhead
    BY <1>1, <1>2, <1>8, CallPartitions DEF OneAhead, n
  <1>12. JoinedAreDone
    BY <1>2 DEF JoinedAreDone, RowsBegun
  <1> QED  BY <1>7, <1>9, <1>10, <1>11, <1>12 DEF RowInv

\* The same of the state after a step.
LEMMA RowsBegunInvNext ==
    ASSUME NEW CONSTANT c \in Nat \ {0}, c <= RowCalls, NEW CONSTANT m \in Nat \ {0}
    PROVE  RowsBegun(c, m)' => RowInv'
  <1>1. RowsBegun(c, m) => RowInv
    BY RowsBegunInv
  <1> QED  BY <1>1, PTL

\* testSolutions() makes at least one call.
LEMMA AtLeastOneRowCall == RowCalls \in Nat \ {0}
  <1>1. Len(types) = 2
    BY DEF types
  <1>2. Len(RowThreadsNums) \in Nat \ {0}
    BY RowAssumption
  <1> QED  BY <1>1, <1>2 DEF RowCalls

\* The invariant holds initially.
LEMMA RowInitInv == RowInit => RowInv
  <1> SUFFICES ASSUME RowInit PROVE RowInv
    OBVIOUS
  <1>1. PICK m \in MatrixSizes : RowsBegun(1, m)
    BY DEF RowInit, RowsBegun
  <1>2. m \in Nat \ {0}
    BY RowAssumption
  <1> QED  BY <1>1, <1>2, RowsBegunInv, AtLeastOneRowCall

\* Within a call the shape of the loops stays.
LEMMA SameRowCall ==
    ASSUME rowCall' = rowCall, DOMAIN matrix' = DOMAIN matrix
    PROVE  /\ Rows' = Rows /\ size' = size /\ k' = k /\ RowStep' = RowStep
           /\ \A t : EndRow(t)' = EndRow(t)
  <1>1. Rows' = Rows
    BY DEF Rows
  <1>2. size' = size
    BY <1>1 DEF size
  <1>3. k' = k /\ type' = type
    BY <1>2 DEF k, type
  <1> QED  BY <1>1, <1>2, <1>3 DEF RowStep, EndRow

\* A thread is created or joined.
LEMMA RowCountersKeepInv ==
    ASSUME RowInv, UNCHANGED <<matrix, rowCall, nextRow>>,
           rowsCreated' \in 0 .. k, rowsJoined' \in 0 .. k,
           rowsJoined' > 0 => rowsCreated' = k,
           \A t \in 0 .. k - 1 : t < rowsJoined' => nextRow[t] >= EndRow(t)
    PROVE  RowInv'
  <1>1. /\ Rows' = Rows /\ size' = size /\ k' = k /\ RowStep' = RowStep
        /\ \A t : EndRow(t)' = EndRow(t)
    BY SameRowCall
  <1>2. \A t, r : Ahead(t, r)' = Ahead(t, r)
    BY <1>1 DEF Ahead
  <1>3. RowShape'
    BY <1>1 DEF RowInv, RowShape
  <1>4. RawIsAhead' /\ AheadIsRaw' /\ OneAhead'
    BY <1>1, <1>2 DEF RowInv, RawIsAhead, AheadIsRaw, OneAhead
  <1>5. JoinedAreDone'
    BY <1>1 DEF JoinedAreDone
  <1> QED  BY <1>3, <1>4, <1>5 DEF RowInv

\* A loop ends at the last row or before it.
LEMMA EndRowBounds ==
    ASSUME RowShape, NEW t \in 0 .. k - 1
    PROVE  EndRow(t) \in Nat /\ EndRow(t) <= size
  <1>1. size \in Nat /\ k \in Nat \ {0}
    BY DEF RowShape
  <1>2. LastRow(t, k, size) \in Nat /\ LastRow(t, k, size) <= size
    BY <1>1, BlockBounds
  <1> QED  BY <1>1, <1>2 DEF EndRow

\* A thread that calculates a row takes it off what lies ahead of it, and of it only.
LEMMA RowThreadInv ==
    ASSUME RowInv, NEW t \in DOMAIN nextRow, CalculateNextRow(t)
    PROVE  RowInv'
  <1> DEFINE row == nextRow[t]
  <1>1. /\ t \in 0 .. k - 1 /\ row \in Nat
        /\ size \in Nat \ {0} /\ Rows = 0 .. size - 1 /\ k \in 1 .. size
        /\ nextRow \in [0 .. k - 1 -> Nat]
    BY DEF RowInv, RowShape
  <1>2. /\ row < EndRow(t)
        /\ matrix' = [matrix EXCEPT ![row] = CalculatedRow(matrix[row])]
        /\ nextRow' = [nextRow EXCEPT ![t] = row + RowStep]
        /\ UNCHANGED <<rowCall, rowsCreated, rowsJoined>>
    BY DEF CalculateNextRow
  <1>3. DOMAIN matrix' = DOMAIN matrix
    BY <1>2
  <1>4. /\ Rows' = Rows /\ size' = size /\ k' = k /\ RowStep' = RowStep
        /\ \A u : EndRow(u)' = EndRow(u)
    BY <1>2, <1>3, SameRowCall
  <1>5. RowStep \in Nat \ {0}
    BY <1>1 DEF RowStep
  <1>6. EndRow(t) \in Nat /\ EndRow(t) <= size
    BY <1>1, EndRowBounds DEF RowInv
  <1> HIDE DEF row
  <1>7. row \in Rows
    BY <1>1, <1>2, <1>6
  <1>8. Ahead(t, row)
    <2>1. (row - row) % RowStep = 0
      BY <1>1, <1>5
    <2> QED  BY <1>1, <1>2, <2>1 DEF Ahead, row
  <1>9. matrix[row] = "raw"
    BY <1>1, <1>7, <1>8 DEF RowInv, AheadIsRaw
  <1>10. \A r \in Rows : matrix'[r] = IF r = row THEN "calculated" ELSE matrix[r]
    BY <1>2, <1>9 DEF CalculatedRow, RowInv, RowShape
  <1>11. ASSUME NEW r \in Rows
         PROVE  Ahead(t, r)' <=> Ahead(t, r) /\ r # row
    <2>1. Ahead(t, r) <=> row <= r /\ r < EndRow(t) /\ (r - row) % RowStep = 0
      BY DEF Ahead, row
    <2>2. nextRow'[t] = row + RowStep
      BY <1>1, <1>2
    <2>3. Ahead(t, r)' <=> /\ row + RowStep <= r /\ r < EndRow(t)
                           /\ (r - (row + RowStep)) % RowStep = 0
      BY <1>4, <2>2 DEF Ahead
    <2>4. r \in Nat /\ row \in Nat
      BY <1>1
    <2>5. CASE row <= r /\ r # row
      <3> DEFINE x == r - row
      <3>1. x \in Nat /\ x # 0
        BY <2>4, <2>5
      <3>2. r - (row + RowStep) = x - RowStep /\ (row + RowStep <= r <=> x >= RowStep)
        BY <1>5, <2>4
      <3> HIDE DEF x
      <3>3. x % RowStep = 0 => x >= RowStep /\ (x - RowStep) % RowStep = 0
        BY <1>5, <3>1, StepUp
      <3>4. x >= RowStep /\ (x - RowStep) % RowStep = 0 => x % RowStep = 0
        BY <1>5, <3>1, StepDown
      <3> QED  BY <2>1, <2>3, <2>5, <3>2, <3>3, <3>4 DEF x
    <2>6. CASE ~(row <= r /\ r # row)
      <3>1. ~(row + RowStep <= r)
        BY <1>5, <2>4, <2>6
      <3> QED  BY <2>1, <2>3, <2>6, <3>1
    <2> QED  BY <2>5, <2>6
  <1>12. ASSUME NEW u \in 0 .. k - 1, u # t, NEW r \in Rows
         PROVE  Ahead(u, r)' <=> Ahead(u, r)
    <2>1. nextRow'[u] = nextRow[u]
      BY <1>1, <1>2, <1>12
    <2> QED  BY <1>4, <2>1 DEF Ahead
  <1>13. ASSUME NEW u \in 0 .. k - 1, NEW r \in Rows
         PROVE  Ahead(u, r)' <=> Ahead(u, r) /\ r # row
    <2>1. CASE u = t
      BY <1>11, <2>1
    <2>2. CASE u # t
      <3>1. Ahead(u, row) => u = t
        BY <1>1, <1>7, <1>8 DEF RowInv, OneAhead
      <3> QED  BY <1>12, <2>2, <3>1
    <2> QED  BY <2>1, <2>2
  <1>14. RowShape'
    <2>1. matrix' \in [Rows -> {"raw", "calculated"}]
      BY <1>2, <1>9 DEF CalculatedRow, RowInv, RowShape
    <2>2. nextRow' \in [0 .. k - 1 -> Nat]
      BY <1>1, <1>2, <1>5
    <2> QED  BY <1>2, <1>4, <2>1, <2>2 DEF RowInv, RowShape
  <1>15. RawIsAhead'
    BY <1>4, <1>10, <1>13 DEF RowInv, RawIsAhead
  <1>16. AheadIsRaw'
    BY <1>4, <1>10, <1>13 DEF RowInv, AheadIsRaw
  <1>17. OneAhead'
    BY <1>4, <1>13 DEF RowInv, OneAhead
  <1>18. JoinedAreDone'
    <2>1. ASSUME NEW u \in 0 .. k - 1, u < rowsJoined PROVE nextRow'[u] >= EndRow(u)
      <3>1. nextRow[u] >= EndRow(u)
        BY <2>1 DEF RowInv, JoinedAreDone
      <3>2. u # t
        BY <1>1, <1>2, <1>6, <3>1 DEF row
      <3> QED  BY <1>1, <1>2, <3>1, <3>2
    <2> QED  BY <1>2, <1>4, <2>1 DEF JoinedAreDone
  <1> QED  BY <1>14, <1>15, <1>16, <1>17, <1>18 DEF RowInv

\* Every step keeps the invariant.
LEMMA RowNextInv ==
    ASSUME RowInv, [RowNext]_rowVars
    PROVE  RowInv'
  <1>1. /\ k \in Nat /\ rowsCreated \in 0 .. k /\ rowsJoined \in 0 .. k
        /\ rowsJoined > 0 => rowsCreated = k
    BY DEF RowInv, RowShape
  <1>2. \A t \in 0 .. k - 1 : t < rowsJoined => nextRow[t] >= EndRow(t)
    BY DEF RowInv, JoinedAreDone
  <1>3. CASE CreateRowThread
    BY <1>1, <1>2, <1>3, RowCountersKeepInv DEF CreateRowThread
  <1>4. CASE JoinRowThread
    BY <1>1, <1>2, <1>4, RowCountersKeepInv DEF JoinRowThread, RowThreadDone
  <1>5. CASE NextRowCall
    <2>1. PICK c \in Nat \ {0} : c = rowCall + 1 /\ c <= RowCalls
      BY <1>5, AtLeastOneRowCall DEF NextRowCall, RowInv, RowShape
    <2>2. PICK m \in Nat \ {0} : m = size
      BY DEF RowInv, RowShape
    <2>3. RowsBegun(c, m)'
      BY <1>5, <2>1, <2>2 DEF NextRowCall, RowsBegun
    <2> QED  BY <2>1, <2>3, RowsBegunInvNext
  <1>6. CASE \E t \in DOMAIN nextRow : CalculateNextRow(t)
    BY <1>6, RowThreadInv
  <1>7. CASE UNCHANGED rowVars
    BY <1>1, <1>2, <1>7, RowCountersKeepInv DEF rowVars
  <1> QED  BY <1>3, <1>4, <1>5, <1>6, <1>7 DEF RowNext

\* Each row not calculated yet lies ahead of exactly one loop, at every moment of
\* every call.
THEOREM RowInvariant == RowSpec => []RowInv
  <1> QED  BY RowInitInv, RowNextInv, PTL DEF RowSpec

\* Type correctness for every size, list of thread counts and distribution: in
\* particular the clamp leaves at least one thread and no more than rows.
THEOREM RowTypeCorrect == RowSpec => []RowTypeOK
  <1>1. RowInv => RowTypeOK
    <2>1. RowCalls \in Nat
      BY AtLeastOneRowCall
    <2> QED  BY <2>1 DEF RowInv, RowShape, RowTypeOK
  <1> QED  BY <1>1, RowInvariant, PTL

\* No row is ever worked on by two threads, and none is forgotten.
THEOREM RowsAccountedHolds == RowSpec => []RowsAccounted
  <1>1. RowInv => RowsAccounted
    <2> SUFFICES ASSUME RowInv, NEW r \in Rows
                 PROVE  LET ahead == {t \in DOMAIN nextRow : r \in RowsAhead(t)}
                        IN  /\ matrix[r] = "raw" => Cardinality(ahead) = 1
                            /\ matrix[r] # "raw" => ahead = {}
      BY DEF RowsAccounted
    <2> DEFINE ahead == {t \in DOMAIN nextRow : r \in RowsAhead(t)}
    <2>1. ahead = {t \in 0 .. k - 1 : Ahead(t, r)}
      BY DEF RowInv, RowShape, RowsAhead, Ahead
    <2>2. ASSUME matrix[r] = "raw" PROVE Cardinality(ahead) = 1
      <3>1. PICK t \in 0 .. k - 1 : Ahead(t, r)
        BY <2>2 DEF RowInv, RawIsAhead
      <3>2. ahead = {t}
        BY <2>1, <3>1 DEF RowInv, OneAhead
      <3> HIDE DEF ahead
      <3> QED  BY <3>2, FS_Singleton
    <2>3. ASSUME matrix[r] # "raw" PROVE ahead = {}
      BY <2>1, <2>3 DEF RowInv, AheadIsRaw
    <2> QED  BY <2>2, <2>3
  <1> QED  BY <1>1, RowInvariant, PTL

\* What parallelSolution() returns is what defaultSolution() returns.
THEOREM MatrixIsReferenceHolds == RowSpec => []MatrixIsReference
  <1>1. RowInv => MatrixIsReference
    <2> SUFFICES ASSUME RowInv, RowsReturned PROVE matrix = DefaultMatrix
      BY DEF MatrixIsReference
    <2>1. \A t \in 0 .. k - 1 : nextRow[t] >= EndRow(t)
      BY DEF RowInv, JoinedAreDone, RowShape, RowsReturned
    <2>2. \A t \in 0 .. k - 1, r \in Rows : ~Ahead(t, r)
      <3> SUFFICES ASSUME NEW t \in 0 .. k - 1, NEW r \in Rows, Ahead(t, r) PROVE FALSE
        OBVIOUS
      <3>1. nextRow[t] \in Nat /\ r \in Nat
        BY DEF RowInv, RowShape
      <3>2. EndRow(t) \in Nat
        BY EndRowBounds DEF RowInv
      <3> QED  BY <2>1, <3>1, <3>2 DEF Ahead
    <2>3. \A r \in Rows : matrix[r] = "calculated"
      BY <2>2 DEF RowInv, RowShape, RawIsAhead
    <2> QED  BY <2>3 DEF RowInv, RowShape, DefaultMatrix, CalculatedRow
  <1> QED  BY <1>1, RowInvariant, PTL

-------------------------------------------------------------------------------
(* What the threads of Lab2 have counted and still will.                      *)

\* The elements before the one a worker record w of thread t is at, those its
\* updates of the count and of the minimum stand for, and those that they will
\* stand for once w is published.
HitsBefore(t, w) == {i \in Hits : ElemsStart(t, threadsNum, vec) <= i /\ i < w.i}
FullOf(t, w)     == IF Optimized THEN HitsBefore(t, w) ELSE HitsBefore(t, w) \cup {w.i}
CountedBy(t, w)  ==
    IF w.pc = "done" THEN HitsBefore(t, w)
    ELSE IF w.pc \in {"loadMin", "exchange"} THEN FullOf(t, w)
    ELSE IF Optimized THEN {} ELSE HitsBefore(t, w)
MinimisedBy(t, w) == IF w.pc = "done" \/ ~Optimized THEN HitsBefore(t, w) ELSE {}

Publishing == {"publish", "loadMin", "exchange"}

WorkerType ==
    [pc : {"scan", "publish", "loadMin", "exchange", "done"},
     i : 1 .. Len(vec) + 1,
     localCount : 0 .. Len(vec), currCount : 0 .. Len(vec),
     localMin : Int, currMin : Int]

\* What is known of one thread.
WorkerOK(t, w) ==
    /\ w \in WorkerType
    /\ ElemsStart(t, threadsNum, vec) <= w.i /\ w.i <= ElemsEnd(t) + 1
    /\ w.pc = "exchange" => w.localMin < w.currMin
    /\ w.pc = "done" => w.i = ElemsEnd(t) + 1
    /\ (Optimized /\ w.pc # "scan") => w.i = ElemsEnd(t) + 1
    /\ (Optimized /\ w.pc # "done") =>
          w.localCount = Cardinality(HitsBefore(t, w)) /\ IsMinOf(w.localMin, HitsBefore(t, w))
    /\ (~Optimized /\ w.pc = "scan") => w.localCount = 0
    /\ (~Optimized /\ w.pc \in Publishing) =>
          /\ w.i <= ElemsEnd(t) /\ Hit(w.i)
          /\ w.localCount = 1 /\ w.localMin = vec[w.i]

CallOK ==
    /\ vec \in Vectors /\ callNo \in Nat \ {0} /\ callNo <= Calls
    /\ created \in 0 .. threadsNum /\ joined \in 0 .. threadsNum

WorkersOK ==
    /\ worker \in [Threads -> WorkerType]
    /\ \A t \in Threads :
          /\ WorkerOK(t, worker[t])
          /\ t < joined => worker[t].pc = "done"
          /\ t >= created => worker[t].pc = "scan" /\ worker[t].localCount = 0

CountOK == count = Cardinality(UNION {CountedBy(t, worker[t]) : t \in Threads})

MinOK ==
    /\ min \in Int
    /\ \A t \in Threads : \A i \in MinimisedBy(t, worker[t]) : min <= vec[i]
    /\ min # INT_MAX => \E t \in Threads : \E i \in CountedBy(t, worker[t]) : min = vec[i]

ReductionInv == CallOK /\ WorkersOK /\ CountOK /\ MinOK

-------------------------------------------------------------------------------
(* The blocks.                                                                *)

\* The elements of a vector are integers below INT_MAX.
LEMMA VectorType ==
    ASSUME vec \in Vectors
    PROVE  /\ Len(vec) \in Nat /\ DOMAIN vec = 1 .. Len(vec)
           /\ \A i \in 1 .. Len(vec) : vec[i] \in Int /\ vec[i] < INT_MAX
           /\ INT_MAX \in Int
  <1>1. vec \in Seq(Int)
    BY ReductionAssumption
  <1> QED  BY <1>1, ReductionAssumption

\* A call has at least one thread.
LEMMA ThreadsNumOfCall ==
    ASSUME NEW c \in Nat \ {0}
    PROVE  ThreadsNumOf(c) \in Nat \ {0}
  <1>1. Len(ThreadsNums) \in Nat \ {0}
    BY ReductionAssumption
  <1>2. 1 + ((c - 1) % Len(ThreadsNums)) \in 1 .. Len(ThreadsNums)
    BY <1>1, ModIndex
  <1> QED  BY <1>2, ReductionAssumption DEF ThreadsNumOf

\* The block of a thread lies in the vector.
LEMMA BlockOfThread ==
    ASSUME CallOK, NEW t \in Threads
    PROVE  /\ threadsNum \in Nat \ {0} /\ t \in Nat
           /\ ElemsStart(t, threadsNum, vec) \in Nat \ {0} /\ ElemsEnd(t) \in Nat
           /\ ElemsStart(t, threadsNum, vec) <= ElemsEnd(t) + 1
           /\ ElemsEnd(t) <= Len(vec)
  <1>1. threadsNum \in Nat \ {0}
    BY ThreadsNumOfCall DEF CallOK, threadsNum
  <1>2. Len(vec) \in Nat
    BY VectorType DEF CallOK
  <1>3. t \in 0 .. threadsNum - 1
    BY DEF Threads
  <1>4. /\ FirstRow(t, threadsNum, Len(vec)) \in Nat
        /\ LastRow(t, threadsNum, Len(vec)) \in Nat
        /\ FirstRow(t, threadsNum, Len(vec)) <= LastRow(t, threadsNum, Len(vec))
        /\ LastRow(t, threadsNum, Len(vec)) <= Len(vec)
    BY <1>1, <1>2, <1>3, BlockBounds
  <1> QED  BY <1>1, <1>2, <1>3, <1>4 DEF ElemsStart, ElemsEnd

\* Two blocks have no element in common.
LEMMA BlocksOfThreads ==
    ASSUME CallOK, NEW t \in Threads, NEW u \in Threads, t # u
    PROVE  \/ ElemsEnd(t) < ElemsStart(u, threadsNum, vec)
           \/ ElemsEnd(u) < ElemsStart(t, threadsNum, vec)
  <1>1. threadsNum \in Nat \ {0}
    BY ThreadsNumOfCall DEF CallOK, threadsNum
  <1>2. Len(vec) \in Nat
    BY VectorType DEF CallOK
  <1>3. t \in 0 .. threadsNum - 1 /\ u \in 0 .. threadsNum - 1
    BY DEF Threads
  <1>4. ASSUME NEW a \in 0 .. threadsNum - 1, NEW b \in 0 .. threadsNum - 1, a < b
        PROVE  ElemsEnd(a) < ElemsStart(b, threadsNum, vec)
    <2>1. LastRow(a, threadsNum, Len(vec)) <= FirstRow(b, threadsNum, Len(vec))
      BY <1>1, <1>2, <1>4, BlocksAscend
    <2>2. LastRow(a, threadsNum, Len(vec)) \in Nat /\ FirstRow(b, threadsNum, Len(vec)) \in Nat
      BY <1>1, <1>2, <1>4, BlockBounds
    <2> QED  BY <2>1, <2>2 DEF ElemsStart, ElemsEnd
  <1>5. t < u \/ u < t
    BY <1>1, <1>3
  <1> QED  BY <1>3, <1>4, <1>5

\* Every element lies in a block.
LEMMA EveryElementHasThread ==
    ASSUME CallOK, NEW i \in DOMAIN vec
    PROVE  \E t \in Threads : ElemsStart(t, threadsNum, vec) <= i /\ i <= ElemsEnd(t)
  <1>1. threadsNum \in Nat \ {0}
    BY ThreadsNumOfCall DEF CallOK, threadsNum
  <1>2. Len(vec) \in Nat /\ i \in 1 .. Len(vec)
    BY VectorType DEF CallOK
  <1>3. PICK t \in 0 .. threadsNum - 1 :
           FirstRow(t, threadsNum, Len(vec)) <= i - 1 /\ i - 1 < LastRow(t, threadsNum, Len(vec))
    <2>1. i - 1 \in 0 .. Len(vec) - 1
      BY <1>2
    <2> QED  BY <1>1, <1>2, <2>1, BlocksCover
  <1>4. FirstRow(t, threadsNum, Len(vec)) \in Nat /\ LastRow(t, threadsNum, Len(vec)) \in Nat
    BY <1>1, <1>2, BlockBounds
  <1> QED  BY <1>2, <1>3, <1>4 DEF ElemsStart, ElemsEnd, Threads

\* What a thread counts are hits of its block.
LEMMA CountedInBlock ==
    ASSUME CallOK, NEW t \in Threads, NEW w, WorkerOK(t, w)
    PROVE  /\ \A i \in CountedBy(t, w) :
                 i \in Hits /\ ElemsStart(t, threadsNum, vec) <= i /\ i <= ElemsEnd(t)
           /\ Hits \subseteq 1 .. Len(vec)
           /\ IsFiniteSet(Hits)
           /\ IsFiniteSet(CountedBy(t, w))
           /\ IsFiniteSet(HitsBefore(t, w))
  <1>1. Len(vec) \in Nat /\ DOMAIN vec = 1 .. Len(vec)
    BY VectorType DEF CallOK
  <1>2. Hits \subseteq 1 .. Len(vec)
    BY <1>1 DEF Hits
  <1>3. IsFiniteSet(Hits)
    <2>1. IsFiniteSet(1 .. Len(vec))
      BY <1>1, FS_Interval, 1 \in Int, Len(vec) \in Int
    <2> QED  BY <1>2, <2>1, FS_Subset
  <1>4. ElemsStart(t, threadsNum, vec) \in Nat /\ ElemsEnd(t) \in Nat /\ ElemsEnd(t) <= Len(vec)
    BY BlockOfThread
  <1>5. w.i \in Nat /\ w.i <= ElemsEnd(t) + 1 /\ ElemsStart(t, threadsNum, vec) <= w.i
    BY <1>1 DEF WorkerOK, WorkerType
  <1>6. \A i \in HitsBefore(t, w) :
           i \in Hits /\ ElemsStart(t, threadsNum, vec) <= i /\ i <= ElemsEnd(t)
    BY <1>2, <1>4, <1>5 DEF HitsBefore
  <1>7. ASSUME ~Optimized, w.pc \in Publishing
        PROVE  w.i \in Hits /\ w.i <= ElemsEnd(t)
    <2>1. w.i <= ElemsEnd(t) /\ Hit(w.i)
      BY <1>7 DEF WorkerOK
    <2>2. w.i \in 1 .. Len(vec)
      BY <1>4, <1>5, <2>1, BlockOfThread
    <2> QED  BY <1>1, <2>1, <2>2 DEF Hits
  <1>8. \A i \in CountedBy(t, w) :
           i \in Hits /\ ElemsStart(t, threadsNum, vec) <= i /\ i <= ElemsEnd(t)
    BY <1>5, <1>6, <1>7 DEF CountedBy, FullOf, Publishing
  <1>9. CountedBy(t, w) \subseteq Hits /\ HitsBefore(t, w) \subseteq Hits
    BY <1>6, <1>8
  <1> QED  BY <1>2, <1>3, <1>8, <1>9, FS_Subset

(***************************************************************************)
(* Steps of threads.                                                        *)
(***************************************************************************)

\* Within a call what is known of a thread stays.
LEMMA SameCall ==
    ASSUME UNCHANGED call
    PROVE  /\ vec' = vec /\ callNo' = callNo /\ threadsNum' = threadsNum /\ Threads' = Threads
           /\ Hits' = Hits /\ WorkerType' = WorkerType
  <1>1. vec' = vec /\ callNo' = callNo
    BY DEF call
  <1>2. threadsNum' = threadsNum
    BY <1>1 DEF threadsNum
  <1>3. Hits' = Hits
    BY <1>1 DEF Hits, Hit
  <1> QED  BY <1>1, <1>2, <1>3 DEF Threads, WorkerType

\* So does what is said of a worker record.
LEMMA SameWorker ==
    ASSUME UNCHANGED call, NEW CONSTANT u, NEW CONSTANT v
    PROVE  /\ CountedBy(u, v)' = CountedBy(u, v)
           /\ MinimisedBy(u, v)' = MinimisedBy(u, v)
           /\ WorkerOK(u, v)' <=> WorkerOK(u, v)
  <1>1. /\ vec' = vec /\ callNo' = callNo /\ threadsNum' = threadsNum
        /\ Hits' = Hits /\ WorkerType' = WorkerType
    BY SameCall
  <1>2. HitsBefore(u, v)' = HitsBefore(u, v)
    BY <1>1 DEF HitsBefore
  <1>3. Optimized' <=> Optimized
    BY <1>1 DEF Optimized, syncType
  <1>4. ElemsEnd(u)' = ElemsEnd(u)
    BY <1>1 DEF ElemsEnd
  <1>5. FullOf(u, v)' = FullOf(u, v)
    BY <1>2, <1>3 DEF FullOf
  <1>6. CountedBy(u, v)' = CountedBy(u, v) /\ MinimisedBy(u, v)' = MinimisedBy(u, v)
    BY <1>2, <1>3, <1>5 DEF CountedBy, MinimisedBy
  <1>7. Hit(v.i)' <=> Hit(v.i)
    BY <1>1 DEF Hit
  <1>8. IsMinOf(v.localMin, HitsBefore(u, v))' <=> IsMinOf(v.localMin, HitsBefore(u, v))
    BY <1>1, <1>2 DEF IsMinOf
  <1>9. WorkerOK(u, v)' <=> WorkerOK(u, v)
    BY <1>1, <1>2, <1>3, <1>4, <1>7, <1>8 DEF WorkerOK
  <1> QED  BY <1>6, <1>9

\* The shared count and the shared minimum after a step of a thread.
Union == UNION {CountedBy(t, worker[t]) : t \in Threads}

\* What the threads have counted is a finite set of hits.
LEMMA UnionIsFinite ==
    ASSUME CallOK, WorkersOK
    PROVE  Union \subseteq Hits /\ IsFiniteSet(Union) /\ IsFiniteSet(Hits)
  <1>1. \A t \in Threads : CountedBy(t, worker[t]) \subseteq Hits
    BY CountedInBlock DEF WorkersOK
  <1>2. Union \subseteq Hits
    BY <1>1 DEF Union
  <1>3. ThreadsNumOf(callNo) \in Nat \ {0}
    BY ThreadsNumOfCall DEF CallOK
  <1>4. 0 \in Threads
    BY <1>3 DEF Threads, threadsNum
  <1>5. IsFiniteSet(Hits)
    BY <1>4, CountedInBlock DEF WorkersOK
  <1> QED  BY <1>2, <1>5, FS_Subset

\* There are at most as many hits as elements.
LEMMA HitsFit ==
    ASSUME CallOK, WorkersOK, NEW S \in SUBSET Hits
    PROVE  Cardinality(S) \in 0 .. Len(vec)
  <1>1. Len(vec) \in Nat /\ DOMAIN vec = 1 .. Len(vec)
    BY VectorType DEF CallOK
  <1>2. Hits \subseteq 1 .. Len(vec)
    BY <1>1 DEF Hits
  <1>3. IsFiniteSet(1 .. Len(vec)) /\ Cardinality(1 .. Len(vec)) = Len(vec)
    <2>1. Len(vec) \in Int /\ 1 \in Int
      BY <1>1
    <2>2. /\ IsFiniteSet(1 .. Len(vec))
          /\ Cardinality(1 .. Len(vec)) = IF 1 > Len(vec) THEN 0 ELSE Len(vec) - 1 + 1
      BY <2>1, FS_Interval
    <2> QED  BY <1>1, <2>2
  <1>4. S \in SUBSET (1 .. Len(vec))
    BY <1>2
  <1>5. IsFiniteSet(S) /\ Cardinality(S) <= Len(vec)
    BY <1>3, <1>4, FS_Subset
  <1>6. Cardinality(S) \in Nat
    BY <1>5, FS_CardinalityType
  <1> QED  BY <1>1, <1>5, <1>6

\* Thread t, which is running, comes to w, having counted what it now stands for.
Changes(t, w) ==
    /\ t < created /\ worker[t].pc # "done"
    /\ worker' = [worker EXCEPT ![t] = w]
    /\ UNCHANGED <<call, created, joined>>
    /\ WorkerOK(t, w)
    /\ CountedBy(t, worker[t]) \subseteq CountedBy(t, w)
    /\ count' = count + Cardinality(CountedBy(t, w) \ CountedBy(t, worker[t]))
    /\ min' \in Int /\ min' <= min
    /\ min' = min \/ min' = INT_MAX \/ \E i \in CountedBy(t, w) : min' = vec[i]
    /\ \A i \in MinimisedBy(t, w) : min' <= vec[i] \/ i \in MinimisedBy(t, worker[t])

\* Such a step keeps the invariant: what is counted anew is disjoint from what all
\* the threads had counted, so that the cardinalities add up.
LEMMA ThreadChange ==
    ASSUME ReductionInv, NEW CONSTANT t \in Threads, NEW CONSTANT w, Changes(t, w)
    PROVE  ReductionInv'
  <1>1. /\ CallOK /\ WorkersOK /\ CountOK /\ MinOK
    BY DEF ReductionInv
  <1>2. UNCHANGED call /\ created' = created /\ joined' = joined
    BY DEF Changes
  <1>3. /\ vec' = vec /\ callNo' = callNo /\ threadsNum' = threadsNum /\ Threads' = Threads
        /\ Hits' = Hits /\ WorkerType' = WorkerType
    BY <1>2, SameCall
  <1>4. CallOK'
    BY <1>1, <1>2, <1>3 DEF CallOK
  <1>5. worker \in [Threads -> WorkerType]
    BY <1>1 DEF WorkersOK
  <1>6. \A u \in Threads : worker'[u] = IF u = t THEN w ELSE worker[u]
    BY <1>5 DEF Changes
  <1>7. ASSUME NEW CONSTANT u \in Threads
        PROVE  /\ WorkerOK(u, worker[u])' <=> WorkerOK(u, worker'[u])
               /\ CountedBy(u, worker[u])' = CountedBy(u, worker'[u])
               /\ MinimisedBy(u, worker[u])' = MinimisedBy(u, worker'[u])
    <2>1. PICK v : v = worker'[u]
      OBVIOUS
    <2>2. /\ CountedBy(u, v)' = CountedBy(u, v)
          /\ MinimisedBy(u, v)' = MinimisedBy(u, v)
          /\ WorkerOK(u, v)' <=> WorkerOK(u, v)
      BY <1>2, SameWorker
    <2> QED  BY <2>1, <2>2
  <1>8. WorkersOK'
    <2>1. worker' \in [Threads -> WorkerType]
      BY <1>5 DEF Changes, WorkerOK
    <2>2. ASSUME NEW CONSTANT u \in Threads
          PROVE  /\ WorkerOK(u, worker[u])'
                 /\ u < joined => worker'[u].pc = "done"
                 /\ u >= created => worker'[u].pc = "scan" /\ worker'[u].localCount = 0
      <3>1. /\ WorkerOK(u, worker[u])
            /\ u < joined => worker[u].pc = "done"
            /\ u >= created => worker[u].pc = "scan" /\ worker[u].localCount = 0
        BY <1>1 DEF WorkersOK
      <3>2. CASE u = t
        <4>1. ~(u >= created) /\ ~(u < joined)
          <5>1. u \in Nat /\ created \in Nat
            BY <1>1, BlockOfThread DEF CallOK
          <5> QED  BY <3>1, <3>2, <5>1 DEF Changes
        <4> QED  BY <1>6, <1>7, <3>2, <4>1 DEF Changes
      <3>3. CASE u # t
        BY <1>6, <1>7, <3>1, <3>3
      <3> QED  BY <3>2, <3>3
    <2> QED  BY <1>2, <1>3, <2>1, <2>2 DEF WorkersOK
  <1> DEFINE C(u)  == CountedBy(u, worker[u])
             D     == CountedBy(t, w)
             fresh == D \ C(t)
  <1>9. Union' = Union \cup fresh
    <2>1. Union' = UNION {CountedBy(u, worker'[u]) : u \in Threads}
      BY <1>3, <1>7 DEF Union
    <2>2. C(t) \subseteq D
      BY DEF Changes
    <2> QED  BY <1>6, <2>1, <2>2 DEF Union
  <1>10. Union \cap fresh = {}
    <2> SUFFICES ASSUME NEW u \in Threads, NEW i \in C(u), i \in D, i \notin C(t) PROVE FALSE
      BY DEF Union
    <2>1. u # t
      OBVIOUS
    <2>2. i \in Hits /\ ElemsStart(u, threadsNum, vec) <= i /\ i <= ElemsEnd(u)
      BY <1>1, CountedInBlock DEF WorkersOK
    <2>3. i \in Hits /\ ElemsStart(t, threadsNum, vec) <= i /\ i <= ElemsEnd(t)
      BY <1>1, CountedInBlock DEF Changes
    <2>4. /\ ElemsStart(u, threadsNum, vec) \in Nat /\ ElemsEnd(u) \in Nat
          /\ ElemsStart(t, threadsNum, vec) \in Nat /\ ElemsEnd(t) \in Nat
      BY <1>1, BlockOfThread
    <2>5. i \in Nat
      BY <1>1, VectorType, <2>2 DEF Hits, CallOK
    <2>6. \/ ElemsEnd(t) < ElemsStart(u, threadsNum, vec)
          \/ ElemsEnd(u) < ElemsStart(t, threadsNum, vec)
      BY <1>1, <2>1, BlocksOfThreads
    <2> QED  BY <2>2, <2>3, <2>4, <2>5, <2>6
  <1>11. CountOK'
    <2>1. IsFiniteSet(Union)
      BY <1>1, UnionIsFinite
    <2>2. IsFiniteSet(D)
      BY <1>1, CountedInBlock DEF Changes
    <2>3. IsFiniteSet(fresh)
      BY <2>2, FS_Subset
    <2>4. Cardinality(Union \cup fresh)
             = Cardinality(Union) + Cardinality(fresh) - Cardinality({})
      <3> HIDE DEF fresh
      <3> QED  BY <1>10, <2>1, <2>3, FS_Union
    <2>5. Cardinality({}) = 0
      BY FS_EmptySet
    <2>6. Cardinality(Union) \in Nat /\ Cardinality(fresh) \in Nat
      BY <2>1, <2>3, FS_CardinalityType
    <2>7. count = Cardinality(Union) /\ count' = count + Cardinality(fresh)
      BY <1>1 DEF CountOK, Union, Changes
    <2>8. count' = Cardinality(Union')
      <3> HIDE DEF fresh
      <3> QED  BY <1>9, <2>4, <2>5, <2>6, <2>7
    <2> QED  BY <2>8 DEF CountOK, Union
  <1>12. MinOK'
    <2>1. min \in Int /\ min' \in Int /\ min' <= min
      BY <1>1 DEF MinOK, Changes
    <2>2. ASSUME NEW CONSTANT u \in Threads, NEW i \in MinimisedBy(u, worker'[u])
          PROVE  min' <= vec[i]
      <3>1. i \in Hits
        BY <1>3, <1>5, <1>7, <1>8, <2>2 DEF WorkersOK, MinimisedBy, HitsBefore
      <3>2. vec[i] \in Int
        BY <1>1, <3>1, VectorType DEF CallOK, Hits
      <3>3. ASSUME i \in MinimisedBy(u, worker[u]) PROVE min' <= vec[i]
        BY <1>1, <2>1, <3>2, <3>3 DEF MinOK
      <3> QED  BY <1>6, <2>2, <3>3 DEF Changes
    <2>3. ASSUME min' # INT_MAX
          PROVE  \E u \in Threads : \E i \in CountedBy(u, worker'[u]) : min' = vec[i]
      <3>1. CASE min' = min
        <4>1. PICK u \in Threads : \E i \in CountedBy(u, worker[u]) : min = vec[i]
          BY <1>1, <2>3, <3>1 DEF MinOK
        <4>2. CountedBy(u, worker[u]) \subseteq CountedBy(u, worker'[u])
          BY <1>6 DEF Changes
        <4> QED  BY <3>1, <4>1, <4>2
      <3>2. CASE min' # min
        BY <1>6, <2>3, <3>2 DEF Changes
      <3> QED  BY <3>1, <3>2
    <2> QED  BY <1>3, <1>7, <2>1, <2>2, <2>3 DEF MinOK
  <1> QED  BY <1>4, <1>8, <1>11, <1>12 DEF ReductionInv

-------------------------------------------------------------------------------
(* What the parts of the invariant say of one thread.                         *)

\* The types of what a thread works with, and the bounds of its index.
LEMMA ThreadFacts ==
    ASSUME CallOK, NEW t \in Threads, NEW w, WorkerOK(t, w)
    PROVE  /\ Len(vec) \in Nat /\ DOMAIN vec = 1 .. Len(vec) /\ INT_MAX \in Int
           /\ \A i \in 1 .. Len(vec) : vec[i] \in Int
           /\ ElemsStart(t, threadsNum, vec) \in Nat \ {0}
           /\ ElemsEnd(t) \in Nat /\ ElemsEnd(t) <= Len(vec)
           /\ w \in WorkerType /\ w.i \in Nat \ {0}
           /\ ElemsStart(t, threadsNum, vec) <= w.i /\ w.i <= ElemsEnd(t) + 1
           /\ Hits \subseteq 1 .. Len(vec)
           /\ IsFiniteSet(HitsBefore(t, w)) /\ HitsBefore(t, w) \subseteq Hits
           /\ w.i \notin HitsBefore(t, w)
  <1>1. /\ Len(vec) \in Nat /\ DOMAIN vec = 1 .. Len(vec) /\ INT_MAX \in Int
        /\ \A i \in 1 .. Len(vec) : vec[i] \in Int
    BY VectorType DEF CallOK
  <1>2. w \in WorkerType /\ ElemsStart(t, threadsNum, vec) <= w.i /\ w.i <= ElemsEnd(t) + 1
    BY DEF WorkerOK
  <1>3. w.i \in 1 .. Len(vec) + 1
    BY <1>2 DEF WorkerType
  <1>4. Hits \subseteq 1 .. Len(vec) /\ IsFiniteSet(HitsBefore(t, w))
    BY CountedInBlock
  <1>5. HitsBefore(t, w) \subseteq Hits
    BY DEF HitsBefore
  <1>6. w.i \notin HitsBefore(t, w)
    BY <1>1, <1>3 DEF HitsBefore
  <1> QED  BY <1>1, <1>2, <1>3, <1>4, <1>5, <1>6, BlockOfThread

\* One element further.
LEMMA HitsBeforeStep ==
    ASSUME CallOK, NEW t \in Threads, NEW w, WorkerOK(t, w), w.i <= ElemsEnd(t),
           NEW v, v.i = w.i + 1
    PROVE  HitsBefore(t, v) = IF Hit(w.i) THEN HitsBefore(t, w) \cup {w.i} ELSE HitsBefore(t, w)
  <1>1. /\ Len(vec) \in Nat /\ DOMAIN vec = 1 .. Len(vec)
        /\ ElemsStart(t, threadsNum, vec) \in Nat
        /\ ElemsEnd(t) \in Nat /\ ElemsEnd(t) <= Len(vec) /\ w.i \in Nat \ {0}
        /\ ElemsStart(t, threadsNum, vec) <= w.i
        /\ Hits \subseteq 1 .. Len(vec)
    BY ThreadFacts
  <1>2. w.i \in Hits <=> Hit(w.i)
    BY <1>1 DEF Hits
  <1>3. \A i \in Hits : i < v.i <=> i < w.i \/ i = w.i
    BY <1>1
  <1>4. CASE Hit(w.i)
    BY <1>1, <1>2, <1>3, <1>4 DEF HitsBefore
  <1>5. CASE ~Hit(w.i)
    BY <1>1, <1>2, <1>3, <1>5 DEF HitsBefore
  <1> QED  BY <1>4, <1>5

\* A step of a thread that touches neither the count nor the minimum.
LEMMA LocalChange ==
    ASSUME ReductionInv, NEW t \in Threads, NEW w,
           t < created, worker[t].pc # "done",
           worker' = [worker EXCEPT ![t] = w],
           UNCHANGED <<call, count, min, created, joined>>,
           WorkerOK(t, w),
           CountedBy(t, w) = CountedBy(t, worker[t]),
           \A i \in MinimisedBy(t, w) : min <= vec[i] \/ i \in MinimisedBy(t, worker[t])
    PROVE  Changes(t, w)
  <1>1. CountedBy(t, w) \ CountedBy(t, worker[t]) = {}
    OBVIOUS
  <1>2. Cardinality({}) = 0
    BY FS_EmptySet
  <1>3. Cardinality(Union) \in Nat /\ count = Cardinality(Union)
    BY UnionIsFinite, FS_CardinalityType DEF ReductionInv, CountOK, Union
  <1>4. count' = count + Cardinality(CountedBy(t, w) \ CountedBy(t, worker[t]))
    <2>1. count' = count /\ count \in Nat
      BY <1>3
    <2>2. Cardinality(CountedBy(t, w) \ CountedBy(t, worker[t])) = 0
      BY <1>1, <1>2
    <2> QED  BY <2>1, <2>2
  <1>5. min \in Int /\ min' = min
    BY DEF ReductionInv, MinOK
  <1>6. min' \in Int /\ min' <= min
    BY <1>5
  <1> QED  BY <1>4, <1>5, <1>6 DEF Changes

\* The count is a number of elements.
LEMMA CountFits ==
    ASSUME ReductionInv
    PROVE  count \in 0 .. Len(vec)
  BY UnionIsFinite, HitsFit DEF ReductionInv, CountOK, Union

\* What stands in a record that is being published, and what becomes of it.
LEMMA PublishedOK ==
    ASSUME CallOK, NEW t \in Threads, NEW w, WorkerOK(t, w), w.pc \in Publishing
    PROVE  /\ WorkerOK(t, Published(w))
           /\ CountedBy(t, Published(w)) = FullOf(t, w)
           /\ MinimisedBy(t, Published(w)) = FullOf(t, w)
           /\ w.localMin \in Int /\ w.localCount \in Nat
           /\ \A i \in FullOf(t, w) : w.localMin <= vec[i] \/ i \in MinimisedBy(t, w)
           /\ w.localMin # INT_MAX => \E i \in FullOf(t, w) : w.localMin = vec[i]
           /\ CountedBy(t, w) \subseteq FullOf(t, w)
           /\ w.pc = "publish" => Cardinality(FullOf(t, w) \ CountedBy(t, w)) = w.localCount
  <1> DEFINE p == Published(w)
  <1>1. /\ Len(vec) \in Nat /\ DOMAIN vec = 1 .. Len(vec) /\ INT_MAX \in Int
        /\ \A i \in 1 .. Len(vec) : vec[i] \in Int
        /\ ElemsStart(t, threadsNum, vec) \in Nat \ {0}
        /\ ElemsEnd(t) \in Nat /\ ElemsEnd(t) <= Len(vec)
        /\ w \in WorkerType /\ w.i \in Nat \ {0}
        /\ ElemsStart(t, threadsNum, vec) <= w.i /\ w.i <= ElemsEnd(t) + 1
        /\ Hits \subseteq 1 .. Len(vec)
        /\ w.i \notin HitsBefore(t, w)
    BY ThreadFacts
  <1>2. w.localMin \in Int /\ w.localCount \in Nat
    BY <1>1 DEF WorkerType
  <1>3. w.pc # "done" /\ w.pc # "scan"
    BY DEF Publishing
  <1>4. CASE Optimized
    <2>1. w.i = ElemsEnd(t) + 1 /\ w.localCount = Cardinality(HitsBefore(t, w))
          /\ IsMinOf(w.localMin, HitsBefore(t, w))
      BY <1>3, <1>4 DEF WorkerOK
    <2>2. p = [w EXCEPT !.pc = "done"]
      BY <1>4 DEF Published
    <2>3. p \in WorkerType /\ p.pc = "done" /\ p.i = w.i
      BY <1>1, <2>2 DEF WorkerType
    <2> HIDE DEF p
    <2>4. HitsBefore(t, p) = HitsBefore(t, w)
      BY <2>3 DEF HitsBefore
    <2>5. FullOf(t, w) = HitsBefore(t, w)
      BY <1>4 DEF FullOf
    <2>6. CountedBy(t, p) = HitsBefore(t, w) /\ MinimisedBy(t, p) = HitsBefore(t, w)
      BY <2>3, <2>4 DEF CountedBy, MinimisedBy
    <2>7. WorkerOK(t, p)
      BY <1>1, <1>4, <2>1, <2>3 DEF WorkerOK, Publishing
    <2>8. CountedBy(t, w) \subseteq HitsBefore(t, w)
      BY <1>3, <1>4, <2>5 DEF CountedBy
    <2>9. w.pc = "publish" => HitsBefore(t, w) \ CountedBy(t, w) = HitsBefore(t, w)
      BY <1>4 DEF CountedBy
    <2> QED  BY <1>2, <2>1, <2>5, <2>6, <2>7, <2>8, <2>9 DEF IsMinOf, p
  <1>5. CASE ~Optimized
    <2>1. w.i <= ElemsEnd(t) /\ Hit(w.i) /\ w.localCount = 1 /\ w.localMin = vec[w.i]
      BY <1>5 DEF WorkerOK
    <2>2. p = [w EXCEPT !.pc = "scan", !.i = @ + 1, !.localCount = 0, !.localMin = INT_MAX]
      BY <1>5 DEF Published
    <2>3. p.pc = "scan" /\ p.i = w.i + 1 /\ p.localCount = 0
      BY <1>1, <2>2 DEF WorkerType
    <2>4. p \in WorkerType
      <3>1. w.i + 1 \in 1 .. Len(vec) + 1 /\ 0 \in 0 .. Len(vec)
        BY <1>1, <2>1
      <3> QED  BY <1>1, <2>2, <3>1 DEF WorkerType
    <2> HIDE DEF p
    <2>5. HitsBefore(t, p) = HitsBefore(t, w) \cup {w.i}
      BY <2>1, <2>3, HitsBeforeStep
    <2>6. FullOf(t, w) = HitsBefore(t, w) \cup {w.i}
      BY <1>5 DEF FullOf
    <2>7. CountedBy(t, p) = FullOf(t, w) /\ MinimisedBy(t, p) = FullOf(t, w)
      BY <1>5, <2>3, <2>5, <2>6 DEF CountedBy, MinimisedBy
    <2>8. WorkerOK(t, p)
      BY <1>1, <1>5, <2>1, <2>3, <2>4 DEF WorkerOK, Publishing
    <2>9. CountedBy(t, w) \subseteq FullOf(t, w) /\ MinimisedBy(t, w) = HitsBefore(t, w)
      BY <1>3, <1>5, <2>6 DEF CountedBy, MinimisedBy
    <2>10. \A i \in FullOf(t, w) : w.localMin <= vec[i] \/ i \in MinimisedBy(t, w)
      <3>1. w.localMin <= vec[w.i]
        BY <1>2, <2>1
      <3> QED  BY <2>6, <2>9, <3>1
    <2>11. \E i \in FullOf(t, w) : w.localMin = vec[i]
      BY <2>1, <2>6
    <2>12. ASSUME w.pc = "publish"
           PROVE  Cardinality(FullOf(t, w) \ CountedBy(t, w)) = w.localCount
      <3>1. FullOf(t, w) \ CountedBy(t, w) = {w.i}
        BY <1>1, <1>5, <2>6, <2>12 DEF CountedBy
      <3> QED  BY <2>1, <3>1, FS_Singleton
    <2> QED  BY <1>2, <2>7, <2>8, <2>9, <2>10, <2>11, <2>12 DEF p
  <1> QED  BY <1>4, <1>5

\* A thread that begins to publish stands for the same elements as before.
LEMMA ToPublishOK ==
    ASSUME ReductionInv, NEW t \in Threads, HasToPublish(t)
    PROVE  /\ t < created /\ worker[t].pc = "scan"
           /\ WorkerOK(t, ToPublish(t)) /\ ToPublish(t).pc = "publish"
           /\ CountedBy(t, ToPublish(t)) = CountedBy(t, worker[t])
           /\ MinimisedBy(t, ToPublish(t)) = MinimisedBy(t, worker[t])
  <1> DEFINE w == worker[t]
             p == ToPublish(t)
  <1>1. CallOK /\ WorkerOK(t, w)
    BY DEF ReductionInv, WorkersOK
  <1>2. t < created /\ w.pc = "scan"
    BY DEF HasToPublish, InBlock, At
  <1>3. /\ Len(vec) \in Nat /\ DOMAIN vec = 1 .. Len(vec)
        /\ \A i \in 1 .. Len(vec) : vec[i] \in Int
        /\ ElemsStart(t, threadsNum, vec) \in Nat \ {0}
        /\ ElemsEnd(t) \in Nat /\ ElemsEnd(t) <= Len(vec)
        /\ w \in WorkerType /\ w.i \in Nat \ {0}
        /\ ElemsStart(t, threadsNum, vec) <= w.i /\ w.i <= ElemsEnd(t) + 1
    BY <1>1, ThreadFacts
  <1>4. CASE Optimized
    <2>1. w.i > ElemsEnd(t)
      BY <1>4 DEF HasToPublish
    <2>2. p = [w EXCEPT !.pc = "publish"]
      BY <1>4 DEF ToPublish
    <2> HIDE DEF w, p
    <2>3. /\ p \in WorkerType /\ p.pc = "publish" /\ p.i = w.i
          /\ p.localCount = w.localCount /\ p.localMin = w.localMin
      BY <1>3, <2>2 DEF WorkerType
    <2>4. HitsBefore(t, p) = HitsBefore(t, w)
      BY <2>3 DEF HitsBefore
    <2>5. w.i = ElemsEnd(t) + 1
      BY <1>3, <2>1
    <2>6. WorkerOK(t, p)
      <3>1. w.localCount = Cardinality(HitsBefore(t, w)) /\ IsMinOf(w.localMin, HitsBefore(t, w))
        BY <1>1, <1>2, <1>4 DEF WorkerOK
      <3> QED  BY <1>3, <1>4, <2>3, <2>4, <2>5, <3>1 DEF WorkerOK
    <2>7. CountedBy(t, p) = CountedBy(t, w) /\ MinimisedBy(t, p) = MinimisedBy(t, w)
      BY <1>2, <1>4, <2>3, <2>4 DEF CountedBy, MinimisedBy
    <2> QED  BY <1>2, <2>3, <2>6, <2>7 DEF w, p
  <1>5. CASE ~Optimized
    <2>1. w.i <= ElemsEnd(t) /\ Hit(w.i)
      BY <1>5 DEF HasToPublish, InBlock
    <2>2. p = [w EXCEPT !.pc = "publish", !.localCount = 1, !.localMin = vec[w.i]]
      BY <1>5 DEF ToPublish
    <2> HIDE DEF w, p
    <2>3. w.i \in 1 .. Len(vec) /\ 1 \in 0 .. Len(vec)
      BY <1>3, <2>1
    <2>4. p \in WorkerType
      BY <1>3, <2>2, <2>3 DEF WorkerType
    <2>5. /\ p.pc = "publish" /\ p.i = w.i
          /\ p.localCount = 1 /\ p.localMin = vec[w.i]
      BY <1>3, <2>2 DEF WorkerType
    <2>6. HitsBefore(t, p) = HitsBefore(t, w)
      BY <2>5 DEF HitsBefore
    <2>7. WorkerOK(t, p)
      BY <1>3, <1>5, <2>1, <2>4, <2>5 DEF WorkerOK
    <2>8. CountedBy(t, p) = CountedBy(t, w) /\ MinimisedBy(t, p) = MinimisedBy(t, w)
      BY <1>2, <1>5, <2>5, <2>6 DEF CountedBy, MinimisedBy
    <2> QED  BY <1>2, <2>5, <2>7, <2>8 DEF w, p
  <1> QED  BY <1>4, <1>5

-------------------------------------------------------------------------------
(* The steps.                                                                 *)

\* The thread of a step, as the other lemmas take it.
LEMMA Running ==
    ASSUME ReductionInv, NEW t \in Threads
    PROVE  /\ CallOK /\ WorkersOK /\ WorkerOK(t, worker[t])
           /\ worker \in [Threads -> WorkerType]
           /\ count \in 0 .. Len(vec) /\ count \in Nat /\ min \in Int
           /\ Len(vec) \in Nat /\ DOMAIN vec = 1 .. Len(vec) /\ INT_MAX \in Int
           /\ \A i \in 1 .. Len(vec) : vec[i] \in Int
           /\ ElemsStart(t, threadsNum, vec) \in Nat \ {0}
           /\ ElemsEnd(t) \in Nat /\ ElemsEnd(t) <= Len(vec)
           /\ worker[t] \in WorkerType /\ worker[t].i \in Nat \ {0}
           /\ ElemsStart(t, threadsNum, vec) <= worker[t].i /\ worker[t].i <= ElemsEnd(t) + 1
  <1>1. /\ CallOK /\ WorkersOK /\ WorkerOK(t, worker[t])
        /\ worker \in [Threads -> WorkerType] /\ min \in Int
    BY DEF ReductionInv, WorkersOK, MinOK
  <1>2. count \in 0 .. Len(vec)
    BY CountFits
  <1> QED  BY <1>1, <1>2, ThreadFacts

\* SkipElement: the element is not among those accounted for.
LEMMA SkipElementStep ==
    ASSUME ReductionInv, NEW t \in Threads, SkipElement(t)
    PROVE  \E w : Changes(t, w)
  <1> DEFINE w == worker[t]
             v == [w EXCEPT !.i = @ + 1]
  <1>1. /\ t < created /\ w.pc = "scan" /\ w.i <= ElemsEnd(t) /\ ~Hit(w.i)
        /\ UNCHANGED <<call, count, min, created, joined>>
    BY DEF SkipElement, InBlock, At
  <1>2. /\ CallOK /\ WorkerOK(t, w) /\ worker \in [Threads -> WorkerType]
        /\ Len(vec) \in Nat /\ ElemsStart(t, threadsNum, vec) \in Nat \ {0}
        /\ ElemsEnd(t) \in Nat /\ ElemsEnd(t) <= Len(vec)
        /\ w \in WorkerType /\ w.i \in Nat \ {0}
        /\ ElemsStart(t, threadsNum, vec) <= w.i
    BY Running
  <1>3. worker' = [worker EXCEPT ![t] = v]
    BY <1>2 DEF SkipElement
  <1>4. v \in WorkerType
    <2>1. w.i + 1 \in 1 .. Len(vec) + 1
      BY <1>1, <1>2
    <2> QED  BY <1>2, <2>1 DEF WorkerType
  <1>5. /\ v.pc = "scan" /\ v.i = w.i + 1
        /\ v.localCount = w.localCount /\ v.localMin = w.localMin
    BY <1>1, <1>2 DEF WorkerType
  <1> HIDE DEF w, v
  <1>6. HitsBefore(t, v) = HitsBefore(t, w)
    BY <1>1, <1>2, <1>5, HitsBeforeStep
  <1>7. WorkerOK(t, v)
    <2>1. Optimized => w.localCount = Cardinality(HitsBefore(t, w))
                       /\ IsMinOf(w.localMin, HitsBefore(t, w))
      BY <1>1, <1>2 DEF WorkerOK
    <2>2. ~Optimized => w.localCount = 0
      BY <1>1, <1>2 DEF WorkerOK
    <2>3. ElemsStart(t, threadsNum, vec) <= v.i /\ v.i <= ElemsEnd(t) + 1
      BY <1>1, <1>2, <1>5
    <2> QED  BY <1>4, <1>5, <1>6, <2>1, <2>2, <2>3 DEF WorkerOK, Publishing
  <1>8. CountedBy(t, v) = CountedBy(t, w) /\ MinimisedBy(t, v) = MinimisedBy(t, w)
    BY <1>1, <1>5, <1>6 DEF CountedBy, MinimisedBy
  <1>9. Changes(t, v)
    BY <1>1, <1>3, <1>7, <1>8, LocalChange DEF w
  <1> QED  BY <1>9

\* KeepLocally: one more hit is kept, nothing is counted yet.
LEMMA KeepLocallyStep ==
    ASSUME ReductionInv, NEW t \in Threads, KeepLocally(t)
    PROVE  \E w : Changes(t, w)
  <1> DEFINE w == worker[t]
             m == Lesser(vec[w.i], w.localMin)
             v == [w EXCEPT !.localCount = @ + 1, !.localMin = m, !.i = @ + 1]
  <1>1. /\ t < created /\ w.pc = "scan" /\ w.i <= ElemsEnd(t) /\ Hit(w.i) /\ Optimized
        /\ UNCHANGED <<call, count, min, created, joined>>
    BY DEF KeepLocally, InBlock, At
  <1>2. /\ CallOK /\ WorkersOK /\ WorkerOK(t, w) /\ worker \in [Threads -> WorkerType]
        /\ Len(vec) \in Nat /\ DOMAIN vec = 1 .. Len(vec)
        /\ \A i \in 1 .. Len(vec) : vec[i] \in Int
        /\ ElemsStart(t, threadsNum, vec) \in Nat \ {0}
        /\ ElemsEnd(t) \in Nat /\ ElemsEnd(t) <= Len(vec)
        /\ w \in WorkerType /\ w.i \in Nat \ {0}
        /\ ElemsStart(t, threadsNum, vec) <= w.i
    BY Running
  <1>3. worker' = [worker EXCEPT ![t] = v]
    BY <1>2 DEF KeepLocally
  <1>4. w.localCount \in Nat /\ w.localMin \in Int /\ w.i \in 1 .. Len(vec)
    BY <1>1, <1>2 DEF WorkerType
  <1>5. vec[w.i] \in Int
    BY <1>2, <1>4
  <1>6. m \in Int /\ m <= vec[w.i] /\ m <= w.localMin /\ (m = vec[w.i] \/ m = w.localMin)
    BY <1>4, <1>5 DEF Lesser
  <1>7. w.localCount = Cardinality(HitsBefore(t, w)) /\ IsMinOf(w.localMin, HitsBefore(t, w))
    BY <1>1, <1>2 DEF WorkerOK
  <1>8. /\ IsFiniteSet(HitsBefore(t, w)) /\ HitsBefore(t, w) \subseteq Hits
        /\ w.i \notin HitsBefore(t, w) /\ Hits \subseteq 1 .. Len(vec)
    BY <1>2, ThreadFacts
  <1> HIDE DEF m
  <1>9. /\ v.pc = "scan" /\ v.i = w.i + 1
        /\ v.localCount = w.localCount + 1 /\ v.localMin = m
    BY <1>1, <1>2 DEF WorkerType
  <1>10. HitsBefore(t, v) = HitsBefore(t, w) \cup {w.i}
    <2> HIDE DEF v
    <2> QED  BY <1>1, <1>2, <1>9, HitsBeforeStep
  <1>11. Cardinality(HitsBefore(t, v)) = w.localCount + 1
    BY <1>7, <1>8, <1>10, FS_AddElement
  <1>12. w.localCount + 1 \in 0 .. Len(vec)
    <2>1. HitsBefore(t, v) \in SUBSET Hits
      BY DEF HitsBefore
    <2>2. Cardinality(HitsBefore(t, v)) \in 0 .. Len(vec)
      BY <1>2, <2>1, HitsFit
    <2> QED  BY <1>11, <2>2
  <1>13. v \in WorkerType
    <2>1. w.i + 1 \in 1 .. Len(vec) + 1
      BY <1>1, <1>2
    <2> QED  BY <1>2, <1>6, <1>12, <2>1 DEF WorkerType
  <1> HIDE DEF v
  <1>14. IsMinOf(v.localMin, HitsBefore(t, v))
    <2>1. ASSUME NEW i \in HitsBefore(t, v) PROVE m <= vec[i]
      <3>1. CASE i = w.i
        BY <1>6, <3>1
      <3>2. CASE i # w.i
        <4>1. i \in HitsBefore(t, w)
          BY <1>10, <2>1, <3>2
        <4>2. vec[i] \in Int
          BY <1>2, <1>8, <4>1
        <4>3. w.localMin <= vec[i]
          BY <1>7, <4>1 DEF IsMinOf
        <4> QED  BY <1>4, <1>6, <4>2, <4>3
      <3> QED  BY <3>1, <3>2
    <2>2. m # INT_MAX => \E i \in HitsBefore(t, v) : m = vec[i]
      <3>1. CASE m = vec[w.i]
        BY <1>10, <3>1
      <3>2. CASE m = w.localMin
        BY <1>7, <1>10, <3>2 DEF IsMinOf
      <3> QED  BY <1>6, <3>1, <3>2
    <2> QED  BY <1>9, <2>1, <2>2 DEF IsMinOf
  <1>15. WorkerOK(t, v)
    <2>1. ElemsStart(t, threadsNum, vec) <= v.i /\ v.i <= ElemsEnd(t) + 1
      BY <1>1, <1>2, <1>9
    <2> QED  BY <1>1, <1>9, <1>11, <1>13, <1>14, <2>1 DEF WorkerOK
  <1>16. CountedBy(t, v) = CountedBy(t, w) /\ MinimisedBy(t, v) = MinimisedBy(t, w)
    BY <1>1, <1>9 DEF CountedBy, MinimisedBy
  <1>17. Changes(t, v)
    BY <1>1, <1>3, <1>15, <1>16, LocalChange
  <1> QED  BY <1>17

\* EndBlock: a thread with nothing to publish has seen no hit.
LEMMA EndBlockStep ==
    ASSUME ReductionInv, NEW t \in Threads, EndBlock(t)
    PROVE  \E w : Changes(t, w)
  <1> DEFINE w == worker[t]
             v == [w EXCEPT !.pc = "done"]
  <1>1. /\ t < created /\ w.pc = "scan" /\ w.i > ElemsEnd(t) /\ w.localCount = 0
        /\ UNCHANGED <<call, count, min, created, joined>>
    BY DEF EndBlock, At
  <1>2. /\ CallOK /\ WorkerOK(t, w) /\ worker \in [Threads -> WorkerType]
        /\ ElemsStart(t, threadsNum, vec) \in Nat \ {0} /\ ElemsEnd(t) \in Nat
        /\ w \in WorkerType /\ w.i \in Nat \ {0}
        /\ ElemsStart(t, threadsNum, vec) <= w.i /\ w.i <= ElemsEnd(t) + 1
    BY Running
  <1>3. worker' = [worker EXCEPT ![t] = v]
    BY <1>2 DEF EndBlock
  <1>4. v \in WorkerType /\ v.pc = "done" /\ v.i = w.i
    BY <1>2 DEF WorkerType
  <1> HIDE DEF w, v
  <1>5. v.i = ElemsEnd(t) + 1
    BY <1>1, <1>2, <1>4
  <1>6. HitsBefore(t, v) = HitsBefore(t, w)
    BY <1>4 DEF HitsBefore
  <1>7. ASSUME Optimized PROVE HitsBefore(t, w) = {}
    <2>1. Cardinality(HitsBefore(t, w)) = 0
      BY <1>1, <1>2, <1>7 DEF WorkerOK
    <2>2. IsFiniteSet(HitsBefore(t, w))
      BY <1>2, CountedInBlock
    <2> QED  BY <2>1, <2>2, FS_EmptySet
  <1>8. WorkerOK(t, v)
    BY <1>2, <1>4, <1>5 DEF WorkerOK, Publishing
  <1>9. CountedBy(t, v) = CountedBy(t, w) /\ MinimisedBy(t, v) = MinimisedBy(t, w)
    BY <1>1, <1>4, <1>6, <1>7 DEF CountedBy, MinimisedBy
  <1>10. Changes(t, v)
    BY <1>1, <1>3, <1>8, <1>9, LocalChange DEF w
  <1> QED  BY <1>10

\* A thread stays in its publishing loops with what it publishes.
LEMMA StillPublishing ==
    ASSUME NEW t \in Threads, NEW w, WorkerOK(t, w), w.pc \in Publishing,
           NEW v \in WorkerType, v.pc \in Publishing, v.i = w.i,
           v.localCount = w.localCount, v.localMin = w.localMin,
           v.pc = "exchange" => v.localMin < v.currMin
    PROVE  /\ WorkerOK(t, v) /\ FullOf(t, v) = FullOf(t, w)
           /\ MinimisedBy(t, v) = MinimisedBy(t, w)
           /\ v.pc \in {"loadMin", "exchange"} => CountedBy(t, v) = FullOf(t, w)
           /\ v.pc = w.pc => CountedBy(t, v) = CountedBy(t, w)
  <1>1. HitsBefore(t, v) = HitsBefore(t, w)
    BY DEF HitsBefore
  <1>2. w.pc # "scan" /\ w.pc # "done" /\ v.pc # "scan" /\ v.pc # "done"
    BY DEF Publishing
  <1>3. FullOf(t, v) = FullOf(t, w)
    BY <1>1 DEF FullOf
  <1>4. MinimisedBy(t, v) = MinimisedBy(t, w)
    BY <1>1, <1>2 DEF MinimisedBy
  <1>5. v.pc \in {"loadMin", "exchange"} => CountedBy(t, v) = FullOf(t, w)
    BY <1>2, <1>3 DEF CountedBy
  <1>6. v.pc = w.pc => CountedBy(t, v) = CountedBy(t, w)
    BY <1>1, <1>3 DEF CountedBy
  <1>7. WorkerOK(t, v)
    BY <1>1, <1>2 DEF WorkerOK
  <1> QED  BY <1>3, <1>4, <1>5, <1>6, <1>7

\* UpdateUnderMutex: what is published is counted and minimised at once.
LEMMA UpdateUnderMutexStep ==
    ASSUME ReductionInv, NEW t \in Threads, UpdateUnderMutex(t)
    PROVE  \E w : Changes(t, w)
  <1> DEFINE w == ToPublish(t)
             v == Published(w)
  <1>1. /\ count' = count + w.localCount /\ min' = Lesser(w.localMin, min)
        /\ worker' = [worker EXCEPT ![t] = v]
        /\ UNCHANGED <<call, created, joined>> /\ HasToPublish(t)
    BY DEF UpdateUnderMutex
  <1>2. /\ t < created /\ worker[t].pc = "scan"
        /\ WorkerOK(t, w) /\ w.pc = "publish"
        /\ CountedBy(t, w) = CountedBy(t, worker[t])
        /\ MinimisedBy(t, w) = MinimisedBy(t, worker[t])
    BY <1>1, ToPublishOK
  <1>3. CallOK /\ count \in Nat /\ min \in Int
    BY Running
  <1> HIDE DEF w
  <1>4. /\ WorkerOK(t, v)
        /\ CountedBy(t, v) = FullOf(t, w) /\ MinimisedBy(t, v) = FullOf(t, w)
        /\ w.localMin \in Int
        /\ \A i \in FullOf(t, w) : w.localMin <= vec[i] \/ i \in MinimisedBy(t, w)
        /\ w.localMin # INT_MAX => \E i \in FullOf(t, w) : w.localMin = vec[i]
        /\ CountedBy(t, w) \subseteq FullOf(t, w)
        /\ Cardinality(FullOf(t, w) \ CountedBy(t, w)) = w.localCount
    BY <1>2, <1>3, PublishedOK DEF Publishing
  <1> HIDE DEF v
  <1>5. min' \in Int /\ min' <= min /\ min' <= w.localMin /\ (min' = min \/ min' = w.localMin)
    BY <1>1, <1>3, <1>4 DEF Lesser
  <1>6. ASSUME NEW i \in FullOf(t, w)
        PROVE  min' <= vec[i] \/ i \in MinimisedBy(t, worker[t])
    <2>1. CASE w.localMin <= vec[i]
      <3>1. i \in Hits
        BY <1>3, <1>4, CountedInBlock
      <3>2. vec[i] \in Int
        BY <1>3, <3>1, VectorType DEF CallOK, Hits
      <3> QED  BY <1>4, <1>5, <2>1, <3>2
    <2>2. CASE i \in MinimisedBy(t, w)
      BY <1>2, <2>2
    <2> QED  BY <1>4, <2>1, <2>2
  <1>7. count' = count + Cardinality(CountedBy(t, v) \ CountedBy(t, worker[t]))
    BY <1>1, <1>2, <1>4
  <1>8. min' = min \/ min' = INT_MAX \/ \E i \in CountedBy(t, v) : min' = vec[i]
    BY <1>4, <1>5
  <1>9. Changes(t, v)
    BY <1>1, <1>2, <1>4, <1>5, <1>6, <1>7, <1>8 DEF Changes
  <1> QED  BY <1>9

\* LoadCount: the expected value is loaded.
LEMMA LoadCountStep ==
    ASSUME ReductionInv, NEW t \in Threads, LoadCount(t)
    PROVE  \E w : Changes(t, w)
  <1> DEFINE w == ToPublish(t)
             v == [w EXCEPT !.currCount = count]
  <1>1. /\ worker' = [worker EXCEPT ![t] = v]
        /\ UNCHANGED <<call, count, min, created, joined>> /\ HasToPublish(t)
    BY DEF LoadCount
  <1>2. /\ t < created /\ worker[t].pc = "scan"
        /\ WorkerOK(t, w) /\ w.pc = "publish"
        /\ CountedBy(t, w) = CountedBy(t, worker[t])
        /\ MinimisedBy(t, w) = MinimisedBy(t, worker[t])
    BY <1>1, ToPublishOK
  <1>3. count \in 0 .. Len(vec)
    BY Running
  <1> HIDE DEF w
  <1>4. w \in WorkerType
    BY <1>2 DEF WorkerOK
  <1>5. /\ v \in WorkerType /\ v.pc = "publish" /\ v.i = w.i
        /\ v.localCount = w.localCount /\ v.localMin = w.localMin
    BY <1>2, <1>3, <1>4 DEF WorkerType
  <1> HIDE DEF v
  <1>6. /\ WorkerOK(t, v) /\ CountedBy(t, v) = CountedBy(t, w)
        /\ MinimisedBy(t, v) = MinimisedBy(t, w)
    BY <1>2, <1>5, StillPublishing DEF Publishing
  <1>7. Changes(t, v)
    BY <1>1, <1>2, <1>6, LocalChange
  <1> QED  BY <1>7

\* ExchangeCount: it is still the value of the count, so nothing is overwritten.
LEMMA ExchangeCountStep ==
    ASSUME ReductionInv, NEW t \in Threads, ExchangeCount(t)
    PROVE  \E w : Changes(t, w)
  <1> DEFINE w == worker[t]
             v == [w EXCEPT !.pc = "loadMin"]
  <1>1. /\ t < created /\ w.pc = "publish" /\ count = w.currCount
        /\ count' = w.currCount + w.localCount
        /\ UNCHANGED <<call, min, created, joined>>
    BY DEF ExchangeCount, At
  <1>2. /\ CallOK /\ WorkerOK(t, w) /\ worker \in [Threads -> WorkerType]
        /\ w \in WorkerType /\ min \in Int
    BY Running
  <1>3. worker' = [worker EXCEPT ![t] = v]
    BY <1>2 DEF ExchangeCount
  <1>4. /\ v \in WorkerType /\ v.pc = "loadMin" /\ v.i = w.i
        /\ v.localCount = w.localCount /\ v.localMin = w.localMin
    BY <1>2 DEF WorkerType
  <1> HIDE DEF w, v
  <1>5. /\ WorkerOK(t, v) /\ CountedBy(t, v) = FullOf(t, w)
        /\ MinimisedBy(t, v) = MinimisedBy(t, w)
    BY <1>1, <1>2, <1>4, StillPublishing DEF Publishing
  <1>6. /\ CountedBy(t, w) \subseteq FullOf(t, w)
        /\ Cardinality(FullOf(t, w) \ CountedBy(t, w)) = w.localCount
    BY <1>1, <1>2, PublishedOK DEF Publishing
  <1>7. count' = count + Cardinality(CountedBy(t, v) \ CountedBy(t, w))
    BY <1>1, <1>5, <1>6
  <1>8. min' \in Int /\ min' <= min /\ min' = min
    BY <1>1, <1>2
  <1>9. Changes(t, v)
    BY <1>1, <1>3, <1>5, <1>6, <1>7, <1>8 DEF Changes, w
  <1> QED  BY <1>9

\* ReloadCount: another thread was faster; nothing is counted.
LEMMA ReloadCountStep ==
    ASSUME ReductionInv, NEW t \in Threads, ReloadCount(t)
    PROVE  \E w : Changes(t, w)
  <1> DEFINE w == worker[t]
             v == [w EXCEPT !.currCount = count]
  <1>1. /\ t < created /\ w.pc = "publish"
        /\ UNCHANGED <<call, count, min, created, joined>>
    BY DEF ReloadCount, At
  <1>2. /\ WorkerOK(t, w) /\ worker \in [Threads -> WorkerType]
        /\ w \in WorkerType /\ count \in 0 .. Len(vec)
    BY Running
  <1>3. worker' = [worker EXCEPT ![t] = v]
    BY <1>2 DEF ReloadCount
  <1>4. /\ v \in WorkerType /\ v.pc = "publish" /\ v.i = w.i
        /\ v.localCount = w.localCount /\ v.localMin = w.localMin
    BY <1>1, <1>2 DEF WorkerType
  <1> HIDE DEF w, v
  <1>5. /\ WorkerOK(t, v) /\ CountedBy(t, v) = CountedBy(t, w)
        /\ MinimisedBy(t, v) = MinimisedBy(t, w)
    BY <1>1, <1>2, <1>4, StillPublishing DEF Publishing
  <1>6. Changes(t, v)
    BY <1>1, <1>3, <1>5, LocalChange DEF w
  <1> QED  BY <1>6

\* LoadMin and ReloadMin: the loop is left only if the minimum is low enough.
LEMMA TestMinStep ==
    ASSUME ReductionInv, NEW t \in Threads, t < created,
           worker[t].pc \in {"loadMin", "exchange"}, TestMin(t),
           UNCHANGED <<call, count, min, created, joined>>
    PROVE  \E w : Changes(t, w)
  <1> DEFINE w == worker[t]
             e == [w EXCEPT !.pc = "exchange", !.currMin = min]
             p == Published(w)
  <1>1. /\ CallOK /\ WorkerOK(t, w) /\ worker \in [Threads -> WorkerType]
        /\ w \in WorkerType /\ min \in Int
    BY Running
  <1>2. w.pc \in Publishing /\ w.pc # "done" /\ w.localMin \in Int
    BY <1>1 DEF Publishing, WorkerType
  <1>3. CountedBy(t, w) = FullOf(t, w)
    BY <1>2 DEF CountedBy
  <1>4. CASE w.localMin < min
    <2>1. worker' = [worker EXCEPT ![t] = e]
      BY <1>1, <1>4 DEF TestMin
    <2>2. /\ e \in WorkerType /\ e.pc = "exchange" /\ e.i = w.i /\ e.currMin = min
          /\ e.localCount = w.localCount /\ e.localMin = w.localMin
      BY <1>1 DEF WorkerType
    <2> HIDE DEF w, e
    <2>3. /\ WorkerOK(t, e) /\ CountedBy(t, e) = FullOf(t, w)
          /\ MinimisedBy(t, e) = MinimisedBy(t, w)
      BY <1>1, <1>2, <1>4, <2>2, StillPublishing DEF Publishing
    <2>4. Changes(t, e)
      BY <1>2, <1>3, <2>1, <2>3, LocalChange DEF w
    <2> QED  BY <2>4
  <1>5. CASE ~(w.localMin < min)
    <2>1. worker' = [worker EXCEPT ![t] = p]
      BY <1>1, <1>5 DEF TestMin
    <2> HIDE DEF w
    <2>2. /\ WorkerOK(t, p)
          /\ CountedBy(t, p) = FullOf(t, w) /\ MinimisedBy(t, p) = FullOf(t, w)
          /\ \A i \in FullOf(t, w) : w.localMin <= vec[i] \/ i \in MinimisedBy(t, w)
      BY <1>1, <1>2, PublishedOK
    <2> HIDE DEF p
    <2>3. ASSUME NEW i \in FullOf(t, w)
          PROVE  min <= vec[i] \/ i \in MinimisedBy(t, w)
      <3>1. i \in Hits
        BY <1>1, <1>3, CountedInBlock
      <3>2. vec[i] \in Int
        BY <1>1, <3>1, VectorType DEF CallOK, Hits
      <3> QED  BY <1>1, <1>2, <1>5, <2>2, <3>2
    <2>4. Changes(t, p)
      BY <1>2, <1>3, <2>1, <2>2, <2>3, LocalChange DEF w
    <2> QED  BY <2>4
  <1> QED  BY <1>4, <1>5

\* ExchangeMin: the minimum is still the one that was found too high.
LEMMA ExchangeMinStep ==
    ASSUME ReductionInv, NEW t \in Threads, ExchangeMin(t)
    PROVE  \E w : Changes(t, w)
  <1> DEFINE w == worker[t]
             v == Published(w)
  <1>1. /\ t < created /\ w.pc = "exchange" /\ min = w.currMin /\ min' = w.localMin
        /\ UNCHANGED <<call, count, created, joined>>
    BY DEF ExchangeMin, At
  <1>2. /\ CallOK /\ WorkerOK(t, w) /\ worker \in [Threads -> WorkerType]
        /\ min \in Int /\ count \in Nat
    BY Running
  <1>3. worker' = [worker EXCEPT ![t] = v]
    BY <1>2 DEF ExchangeMin
  <1> HIDE DEF w
  <1>4. /\ WorkerOK(t, v)
        /\ CountedBy(t, v) = FullOf(t, w) /\ MinimisedBy(t, v) = FullOf(t, w)
        /\ w.localMin \in Int
        /\ \A i \in FullOf(t, w) : w.localMin <= vec[i] \/ i \in MinimisedBy(t, w)
        /\ w.localMin # INT_MAX => \E i \in FullOf(t, w) : w.localMin = vec[i]
    BY <1>1, <1>2, PublishedOK DEF Publishing
  <1> HIDE DEF v
  <1>5. CountedBy(t, w) = FullOf(t, w)
    BY <1>1 DEF CountedBy
  <1>6. w.localMin < w.currMin
    BY <1>1, <1>2 DEF WorkerOK
  <1>7. min' \in Int /\ min' <= min
    BY <1>1, <1>2, <1>4, <1>6
  <1>8. count' = count + Cardinality(CountedBy(t, v) \ CountedBy(t, w))
    <2>1. CountedBy(t, v) \ CountedBy(t, w) = {} /\ Cardinality({}) = 0
      BY <1>4, <1>5, FS_EmptySet
    <2>2. Cardinality(CountedBy(t, v) \ CountedBy(t, w)) = 0
      BY <2>1
    <2> QED  BY <1>1, <1>2, <2>2
  <1>9. \A i \in MinimisedBy(t, v) : min' <= vec[i] \/ i \in MinimisedBy(t, w)
    BY <1>1, <1>4
  <1>10. min' = min \/ min' = INT_MAX \/ \E i \in CountedBy(t, v) : min' = vec[i]
    BY <1>1, <1>4
  <1>11. CountedBy(t, w) \subseteq CountedBy(t, v) /\ w.pc # "done"
    BY <1>1, <1>4, <1>5
  <1>12. Changes(t, v)
    BY <1>1, <1>3, <1>4, <1>7, <1>8, <1>9, <1>10, <1>11 DEF Changes, w
  <1> QED  BY <1>12

\* Every step of a thread is one that accounts for what it does.
LEMMA ThreadStepChanges ==
    ASSUME ReductionInv, NEW t \in Threads, ThreadStep(t)
    PROVE  \E w : Changes(t, w)
  <1>1. CASE SkipElement(t)       BY <1>1, SkipElementStep
  <1>2. CASE KeepLocally(t)       BY <1>2, KeepLocallyStep
  <1>3. CASE EndBlock(t)          BY <1>3, EndBlockStep
  <1>4. CASE UpdateUnderMutex(t)  BY <1>4, UpdateUnderMutexStep
  <1>5. CASE LoadCount(t)         BY <1>5, LoadCountStep
  <1>6. CASE ExchangeCount(t)     BY <1>6, ExchangeCountStep
  <1>7. CASE ReloadCount(t)       BY <1>7, ReloadCountStep
  <1>8. CASE LoadMin(t)           BY <1>8, TestMinStep DEF LoadMin, At
  <1>9. CASE ExchangeMin(t)       BY <1>9, ExchangeMinStep
  <1>10. CASE ReloadMin(t)        BY <1>10, TestMinStep DEF ReloadMin, At
  <1> QED  BY <1>1, <1>2, <1>3, <1>4, <1>5, <1>6, <1>7, <1>8, <1>9, <1>10 DEF ThreadStep

-------------------------------------------------------------------------------
(* The calls, and the threads that are created and joined.                    *)

\* testSolutions() makes at least one call.
LEMMA AtLeastOneCall == Calls \in Nat \ {0}
  <1>1. Len(syncTypes) = 4
    BY DEF syncTypes
  <1>2. Len(ThreadsNums) \in Nat \ {0}
    BY ReductionAssumption
  <1> QED  BY <1>1, <1>2 DEF Calls

\* A call that has just begun.
Begun(c) ==
    /\ vec \in Vectors /\ callNo = c /\ count = 0 /\ min = INT_MAX
    /\ worker = NewWorkers(c) /\ created = 0 /\ joined = 0

\* The invariant holds when a call begins.
LEMMA BegunInv ==
    ASSUME NEW c \in Nat \ {0}, c <= Calls, Begun(c)
    PROVE  ReductionInv
  <1>1. /\ Len(vec) \in Nat /\ DOMAIN vec = 1 .. Len(vec) /\ INT_MAX \in Int
    BY VectorType DEF Begun
  <1>2. threadsNum = ThreadsNumOf(c) /\ threadsNum \in Nat \ {0}
    BY ThreadsNumOfCall DEF Begun, threadsNum
  <1>3. CallOK
    BY <1>2 DEF Begun, CallOK
  <1>4. worker = [t \in Threads |-> [pc |-> "scan", i |-> ElemsStart(t, threadsNum, vec),
                   localCount |-> 0, localMin |-> INT_MAX, currCount |-> 0, currMin |-> INT_MAX]]
    BY <1>2 DEF Begun, NewWorkers, Threads
  <1>5. ASSUME NEW t \in Threads
        PROVE  /\ WorkerOK(t, worker[t]) /\ worker[t].pc = "scan" /\ worker[t].localCount = 0
               /\ CountedBy(t, worker[t]) = {} /\ MinimisedBy(t, worker[t]) = {}
    <2> DEFINE w == worker[t]
    <2>1. /\ ElemsStart(t, threadsNum, vec) \in Nat \ {0} /\ ElemsEnd(t) \in Nat
          /\ ElemsStart(t, threadsNum, vec) <= ElemsEnd(t) + 1
          /\ ElemsEnd(t) <= Len(vec)
      BY <1>3, BlockOfThread
    <2>2. w = [pc |-> "scan", i |-> ElemsStart(t, threadsNum, vec),
               localCount |-> 0, localMin |-> INT_MAX, currCount |-> 0, currMin |-> INT_MAX]
      BY <1>4
    <2>3. w.pc = "scan" /\ w.i = ElemsStart(t, threadsNum, vec)
          /\ w.localCount = 0 /\ w.localMin = INT_MAX
      BY <2>2
    <2>4. w \in WorkerType
      <3>1. ElemsStart(t, threadsNum, vec) \in 1 .. Len(vec) + 1 /\ 0 \in 0 .. Len(vec)
        BY <1>1, <2>1
      <3> QED  BY <1>1, <2>2, <3>1 DEF WorkerType
    <2> HIDE DEF w
    <2>5. HitsBefore(t, w) = {}
      <3>1. \A i \in Hits : i \in Nat
        BY <1>1 DEF Hits
      <3> QED  BY <2>1, <2>3, <3>1 DEF HitsBefore
    <2>6. w.localCount = Cardinality(HitsBefore(t, w)) /\ IsMinOf(w.localMin, HitsBefore(t, w))
      BY <2>3, <2>5, FS_EmptySet DEF IsMinOf
    <2>7. WorkerOK(t, w)
      <3>1. ElemsStart(t, threadsNum, vec) <= w.i /\ w.i <= ElemsEnd(t) + 1
        BY <2>1, <2>3
      <3> QED  BY <2>3, <2>4, <2>6, <3>1 DEF WorkerOK, Publishing
    <2>8. CountedBy(t, w) = {} /\ MinimisedBy(t, w) = {}
      BY <2>3, <2>5 DEF CountedBy, MinimisedBy
    <2> QED  BY <2>3, <2>7, <2>8 DEF w
  <1>6. WorkersOK
    <2>1. worker \in [Threads -> WorkerType]
      BY <1>4, <1>5 DEF WorkerOK
    <2>2. \A t \in Threads : ~(t < joined)
      BY <1>2 DEF Begun, Threads
    <2> QED  BY <1>5, <2>1, <2>2 DEF WorkersOK
  <1>7. CountOK
    <2>1. UNION {CountedBy(t, worker[t]) : t \in Threads} = {}
      BY <1>5
    <2> QED  BY <2>1, FS_EmptySet DEF CountOK, Begun
  <1>8. MinOK
    BY <1>1, <1>5 DEF MinOK, Begun
  <1> QED  BY <1>3, <1>6, <1>7, <1>8 DEF ReductionInv

\* The same of the state after a step.
LEMMA BegunInvNext ==
    ASSUME NEW CONSTANT c \in Nat \ {0}, c <= Calls
    PROVE  Begun(c)' => ReductionInv'
  <1>1. Begun(c) => ReductionInv
    BY BegunInv
  <1> QED  BY <1>1, PTL

\* A thread is created or joined.
LEMMA CountersKeepInv ==
    ASSUME ReductionInv, UNCHANGED <<call, count, min, worker>>,
           created' \in 0 .. threadsNum, joined' \in 0 .. threadsNum, created <= created',
           \A t \in Threads : t < joined' => worker[t].pc = "done"
    PROVE  ReductionInv'
  <1>1. UNCHANGED call /\ worker' = worker /\ count' = count /\ min' = min
    OBVIOUS
  <1>2. /\ vec' = vec /\ callNo' = callNo /\ threadsNum' = threadsNum /\ Threads' = Threads
        /\ WorkerType' = WorkerType
    BY <1>1, SameCall
  <1>3. /\ CallOK /\ WorkersOK /\ CountOK /\ MinOK
    BY DEF ReductionInv
  <1>4. ASSUME NEW CONSTANT u \in Threads
        PROVE  /\ WorkerOK(u, worker[u])' <=> WorkerOK(u, worker[u])
               /\ CountedBy(u, worker[u])' = CountedBy(u, worker[u])
               /\ MinimisedBy(u, worker[u])' = MinimisedBy(u, worker[u])
    <2>1. PICK v : v = worker[u]
      OBVIOUS
    <2>2. /\ CountedBy(u, v)' = CountedBy(u, v)
          /\ MinimisedBy(u, v)' = MinimisedBy(u, v)
          /\ WorkerOK(u, v)' <=> WorkerOK(u, v)
      BY <1>1, SameWorker
    <2> QED  BY <1>1, <2>1, <2>2
  <1>5. CallOK'
    BY <1>2, <1>3 DEF CallOK
  <1>6. WorkersOK'
    <2>1. ASSUME NEW u \in Threads, u >= created' PROVE u >= created
      <3>1. u \in Nat /\ threadsNum \in Nat
        BY <1>3, BlockOfThread
      <3>2. created \in Nat /\ created' \in Nat
        BY <1>3, <3>1 DEF CallOK
      <3> QED  BY <2>1, <3>1, <3>2
    <2> QED  BY <1>1, <1>2, <1>3, <1>4, <2>1 DEF WorkersOK
  <1>7. CountOK'
    <2>1. Union' = UNION {CountedBy(u, worker[u]) : u \in Threads}
      BY <1>2, <1>4 DEF Union
    <2> QED  BY <1>1, <1>3, <2>1 DEF CountOK, Union
  <1>8. MinOK'
    BY <1>1, <1>2, <1>3, <1>4 DEF MinOK
  <1> QED  BY <1>5, <1>6, <1>7, <1>8 DEF ReductionInv

\* The invariant holds initially.
LEMMA ReductionInitInv == ReductionInit => ReductionInv
  <1> SUFFICES ASSUME ReductionInit PROVE ReductionInv
    OBVIOUS
  <1>1. Begun(1)
    BY DEF ReductionInit, Begun
  <1> QED  BY <1>1, BegunInv, AtLeastOneCall

\* Every step keeps the invariant.
LEMMA ReductionNextInv ==
    ASSUME ReductionInv, [ReductionNext]_vars
    PROVE  ReductionInv'
  <1>1. /\ threadsNum \in Nat \ {0} /\ created \in 0 .. threadsNum /\ joined \in 0 .. threadsNum
        /\ \A t \in Threads : t \in Nat /\ (t < joined => worker[t].pc = "done")
    <2>1. threadsNum \in Nat \ {0}
      BY ThreadsNumOfCall DEF ReductionInv, CallOK, threadsNum
    <2>2. created \in 0 .. threadsNum /\ joined \in 0 .. threadsNum
      BY DEF ReductionInv, CallOK
    <2>3. \A t \in Threads : t < joined => worker[t].pc = "done"
      BY DEF ReductionInv, WorkersOK
    <2> QED  BY <2>1, <2>2, <2>3 DEF Threads
  <1>2. CASE CreateThread
    <2>1. created' \in 0 .. threadsNum /\ created <= created'
      BY <1>1, <1>2 DEF CreateThread
    <2> QED  BY <1>1, <1>2, <2>1, CountersKeepInv DEF CreateThread
  <1>3. CASE JoinThread
    <2>1. joined' \in 0 .. threadsNum /\ created <= created' /\ created' = created
      BY <1>1, <1>3 DEF JoinThread
    <2>2. ASSUME NEW t \in Threads, t < joined' PROVE worker[t].pc = "done"
      <3>1. t < joined \/ t = joined
        BY <1>1, <1>3, <2>2 DEF JoinThread
      <3> QED  BY <1>1, <1>3, <3>1 DEF JoinThread
    <2> QED  BY <1>1, <1>3, <2>1, <2>2, CountersKeepInv DEF JoinThread
  <1>4. CASE NextCall
    <2>1. PICK c \in Nat \ {0} : c = callNo + 1 /\ c <= Calls
      BY <1>4, AtLeastOneCall DEF NextCall, ReductionInv, CallOK
    <2>2. vec' = vec /\ vec \in Vectors
      BY <1>4 DEF NextCall, ReductionInv, CallOK
    <2>3. NewWorkers(c)' = NewWorkers(c)
      BY <2>2 DEF NewWorkers
    <2>4. Begun(c)'
      BY <1>4, <2>1, <2>2, <2>3 DEF NextCall, Begun
    <2> QED  BY <2>1, <2>4, BegunInvNext
  <1>5. CASE \E t \in Threads : ThreadStep(t)
    <2>1. PICK t \in Threads : ThreadStep(t)
      BY <1>5
    <2>2. PICK w : Changes(t, w)
      BY <2>1, ThreadStepChanges
    <2> QED  BY <2>2, ThreadChange
  <1>6. CASE UNCHANGED vars
    <2>1. UNCHANGED <<call, count, min, worker>> /\ created' = created /\ joined' = joined
      BY <1>6 DEF vars, call
    <2>2. created <= created'
      BY <1>1, <2>1
    <2> QED  BY <1>1, <2>1, <2>2, CountersKeepInv
  <1> QED  BY <1>2, <1>3, <1>4, <1>5, <1>6 DEF ReductionNext

-------------------------------------------------------------------------------
(* The theorems.                                                              *)

\* The inductive invariant: what each thread's program counter and local
\* variables say about the part of its block it has been through, and what
\* count and minimum are in terms of all of them.
THEOREM ReductionInvariant == ReductionSpec => []ReductionInv
  <1> QED  BY ReductionInitInv, ReductionNextInv, PTL DEF ReductionSpec

\* Type correctness for every vector, list of thread counts and variant.
THEOREM ReductionTypeCorrect == ReductionSpec => []ReductionTypeOK
  <1>1. ReductionInv => ReductionTypeOK
    <2> SUFFICES ASSUME ReductionInv PROVE ReductionTypeOK
      OBVIOUS
    <2>1. callNo \in 1 .. Calls
      BY AtLeastOneCall DEF ReductionInv, CallOK
    <2>2. count \in 0 .. Len(vec)
      BY CountFits
    <2>3. min \in {vec[i] : i \in Hits} \cup {INT_MAX}
      BY UnionIsFinite DEF ReductionInv, MinOK, Union
    <2> QED  BY <2>1, <2>2, <2>3
             DEF ReductionTypeOK, ReductionInv, CallOK, WorkersOK, WorkerType
  <1> QED  BY <1>1, ReductionInvariant, PTL

\* What the properties call counted and minimised.
LEMMA AccountedOf ==
    ASSUME ReductionInv, NEW t \in Threads
    PROVE  /\ CountedOf(t) = CountedBy(t, worker[t])
           /\ MinimisedOf(t) = MinimisedBy(t, worker[t])
  <1>1. worker[t].pc \in {"scan", "publish", "loadMin", "exchange", "done"}
    BY DEF ReductionInv, WorkersOK, WorkerType
  <1>2. HitsOf(t) = HitsBefore(t, worker[t])
    BY DEF HitsOf, HitsBefore
  <1>3. HitsOf(t) \cup AtHit(t) = FullOf(t, worker[t])
    BY <1>2 DEF AtHit, FullOf
  <1> QED  BY <1>1, <1>2, <1>3 DEF CountedOf, CountedBy, MinimisedOf, MinimisedBy

\* No update of the count is lost, and none is made twice.
THEOREM CountAccountsHolds == ReductionSpec => []CountAccounts
  <1>1. ReductionInv => CountAccounts
    <2> SUFFICES ASSUME ReductionInv PROVE CountAccounts
      OBVIOUS
    <2>1. UNION {CountedOf(t) : t \in Threads} = Union
      BY AccountedOf DEF Union
    <2> QED  BY <2>1 DEF CountAccounts, ReductionInv, CountOK, Union
  <1> QED  BY <1>1, ReductionInvariant, PTL

\* The minimum is at most every hit whose thread is through with it.
THEOREM MinAccountsHolds == ReductionSpec => []MinAccounts
  <1>1. ReductionInv => MinAccounts
    BY AccountedOf DEF MinAccounts, ReductionInv, MinOK
  <1> QED  BY <1>1, ReductionInvariant, PTL

\* parallelSolution() returns what defaultSolution() returns: the blocks cover
\* the vector, and every thread that is joined has published its block.
THEOREM ResultIsReferenceHolds == ReductionSpec => []ResultIsReference
  <1>1. ReductionInv => ResultIsReference
    <2> SUFFICES ASSUME ReductionInv, Returned PROVE IsResCorrect
      BY DEF ResultIsReference
    <2>1. CallOK /\ WorkersOK /\ CountOK /\ MinOK
      BY DEF ReductionInv
    <2>2. ASSUME NEW t \in Threads
          PROVE  worker[t].pc = "done" /\ worker[t].i = ElemsEnd(t) + 1
      <3>1. t < joined
        BY <2>1, BlockOfThread DEF Returned, Threads
      <3> QED  BY <2>1, <3>1 DEF WorkersOK, WorkerOK
    <2>3. ASSUME NEW i \in Hits
          PROVE  \E t \in Threads : i \in HitsBefore(t, worker[t])
      <3>1. i \in DOMAIN vec /\ i \in Nat
        BY <2>1, VectorType DEF Hits, CallOK
      <3>2. PICK t \in Threads : ElemsStart(t, threadsNum, vec) <= i /\ i <= ElemsEnd(t)
        BY <2>1, <3>1, EveryElementHasThread
      <3>3. ElemsEnd(t) \in Nat
        BY <2>1, BlockOfThread
      <3>4. i < worker[t].i
        BY <2>2, <3>1, <3>2, <3>3
      <3> QED  BY <3>2, <3>4 DEF HitsBefore
    <2>4. \A t \in Threads : CountedBy(t, worker[t]) = HitsBefore(t, worker[t])
                            /\ MinimisedBy(t, worker[t]) = HitsBefore(t, worker[t])
      BY <2>2 DEF CountedBy, MinimisedBy
    <2>5. Union = Hits
      BY <2>1, <2>3, <2>4, UnionIsFinite DEF Union
    <2>6. count = Cardinality(Hits)
      BY <2>1, <2>5 DEF CountOK, Union
    <2>7. IsMinOf(min, Hits)
      BY <2>1, <2>3, <2>4, <2>5 DEF MinOK, IsMinOf, Union
    <2> QED  BY <2>6, <2>7 DEF IsResCorrect, DefaultResult
  <1> QED  BY <1>1, ReductionInvariant, PTL

\* Within a call the minimum never rises and the count never falls.
THEOREM NeverWorseHolds == ReductionSpec => NeverWorse
  <1>1. ASSUME ReductionInv, [ReductionNext]_vars
        PROVE  [callNo' = callNo => min' <= min /\ count' >= count]_vars
    <2>1. min \in Int /\ count \in Nat
      <3>1. Len(vec) \in Nat
        BY <1>1, VectorType DEF ReductionInv, CallOK
      <3> QED  BY <1>1, <3>1, CountFits DEF ReductionInv, MinOK
    <2>2. CASE CreateThread \/ JoinThread
      BY <2>1, <2>2 DEF CreateThread, JoinThread
    <2>3. CASE NextCall
      BY <1>1, <2>3 DEF NextCall, ReductionInv, CallOK
    <2>4. CASE \E t \in Threads : ThreadStep(t)
      <3>1. PICK t \in Threads : ThreadStep(t)
        BY <2>4
      <3>2. PICK w : Changes(t, w)
        BY <1>1, <3>1, ThreadStepChanges
      <3>3. min' <= min
            /\ count' = count + Cardinality(CountedBy(t, w) \ CountedBy(t, worker[t]))
        BY <3>2 DEF Changes
      <3>4. IsFiniteSet(CountedBy(t, w) \ CountedBy(t, worker[t]))
        <4>1. IsFiniteSet(CountedBy(t, w))
          BY <1>1, <3>2, CountedInBlock DEF Changes, ReductionInv
        <4> QED  BY <4>1, FS_Subset
      <3>5. Cardinality(CountedBy(t, w) \ CountedBy(t, worker[t])) \in Nat
        BY <3>4, FS_CardinalityType
      <3>6. count' >= count
        BY <2>1, <3>3, <3>5
      <3> QED  BY <3>3, <3>6
    <2> QED  BY <1>1, <2>2, <2>3, <2>4 DEF ReductionNext
  <1> QED  BY <1>1, ReductionInvariant, PTL DEF ReductionSpec, NeverWorse

-------------------------------------------------------------------------------
(* Both programs, as the run of MCForkJoin checks them.                       *)

\* The composition is both specifications at once: a step of one program leaves the
\* variables of the other as they are, and every instance of the run is one of Lab1
\* and one of Lab2.  What is proved of RowSpec and of ReductionSpec is so proved of
\* the specification that the run checks.
THEOREM ForkJoinIsBoth == MCSpec => RowSpec /\ ReductionSpec
  <1>1. MCSpec => MCInit /\ [][MCNext]_allVars
    BY PTL DEF MCSpec
  <1>2. MCInit => RowInit /\ ReductionInit
    BY DEF MCInit
  <1>3. [MCNext]_allVars => [RowNext]_rowVars /\ [ReductionNext]_vars
    <2>1. UNCHANGED allVars => UNCHANGED rowVars /\ UNCHANGED vars
      BY DEF allVars
    <2>2. MCNext => \/ RowNext /\ UNCHANGED vars
                    \/ ReductionNext /\ UNCHANGED rowVars
      BY DEF MCNext
    <2> QED  BY <2>1, <2>2
  <1> QED  BY <1>1, <1>2, <1>3, PTL DEF RowSpec, ReductionSpec

\* The types of both programs.
THEOREM ForkJoinTypeCorrect == MCSpec => []ForkJoinTypeOK
  <1>1. RowTypeOK /\ ReductionTypeOK => ForkJoinTypeOK
    BY DEF ForkJoinTypeOK
  <1> QED  BY <1>1, ForkJoinIsBoth, RowTypeCorrect, ReductionTypeCorrect, PTL

\* What a call of parallelSolution() returns is what defaultSolution() returns, in
\* Lab1 for both distributions and in Lab2 for all four variants.
THEOREM ForkJoinCorrect == MCSpec => [](MatrixIsReference /\ ResultIsReference)
  <1> QED  BY ForkJoinIsBoth, MatrixIsReferenceHolds, ResultIsReferenceHolds, PTL
================================================================================
