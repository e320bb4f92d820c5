--------------------------- MODULE RowPartitionProofs ---------------------------
(* The blocks of RowPartition partition the rows, for every number of rows and  *)
(* of threads, and so do the strides of Lab1: facts about quotients and          *)
(* remainders for the proofs of Lab1 and Lab2.                                  *)
EXTENDS RowPartition, TLAPS

\* Products by the same number are ordered as the numbers are.
LEMMA ProductMonotone ==
    ASSUME NEW a \in Nat, NEW b \in Nat, NEW p \in Nat, a <= b
    PROVE  a * p \in Nat /\ a * p <= b * p
  OBVIOUS

\* An integer quotient, as a multiple of the divisor next below the dividend.
LEMMA QuotientBounds ==
    ASSUME NEW r \in Nat, NEW p \in Nat \ {0}
    PROVE  /\ r \div p \in Nat
           /\ (r \div p) * p <= r
           /\ r < (r \div p) * p + p
  OBVIOUS

\* A block is a range of rows.
LEMMA BlockBounds ==
    ASSUME NEW m \in Nat, NEW n \in Nat \ {0}, NEW t \in 0 .. n - 1
    PROVE  /\ RowsPerThread(n, m) \in Nat
           /\ FirstRow(t, n, m) \in Nat /\ LastRow(t, n, m) \in Nat
           /\ FirstRow(t, n, m) <= LastRow(t, n, m)
           /\ LastRow(t, n, m) <= m
  <1> DEFINE p == RowsPerThread(n, m)
  <1>1. p \in Nat /\ p * n <= m
    <2>1. m \div n \in Nat /\ (m \div n) * n <= m
      BY QuotientBounds
    <2> QED  BY <2>1 DEF RowsPerThread
  <1> HIDE DEF p
  <1>2. t \in Nat /\ t + 1 \in Nat /\ n \in Nat /\ t <= n /\ t + 1 <= n
    OBVIOUS
  <1>3. t * p \in Nat /\ t * p <= n * p
    BY <1>1, <1>2, ProductMonotone
  <1>4. (t + 1) * p <= n * p
    BY <1>1, <1>2, ProductMonotone
  <1>5. n * p <= m /\ (t + 1) * p = t * p + p
    BY <1>1, <1>2
  <1>6. FirstRow(t, n, m) = t * p
    BY DEF FirstRow, p
  <1>7. LastRow(t, n, m) = IF t = n - 1 THEN m ELSE t * p + p
    BY <1>6 DEF LastRow, p
  <1> QED  BY <1>1, <1>3, <1>4, <1>5, <1>6, <1>7 DEF p

\* Blocks lie one behind the other.
LEMMA BlocksAscend ==
    ASSUME NEW m \in Nat, NEW n \in Nat \ {0}, NEW t \in 0 .. n - 1, NEW u \in 0 .. n - 1,
           t < u
    PROVE  LastRow(t, n, m) <= FirstRow(u, n, m)
  <1> DEFINE p == RowsPerThread(n, m)
  <1>1. p \in Nat
    BY BlockBounds
  <1> HIDE DEF p
  <1>2. (t + 1) * p <= u * p
    BY <1>1, ProductMonotone, t + 1 \in Nat, u \in Nat, t + 1 <= u
  <1>3. (t + 1) * p = t * p + p /\ t # n - 1
    BY <1>1
  <1>4. LastRow(t, n, m) = t * p + p /\ FirstRow(u, n, m) = u * p
    BY <1>3 DEF LastRow, FirstRow, p
  <1> QED  BY <1>2, <1>3, <1>4

\* Every row lies in a block.
LEMMA BlocksCover ==
    ASSUME NEW m \in Nat, NEW n \in Nat \ {0}, NEW r \in 0 .. m - 1
    PROVE  \E t \in 0 .. n - 1 : FirstRow(t, n, m) <= r /\ r < LastRow(t, n, m)
  <1> DEFINE p == RowsPerThread(n, m)
             last == n - 1
  <1>1. p \in Nat
    BY BlockBounds, 0 \in 0 .. n - 1
  <1>2. CASE FirstRow(last, n, m) <= r
    BY <1>2 DEF LastRow
  <1>3. CASE ~(FirstRow(last, n, m) <= r)
    <2>1. last * p \in Nat /\ r < last * p
      BY <1>1, <1>3, BlockBounds, last \in 0 .. n - 1 DEF FirstRow
    <2>2. p # 0
      BY <2>1
    <2> DEFINE t == r \div p
    <2>3. t \in Nat /\ t * p <= r /\ r < t * p + p
      BY <1>1, <2>2, QuotientBounds, r \in Nat
    <2> HIDE DEF t, p
    <2>4. t < last
      <3> SUFFICES ASSUME last <= t PROVE FALSE
        BY <2>3
      <3>1. last * p <= t * p
        BY <1>1, <2>3, ProductMonotone, last \in Nat
      <3> QED  BY <1>1, <2>1, <2>3, <3>1
    <2>5. t \in 0 .. n - 1 /\ t # n - 1
      BY <2>3, <2>4
    <2>6. FirstRow(t, n, m) = t * p /\ LastRow(t, n, m) = t * p + p
      BY <2>5 DEF FirstRow, LastRow, p
    <2> QED  BY <2>3, <2>5, <2>6
  <1> QED  BY <1>2, <1>3

\* Quotient and remainder.
LEMMA Division ==
    ASSUME NEW x \in Nat, NEW n \in Nat \ {0}
    PROVE  \E d \in Nat, e \in 0 .. n - 1 :
              d = x \div n /\ e = x % n /\ d * n \in Nat /\ x = d * n + e
  <1> DEFINE d == x \div n
             e == x % n
  <1>1. d \in Nat /\ e \in 0 .. n - 1 /\ x = d * n + e
    OBVIOUS
  <1>2. d * n \in Nat
    BY <1>1, ProductMonotone, d <= d
  <1> QED  BY <1>1, <1>2

\* The one multiple of n between 0 and n - 1 is 0.
LEMMA NoSmallMultiple ==
    ASSUME NEW d \in Int, NEW n \in Nat \ {0}, 0 <= d * n, d * n < n
    PROVE  d = 0
  OBVIOUS

\* The remainder is 0 for the multiples, and for them only.
LEMMA Multiples ==
    ASSUME NEW x \in Nat, NEW n \in Nat \ {0}
    PROVE  x % n = 0 <=> \E q \in Nat : x = q * n
  <1>1. PICK d \in Nat, e \in 0 .. n - 1 :
            d = x \div n /\ e = x % n /\ d * n \in Nat /\ x = d * n + e
    BY Division, Zenon
  <1>2. ASSUME x % n = 0 PROVE \E q \in Nat : x = q * n
    <2> DEFINE p == d * n
    <2>1. p \in Nat /\ x = p + 0
      BY <1>1, <1>2, Zenon
    <2> HIDE DEF p
    <2>2. x = p
      BY <2>1
    <2> QED  BY <2>2, Zenon DEF p
  <1>3. ASSUME NEW q \in Nat, x = q * n PROVE x % n = 0
    <2>1. (q - d) * n = q * n - d * n /\ q - d \in Int
      OBVIOUS
    <2>2. q * n - d * n = e
      <3> DEFINE a == q * n
                 b == d * n
      <3>1. a = b + e /\ b \in Nat
        BY <1>1, <1>3
      <3> HIDE DEF a, b
      <3>2. a - b = e
        BY <3>1
      <3> QED  BY <3>2 DEF a, b
    <2>3. q - d = 0
      BY <2>1, <2>2, NoSmallMultiple
    <2> QED  BY <1>1, <2>1, <2>2, <2>3
  <1> QED  BY <1>2, <1>3

\* A multiple of s other than 0 is s above another one.
LEMMA StepUp ==
    ASSUME NEW x \in Nat, NEW s \in Nat \ {0}, x % s = 0, x # 0
    PROVE  x >= s /\ (x - s) % s = 0
  <1>1. PICK q \in Nat : x = q * s
    BY Multiples
  <1>2. q # 0
    BY <1>1
  <1>3. q - 1 \in Nat /\ (q - 1) * s = x - s /\ (q - 1) * s \in Nat
    BY <1>1, <1>2, ProductMonotone
  <1> DEFINE y == x - s
  <1>4. y \in Nat /\ \E p \in Nat : y = p * s
    BY <1>3
  <1>5. y % s = 0
    <2> HIDE DEF y
    <2> QED  BY <1>4, Multiples
  <1> QED  BY <1>4, <1>5

\* What is s above a multiple of s is one, too.
LEMMA StepDown ==
    ASSUME NEW x \in Nat, NEW s \in Nat \ {0}, x >= s, (x - s) % s = 0
    PROVE  x % s = 0
  <1>1. PICK q \in Nat : x - s = q * s
    BY Multiples, x - s \in Nat
  <1>3. (q + 1) * s = x
    BY <1>1
  <1> QED  BY <1>3, Multiples, q + 1 \in Nat

\* A row is in the stride of at most one of n threads that start at their number.
LEMMA ModUnique ==
    ASSUME NEW r \in Nat, NEW n \in Nat \ {0}, NEW t \in 0 .. n - 1, NEW u \in 0 .. n - 1,
           t <= r, u <= r, (r - t) % n = 0, (r - u) % n = 0
    PROVE  t = u
  <1>1. PICK p \in Nat : r - t = p * n
    BY Multiples, r - t \in Nat
  <1>2. PICK q \in Nat : r - u = q * n
    BY Multiples, r - u \in Nat
  <1>3. (p - q) * n = u - t /\ (q - p) * n = t - u
    BY <1>1, <1>2
  <1>4. p - q \in Int /\ q - p \in Int
    OBVIOUS
  <1>5. CASE t <= u
    BY <1>3, <1>4, <1>5, NoSmallMultiple, 0 <= u - t, u - t < n
  <1>6. CASE u <= t
    BY <1>3, <1>4, <1>6, NoSmallMultiple, 0 <= t - u, t - u < n
  <1> QED  BY <1>5, <1>6

\* A row is in the stride of the thread that is its remainder.
LEMMA ModOwner ==
    ASSUME NEW r \in Nat, NEW n \in Nat \ {0}
    PROVE  r % n \in 0 .. n - 1 /\ r % n <= r /\ (r - (r % n)) % n = 0
  <1>1. PICK d \in Nat, e \in 0 .. n - 1 :
            d = r \div n /\ e = r % n /\ d * n \in Nat /\ r = d * n + e
    BY Division, Zenon
  <1>2. r - e \in Nat /\ r - e = d * n
    BY <1>1
  <1>3. (r - e) % n = 0
    BY <1>2, Multiples
  <1> QED  BY <1>1, <1>2, <1>3

\* An index that wraps stays in the list.
LEMMA ModIndex ==
    ASSUME NEW c \in Nat \ {0}, NEW n \in Nat \ {0}
    PROVE  1 + ((c - 1) % n) \in 1 .. n
  OBVIOUS

\* A loop with step 1 comes to every row.
LEMMA ModOne ==
    ASSUME NEW x \in Nat
    PROVE  x % 1 = 0
  OBVIOUS
================================================================================
