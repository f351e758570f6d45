------------------------- MODULE ScatterRangeProofs -------------------------
(***************************************************************************)
(* The chunks of a scatter partition the request, for every request whose  *)
(* span is an int, every number of workers and every width of int.         *)
(*                                                                         *)
(* The invariant is about the values before the loop ends: the cursor of   *)
(* round i is start + i * chunk_size, which lies between start and end, so *)
(* no sum of the loop wraps around.  In a wider request the sums do wrap   *)
(* around, and the cursor is the same value up to a multiple of the width. *)
(***************************************************************************)
EXTENDS ScatterRange, TLAPS

\* Division by the number of workers: what chunk_size and remainder are.
LEMMA Division ==
  ASSUME NEW a \in Nat, NEW n \in Nat \ {0}
  PROVE  /\ Quotient(a, n) \in Nat
         /\ Remainder(a, n) \in 0 .. n - 1
         /\ a = n * Quotient(a, n) + Remainder(a, n)
         /\ Quotient(a, n) + Remainder(a, n) <= a
  <1>1. a \div n \in Nat /\ a % n \in 0 .. n - 1 /\ a = (n * (a \div n)) + (a % n)
    OBVIOUS
  <1>2. Quotient(a, n) = a \div n
    BY DEF Quotient
  <1>3. Remainder(a, n) = a % n
    BY <1>1, <1>2 DEF Remainder
  <1>4. (n - 1) * (a \div n) \in Nat /\ n * (a \div n) = (n - 1) * (a \div n) + (a \div n)
    BY <1>1
  <1>. QED  BY <1>1, <1>2, <1>3, <1>4

\* The same for a negative span, where C mirrors the positive case.
LEMMA NegativeDivision ==
  ASSUME NEW a \in Int, a < 0, NEW n \in Nat \ {0}
  PROVE  /\ Quotient(a, n) = -Quotient(-a, n)
         /\ Remainder(a, n) = -Remainder(-a, n)
  <1>1. -a \in Nat /\ -a >= 0
    OBVIOUS
  <1>2. Quotient(a, n) = -((-a) \div n) /\ Quotient(-a, n) = (-a) \div n
    BY <1>1 DEF Quotient
  <1>3. (-a) \div n \in Nat
    BY <1>1
  <1>4. n * (-((-a) \div n)) = -(n * ((-a) \div n))
    BY <1>3
  <1>. QED  BY <1>2, <1>3, <1>4 DEF Remainder

\* One more round, and no more rounds than workers.
LEMMA Rounds ==
  ASSUME NEW c \in Nat, NEW n \in Nat, NEW k \in 0 .. n
  PROVE  /\ k * c \in Nat
         /\ (k + 1) * c = k * c + c
         /\ k * c <= n * c
  <1>1. k * c \in Nat /\ (k + 1) * c = k * c + c
    OBVIOUS
  <1>2. (n - k) * c \in Nat /\ n * c = k * c + (n - k) * c
    OBVIOUS
  <1>. QED  BY <1>1, <1>2

\* A sum of two ints is an int again once it has been wrapped.
LEMMA WrapIsInt ==
  ASSUME NEW x \in Ints, NEW y \in Ints
  PROVE  Wrap(x + y) \in Ints /\ Wrap(x - y) \in Ints
  BY IntAssumption DEF Wrap, Modulus, Ints, MinInt

\* A chunk is never larger than the span it was cut from.
LEMMA ChunkIsInt ==
  ASSUME TypeOK, NEW k \in Indices
  PROVE  my_chunk(k) \in Ints
  <1>1. range \in Ints /\ num_workers \in Nat \ {0}
    BY WrapIsInt, IntAssumption, WorkersAssumption DEF TypeOK, range
  <1>2. CASE range >= 0
    <2>1. range \in Nat
      BY <1>1, <1>2, IntAssumption DEF Ints, MinInt
    <2>2. /\ chunk_size \in Nat /\ remainder \in Nat
          /\ chunk_size + remainder <= range
      BY <1>1, <2>1, Division DEF chunk_size, remainder
    <2>. QED  BY <1>1, <2>1, <2>2, IntAssumption DEF my_chunk, Ints, MinInt
  <1>3. CASE range < 0
    <2>1. -range \in Nat /\ range \in Int
      BY <1>1, <1>3, IntAssumption DEF Ints, MinInt
    <2>2. /\ Quotient(-range, num_workers) \in Nat
          /\ Remainder(-range, num_workers) \in Nat
          /\ Quotient(-range, num_workers) + Remainder(-range, num_workers) <= -range
      BY <1>1, <2>1, Division
    <2>3. /\ chunk_size = -Quotient(-range, num_workers)
          /\ remainder = -Remainder(-range, num_workers)
      BY <1>1, <1>3, <2>1, NegativeDivision DEF chunk_size, remainder
    <2>. QED  BY <1>1, <2>1, <2>2, <2>3, IntAssumption DEF my_chunk, Ints, MinInt
  <1>. QED  BY <1>1, <1>2, <1>3, IntAssumption DEF Ints, MinInt

\* Every step of the loop keeps every variable in its type.
LEMMA TypeStep == TypeOK /\ [Next]_vars => TypeOK'
  <1>. SUFFICES ASSUME TypeOK, [Next]_vars PROVE TypeOK'
    OBVIOUS
  <1>1. CASE Scatter
    <2>1. i \in Indices
      BY <1>1 DEF TypeOK, Scatter, my_end, Indices
    <2>2. Wrap(current_start + my_chunk(i)) \in Ints
      BY <2>1, ChunkIsInt, WrapIsInt DEF TypeOK
    <2>. QED  BY <1>1, <2>1, <2>2 DEF TypeOK, Scatter, my_end, Indices, args
  <1>2. CASE UNCHANGED vars
    BY <1>2 DEF TypeOK, vars, args, Indices
  <1>. QED  BY <1>1, <1>2 DEF Next

\* The types of ScatterRange, of which one says that the cursor of
\* velum_spawn_wasm_distributed is always an int.
THEOREM Typing == Spec => []TypeOK
  <1>1. Init => TypeOK
    BY IntAssumption, WorkersAssumption DEF Init, TypeOK, Indices
  <1>. QED  BY <1>1, TypeStep, PTL DEF Spec

-----------------------------------------------------------------------------
\* What holds of the cursor and of the chunks handed out so far.
Cursor ==
  Fits =>
    /\ current_start = IF i = num_workers THEN end ELSE start + i * chunk_size
    /\ \A k \in 0 .. i - 1 :
         /\ from[k] = start + k * chunk_size
         /\ to[k] = IF k = num_workers - 1 THEN end ELSE start + (k + 1) * chunk_size

\* A request that fits is cut by a natural chunk_size and remainder.
LEMMA Cut ==
  ASSUME TypeOK, Fits
  PROVE  /\ num_workers \in Nat \ {0} /\ start \in Int /\ end \in Int
         /\ chunk_size \in Nat /\ remainder \in 0 .. num_workers - 1
         /\ end - start = num_workers * chunk_size + remainder
  <1>1. num_workers \in Nat \ {0} /\ start \in Int /\ end \in Int /\ end - start \in Nat
    BY IntAssumption, WorkersAssumption DEF TypeOK, Fits, Ints, MinInt
  <1>2. range = end - start
    BY <1>1, IntAssumption DEF range, Wrap, Fits, MinInt
  <1>. QED  BY <1>1, <1>2, Division DEF chunk_size, remainder

\* In round k the cursor moves by chunk_size, in the last round to end, and the
\* sum is an int without being wrapped.
LEMMA NextEnd ==
  ASSUME TypeOK, Fits, NEW k \in Indices
  PROVE  LET x == start + k * chunk_size + my_chunk(k) IN
         /\ x = IF k = num_workers - 1 THEN end ELSE start + (k + 1) * chunk_size
         /\ start <= x /\ x <= end /\ Wrap(x) = x
  <1>1. /\ num_workers \in Nat \ {0} /\ start \in Int /\ end \in Int
        /\ chunk_size \in Nat /\ remainder \in 0 .. num_workers - 1
        /\ end - start = num_workers * chunk_size + remainder
    BY Cut
  <1>2. k \in 0 .. num_workers /\ k + 1 \in 0 .. num_workers
    BY <1>1 DEF Indices
  <1>3. /\ k * chunk_size \in Nat /\ (k + 1) * chunk_size = k * chunk_size + chunk_size
        /\ (k + 1) * chunk_size <= num_workers * chunk_size
    BY <1>1, <1>2, Rounds
  <1> DEFINE x == start + k * chunk_size + my_chunk(k)
  <1>4. x = IF k = num_workers - 1 THEN end ELSE start + (k + 1) * chunk_size
    <2>1. CASE k = num_workers - 1
      <3>1. k + 1 = num_workers
        BY <1>1, <2>1
      <3>2. num_workers * chunk_size = k * chunk_size + chunk_size
        BY <1>3, <3>1
      <3>. QED  BY <1>1, <1>3, <2>1, <3>2 DEF my_chunk
    <2>2. CASE k # num_workers - 1
      BY <1>1, <1>3, <2>2 DEF my_chunk
    <2>. QED  BY <2>1, <2>2
  <1>5. start <= x /\ x <= end
    BY <1>1, <1>3, <1>4
  <1>6. Wrap(x) = x
    BY <1>1, <1>3, <1>4, <1>5, IntAssumption DEF Wrap, TypeOK, Ints, MinInt
  <1>. QED  BY <1>4, <1>5, <1>6

LEMMA CursorStep == TypeOK /\ Cursor /\ [Next]_vars => Cursor'
  <1>. SUFFICES ASSUME TypeOK, Cursor, [Next]_vars, Fits'
                PROVE  /\ current_start' = IF i' = num_workers' THEN end' ELSE start' + i' * chunk_size'
                       /\ \A k \in 0 .. i' - 1 :
                            /\ from'[k] = start' + k * chunk_size'
                            /\ to'[k] = IF k = num_workers' - 1 THEN end'
                                       ELSE start' + (k + 1) * chunk_size'
    BY DEF Cursor
  <1>1. CASE Scatter
    <2>1. /\ Fits /\ num_workers' = num_workers /\ end' = end /\ start' = start
          /\ chunk_size' = chunk_size
      BY <1>1 DEF Scatter, my_end, args, Fits, chunk_size, range
    <2>2. i \in Indices /\ i \in Nat /\ num_workers \in Nat \ {0} /\ i' = i + 1
      BY <1>1, WorkersAssumption DEF TypeOK, Scatter, my_end, Indices
    <2>3. current_start = start + i * chunk_size
      BY <1>1, <2>1, <2>2 DEF Cursor, Scatter, my_end
    <2> DEFINE x == start + i * chunk_size + my_chunk(i)
    <2>4. /\ x = IF i = num_workers - 1 THEN end ELSE start + (i + 1) * chunk_size
          /\ Wrap(x) = x
      BY <2>1, <2>2, NextEnd
    <2>5. /\ current_start' = x
          /\ from' = [from EXCEPT ![i] = current_start]
          /\ to' = [to EXCEPT ![i] = x]
      BY <1>1, <2>3, <2>4 DEF Scatter, my_end
    <2>6. \A k \in 0 .. i - 1 : from'[k] = from[k] /\ to'[k] = to[k]
      BY <2>2, <2>5 DEF TypeOK, Indices
    <2>7. from'[i] = current_start /\ to'[i] = x
      BY <2>2, <2>5 DEF TypeOK, Indices
    <2>8. current_start' = IF i' = num_workers' THEN end' ELSE start' + i' * chunk_size'
      BY <2>1, <2>2, <2>4, <2>5
    <2>9. \A k \in 0 .. i' - 1 : k = i \/ k \in 0 .. i - 1
      BY <2>2
    <2>10. \A k \in 0 .. i - 1 :
             /\ from[k] = start + k * chunk_size
             /\ to[k] = IF k = num_workers - 1 THEN end ELSE start + (k + 1) * chunk_size
      BY <2>1 DEF Cursor
    <2>. QED  BY <2>1, <2>3, <2>4, <2>6, <2>7, <2>8, <2>9, <2>10
  <1>2. CASE UNCHANGED vars
    BY <1>2 DEF Cursor, vars, args, Fits, chunk_size, range
  <1>. QED  BY <1>1, <1>2 DEF Next

\* Once the loop is done, the invariant says where every chunk lies.
LEMMA CursorGivesPartition == TypeOK /\ Cursor => Partition /\ Balanced
  <1>. SUFFICES ASSUME TypeOK, Cursor, done, Fits
                PROVE  /\ from[0] = start
                       /\ \A k \in Indices : start <= from[k] /\ from[k] <= to[k] /\ to[k] <= end
                       /\ \A k \in Indices : k + 1 \in Indices => to[k] = from[k + 1]
                       /\ to[num_workers - 1] = end
                       /\ \A k \in Indices :
                            IF k = num_workers - 1
                            THEN /\ chunk_size <= to[k] - from[k]
                                 /\ to[k] - from[k] < chunk_size + num_workers
                            ELSE to[k] - from[k] = chunk_size
    BY DEF Partition, Balanced
  <1>1. /\ num_workers \in Nat \ {0} /\ start \in Int /\ end \in Int
        /\ chunk_size \in Nat /\ remainder \in 0 .. num_workers - 1
        /\ end - start = num_workers * chunk_size + remainder
    BY Cut
  <1>2. \A k \in Indices :
          /\ from[k] = start + k * chunk_size
          /\ to[k] = IF k = num_workers - 1 THEN end ELSE start + (k + 1) * chunk_size
    BY DEF Cursor, done, Indices
  <1>3. \A k \in Indices :
          /\ k * chunk_size \in Nat /\ (k + 1) * chunk_size = k * chunk_size + chunk_size
          /\ (k + 1) * chunk_size <= num_workers * chunk_size
          /\ k = num_workers - 1 => k * chunk_size + chunk_size = num_workers * chunk_size
    <2>. TAKE k \in Indices
    <2>1. k \in 0 .. num_workers /\ k + 1 \in 0 .. num_workers
      BY <1>1 DEF Indices
    <2>2. /\ k * chunk_size \in Nat /\ (k + 1) * chunk_size = k * chunk_size + chunk_size
          /\ (k + 1) * chunk_size <= num_workers * chunk_size
      BY <1>1, <2>1, Rounds
    <2>3. k = num_workers - 1 => (k + 1) * chunk_size = num_workers * chunk_size
      BY <1>1, <2>1
    <2>. QED  BY <2>2, <2>3
  <1>4. 0 \in Indices /\ num_workers - 1 \in Indices /\ 0 * chunk_size = 0
    BY <1>1 DEF Indices
  <1>5. from[0] = start /\ to[num_workers - 1] = end
    BY <1>1, <1>2, <1>4
  <1>6. \A k \in Indices : start <= from[k] /\ from[k] <= to[k] /\ to[k] <= end
    BY <1>1, <1>2, <1>3
  <1>7. ASSUME NEW k \in Indices, k + 1 \in Indices PROVE to[k] = from[k + 1]
    BY <1>1, <1>2, <1>7 DEF Indices
  <1>8. ASSUME NEW k \in Indices
        PROVE  IF k = num_workers - 1
               THEN /\ chunk_size <= to[k] - from[k]
                    /\ to[k] - from[k] < chunk_size + num_workers
               ELSE to[k] - from[k] = chunk_size
    BY <1>1, <1>2, <1>3
  <1>. QED  BY <1>5, <1>6, <1>7, <1>8

\* For every request whose span is an int and every number of workers: the
\* chunks that velum_spawn_wasm_distributed computes join up from start to end
\* without a gap or an overlap, and no worker but the last gets more than its
\* share.
THEOREM ChunksPartitionTheRequest == Spec => [](Partition /\ Balanced)
  <1>1. Init => TypeOK /\ Cursor
    <2>. SUFFICES ASSUME Init PROVE TypeOK /\ Cursor
      OBVIOUS
    <2>1. TypeOK
      BY IntAssumption, WorkersAssumption DEF Init, TypeOK, Indices
    <2>2. Fits => start \in Int /\ num_workers # 0 /\ 0 * chunk_size = 0
      BY <2>1, Cut
    <2>. QED  BY <2>1, <2>2 DEF Init, Cursor
  <1>2. TypeOK /\ Cursor /\ [Next]_vars => (TypeOK /\ Cursor)'
    BY TypeStep, CursorStep
  <1>. QED  BY <1>1, <1>2, CursorGivesPartition, PTL DEF Spec


-----------------------------------------------------------------------------
\* What holds of the cursor when a sum has wrapped around: it is off by a
\* multiple of the modulus, and at the end by none.
Wrapped ==
  IF i = num_workers THEN current_start = end
  ELSE \E w \in Int : current_start = start + i * chunk_size + w * Modulus

\* A sum or difference of two ints that is wrapped is off by one modulus at most.
LEMMA WrapShifts ==
  ASSUME NEW x \in Ints, NEW y \in Ints
  PROVE  /\ \E w \in Int : Wrap(x + y) = x + y + w * Modulus
         /\ \E w \in Int : Wrap(x - y) = x - y + w * Modulus
  <1>1. MaxInt \in Nat /\ x \in Int /\ y \in Int
    BY IntAssumption DEF Ints, MinInt
  <1>2. PICK m \in Int : m = Modulus
    BY <1>1 DEF Modulus, MinInt
  <1>3. ASSUME NEW z \in Int PROVE \E w \in Int : Wrap(z) = z + w * m
    <2>1. (-1) * m = -m /\ 0 * m = 0 /\ 1 * m = m /\ -1 \in Int
      BY <1>2
    <2>2. Wrap(z) = z + (-1) * m \/ Wrap(z) = z + 0 * m \/ Wrap(z) = z + 1 * m
      <3>1. Wrap(z) = z - m \/ Wrap(z) = z \/ Wrap(z) = z + m
        BY <1>2 DEF Wrap
      <3>. QED  BY <1>2, <2>1, <3>1
    <2>. QED  BY <2>1, <2>2
  <1>4. x + y \in Int /\ x - y \in Int
    BY <1>1
  <1>. QED  BY <1>2, <1>3, <1>4

\* Two ints that differ by a multiple of the modulus are equal.
LEMMA SameInt ==
  ASSUME NEW x \in Ints, NEW y \in Ints, NEW w \in Int, x = y + w * Modulus
  PROVE  x = y
  <1>1. PICK m \in Nat : m = Modulus /\ m = 2 * MaxInt + 2
    BY IntAssumption DEF Modulus, MinInt
  <1>2. x - y = w * m /\ x - y < m /\ y - x < m /\ x \in Int /\ y \in Int
    BY <1>1, IntAssumption DEF Ints, MinInt
  <1>3. CASE w >= 1
    <2>1. (w - 1) * m >= 0 /\ w * m = (w - 1) * m + m
      BY <1>1, <1>3
    <2>. QED  BY <1>1, <1>2, <2>1
  <1>4. CASE w <= -1
    <2>1. (-1 - w) * m >= 0 /\ w * m = -m - (-1 - w) * m
      BY <1>1, <1>4
    <2>. QED  BY <1>1, <1>2, <2>1
  <1>5. CASE w = 0
    BY <1>1, <1>2, <1>5
  <1>. QED  BY <1>3, <1>4, <1>5

\* The chunks add up to the span, whatever its sign.
LEMMA ChunksAddUp ==
  ASSUME TypeOK
  PROVE  /\ num_workers \in Nat \ {0} /\ range \in Int
         /\ chunk_size \in Int /\ remainder \in Int
         /\ num_workers * chunk_size + remainder = range
  <1>1. num_workers \in Nat \ {0} /\ range \in Int
    <2>1. num_workers \in Nat \ {0} /\ range \in Ints
      BY WrapIsInt, WorkersAssumption DEF TypeOK, range
    <2>. QED  BY <2>1, IntAssumption DEF Ints, MinInt
  <1>2. Quotient(range, num_workers) \in Int
    <2>1. CASE range >= 0
      BY <1>1, <2>1 DEF Quotient
    <2>2. CASE range < 0
      <3>1. (-range) \div num_workers \in Int
        BY <1>1, <2>2
      <3>. QED  BY <1>1, <2>2, <3>1 DEF Quotient
    <2>. QED  BY <1>1, <2>1, <2>2
  <1>3. num_workers * Quotient(range, num_workers) \in Int
    BY <1>1, <1>2
  <1>. QED  BY <1>1, <1>2, <1>3 DEF chunk_size, remainder, Remainder

LEMMA WrappedStep == TypeOK /\ Wrapped /\ [Next]_vars => Wrapped'
  <1>. SUFFICES ASSUME TypeOK, Wrapped, [Next]_vars PROVE Wrapped'
    OBVIOUS
  <1>1. CASE Scatter
    <2>1. /\ num_workers' = num_workers /\ end' = end /\ start' = start
          /\ chunk_size' = chunk_size
      BY <1>1 DEF Scatter, my_end, args, chunk_size, range
    <2>2. /\ i \in Nat /\ i # num_workers /\ i \in Indices /\ i' = i + 1
          /\ current_start' = Wrap(current_start + my_chunk(i))
      BY <1>1 DEF TypeOK, Scatter, my_end, Indices
    <2>3. /\ start \in Int /\ end \in Int /\ Modulus \in Int
          /\ current_start \in Ints /\ start \in Ints /\ end \in Ints
      BY IntAssumption DEF TypeOK, Ints, Modulus, MinInt
    <2>4. /\ num_workers \in Nat \ {0} /\ range \in Int
          /\ chunk_size \in Int /\ remainder \in Int
          /\ num_workers * chunk_size + remainder = range
      BY ChunksAddUp
    <2>5. PICK u \in Int : current_start = start + i * chunk_size + u * Modulus
      BY <2>2 DEF Wrapped
    <2>6. PICK v \in Int : current_start' = current_start + my_chunk(i) + v * Modulus
      BY ZenonT(60), <2>2, <2>3, ChunkIsInt, WrapShifts
    <2>7. /\ i * chunk_size \in Int /\ (i + 1) * chunk_size = i * chunk_size + chunk_size
          /\ u * Modulus \in Int /\ v * Modulus \in Int
          /\ (u + v) * Modulus = u * Modulus + v * Modulus
      BY <2>2, <2>3, <2>4
    <2>8. CASE i = num_workers - 1
      <3>1. my_chunk(i) = chunk_size + remainder
        BY <2>8 DEF my_chunk
      <3>2. i + 1 = num_workers /\ (i + 1) * chunk_size = num_workers * chunk_size
        BY <2>4, <2>8
      <3>3. num_workers * chunk_size \in Int
        BY <2>4
      <3>4. current_start' = start + range + (u + v) * Modulus
        <4>1. PICK a \in Int, b \in Int, c \in Int :
                /\ a = i * chunk_size /\ b = u * Modulus /\ c = v * Modulus
          BY <2>7
        <4>2. current_start' = start + a + b + (chunk_size + remainder) + c
          BY <2>5, <2>6, <3>1, <4>1
        <4>3. a + chunk_size + remainder = range
          BY <2>4, <2>7, <3>2, <4>1
        <4>4. current_start' = start + range + (b + c)
          BY <2>3, <2>4, <4>1, <4>2, <4>3
        <4>. QED  BY <2>7, <4>1, <4>4
      <3>5. PICK w \in Int : range = end - start + w * Modulus
        BY <2>3, WrapShifts DEF range
      <3>6. w * Modulus \in Int /\ (u + v + w) * Modulus = (u + v) * Modulus + w * Modulus
        BY <2>3
      <3>7. current_start' = end + (u + v + w) * Modulus
        BY <2>3, <2>4, <2>7, <3>4, <3>5, <3>6
      <3>8. current_start' \in Ints
        BY <2>2, <2>3, ChunkIsInt, WrapIsInt
      <3>9. current_start' = end
        BY <2>3, <3>7, <3>8, SameInt
      <3>. QED  BY <2>1, <2>2, <3>2, <3>9 DEF Wrapped
    <2>9. CASE i # num_workers - 1
      <3>1. my_chunk(i) = chunk_size + 0
        BY <2>9 DEF my_chunk
      <3>2. current_start' = start + (i + 1) * chunk_size + (u + v) * Modulus
        BY <2>3, <2>4, <2>5, <2>6, <2>7, <3>1
      <3>3. i + 1 # num_workers /\ u + v \in Int
        BY <2>2, <2>4, <2>9
      <3>. QED  BY <2>1, <2>2, <3>2, <3>3 DEF Wrapped, Modulus
    <2>. QED  BY <2>8, <2>9
  <1>2. CASE UNCHANGED vars
    BY <1>2 DEF Wrapped, vars, args, chunk_size, range
  <1>. QED  BY <1>1, <1>2 DEF Next

\* For every request, also one whose span is wider than an int, every width
\* of int and every number of workers: the sums that wrap around in
\* velum_spawn_wasm_distributed undo each other, and the last chunk ends at end.
THEOREM LastChunkEndsAtEnd == Spec => []EndsAtEnd
  <1>1. Init => TypeOK /\ Wrapped
    <2>. SUFFICES ASSUME Init PROVE TypeOK /\ Wrapped
      OBVIOUS
    <2>1. TypeOK
      BY IntAssumption, WorkersAssumption DEF Init, TypeOK, Indices
    <2>2. /\ start \in Int /\ num_workers # 0 /\ 0 * chunk_size = 0 /\ 0 * Modulus = 0
      BY <2>1, ChunksAddUp, IntAssumption DEF TypeOK, Ints, MinInt, Modulus
    <2>3. current_start = start + 0 * chunk_size + 0 * Modulus /\ i = 0
      BY <2>2 DEF Init
    <2>. QED  BY <2>1, <2>2, <2>3 DEF Wrapped
  <1>2. TypeOK /\ Wrapped /\ [Next]_vars => (TypeOK /\ Wrapped)'
    BY TypeStep, WrappedStep
  <1>3. Wrapped => EndsAtEnd
    BY DEF Wrapped, EndsAtEnd, done
  <1>. QED  BY <1>1, <1>2, <1>3, PTL DEF Spec

=============================================================================
