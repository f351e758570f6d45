---------------------------- MODULE ScatterRange ----------------------------
(***************************************************************************)
(* How velum_spawn_wasm_distributed (src/src/velum_core.cpp) cuts the      *)
(* interval [start, end) into one chunk per worker.  The loop over the     *)
(* workers is the action Scatter; a worker whose socket went away since    *)
(* find_all_workers is passed over, but the cursor moves on all the same.  *)
(*                                                                         *)
(* The C int has the values MinInt..MaxInt.  The build lets a sum that     *)
(* leaves them wrap around.                                                *)
(***************************************************************************)
EXTENDS Integers

CONSTANTS MaxInt,     \* the largest int, 2^31 - 1 in the code
          MaxWorkers  \* the most ids find_all_workers can return

ASSUME IntAssumption == MaxInt \in Nat
ASSUME WorkersAssumption == MaxWorkers \in Nat

MinInt == -MaxInt - 1
Ints == MinInt .. MaxInt

\* Two's complement; the sum or difference of two ints is off by one modulus
\* at most.
Modulus == MaxInt - MinInt + 1
Wrap(x) == IF x > MaxInt THEN x - Modulus ELSE IF x < MinInt THEN x + Modulus ELSE x

\* C's division truncates towards zero and its remainder has the dividend's
\* sign; TLA+'s \div rounds down.
Quotient(a, n)  == IF a >= 0 THEN a \div n ELSE -((-a) \div n)
Remainder(a, n) == a - n * Quotient(a, n)

VARIABLES
  start, end, num_workers,  \* the arguments, and the length of workers
  i, current_start,         \* the loop's index and cursor
  from, to,                 \* per worker, the chunk computed for it
  sent                      \* the indices whose chunk was sent
args == <<start, end, num_workers>>
vars == <<args, i, current_start, from, to, sent>>

Indices == 0 .. num_workers - 1

range      == Wrap(end - start)
chunk_size == Quotient(range, num_workers)
remainder  == Remainder(range, num_workers)

\* Mutant: the remainder is dropped.
my_chunk_NoRemainder(k) == chunk_size
my_chunk(k) == chunk_size + (IF k = num_workers - 1 THEN remainder ELSE 0)

\* Mutant: the sum is wider than an int.
my_end_Wide(k) == current_start + my_chunk(k)
my_end(k) == Wrap(current_start + my_chunk(k))

Init ==
  /\ start \in Ints /\ end \in Ints /\ num_workers \in 1 .. MaxWorkers
  /\ i = 0 /\ current_start = start
  /\ from = [k \in Indices |-> start] /\ to = [k \in Indices |-> start]
  /\ sent = {}

Scatter ==
  /\ i < num_workers
  /\ from' = [from EXCEPT ![i] = current_start]
  /\ to' = [to EXCEPT ![i] = my_end(i)]
  /\ current_start' = my_end(i)
  /\ sent' \in {sent, sent \cup {i}}
  /\ i' = i + 1
  /\ UNCHANGED args

Next == Scatter

Spec == Init /\ [][Next]_vars

-----------------------------------------------------------------------------
\* Every variable has its type: chunk bounds are ints, whatever the request.
TypeOK ==
  /\ start \in Ints /\ end \in Ints /\ num_workers \in 1 .. MaxWorkers
  /\ i \in 0 .. num_workers
  /\ current_start \in Ints
  /\ from \in [Indices -> Ints] /\ to \in [Indices -> Ints]
  /\ sent \subseteq 0 .. i - 1

done == i = num_workers
\* The span of the request is an int itself, and not negative.
Fits == start <= end /\ end - start <= MaxInt

\* The chunks of velum_spawn_wasm_distributed join up: the first starts at
\* start, each ends where the next one starts, none runs backwards or out of
\* the request, and the last ends at end.
Partition ==
  done /\ Fits =>
    /\ from[0] = start
    /\ \A k \in Indices : start <= from[k] /\ from[k] <= to[k] /\ to[k] <= end
    /\ \A k \in Indices : k + 1 \in Indices => to[k] = from[k + 1]
    /\ to[num_workers - 1] = end

\* No worker but the last gets more than its share, and the last one less than
\* num_workers numbers more than the others.
Balanced ==
  done /\ Fits =>
    \A k \in Indices :
      LET size == to[k] - from[k] IN
      IF k = num_workers - 1 THEN chunk_size <= size /\ size < chunk_size + num_workers
                             ELSE size = chunk_size

\* A cursor that wrapped around has still come to end after the last worker.
EndsAtEnd == done => current_start = end

\* README.md: "Automatically splits massive workloads (e.g., 4 Billion iterations)
\* into chunks".  A request whose span is wider than an int is split like any
\* other: no chunk runs backwards.
MassiveWorkloadSplit == done /\ start <= end => \A k \in Indices : from[k] <= to[k]

=============================================================================
