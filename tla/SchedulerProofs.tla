-------------------------- MODULE SchedulerProofs --------------------------
(***************************************************************************)
(* find_best_node elects the best node it met, and the node it elected     *)
(* stays known until its task is counted, for every number of nodes and    *)
(* every width of the status fields up to the code's.                      *)
(*                                                                         *)
(* The invariant speaks of the scan under way: what it has considered so   *)
(* far, that its best node is the first maximum of that, and that nothing  *)
(* has been considered from current_id on.                                 *)
(***************************************************************************)
EXTENDS Scheduler, TLAPS

\* No status scores as low as the bound that the scan starts from, nor as low
\* as the mark for "no score".
LEMMA ScoreAboveFirstBound ==
  ASSUME NEW s \in NodeStatus
  PROVE  /\ calculate_score(s) \in Int
         /\ calculate_score(s) > FirstBound
         /\ calculate_score(s) # Unseen
  <1>1. CpuMax \in Int /\ CpuMax <= 255 /\ QueueMax \in Int /\ QueueMax <= 255 /\ RamMax \in Int
    BY SMTT(40), WidthAssumption
  <1>2. /\ s.cpu_load \in 0 .. CpuMax
        /\ s.ram_free_kb \in 0 .. RamMax
        /\ s.task_queue_len \in 0 .. QueueMax
    BY DEF NodeStatus
  <1>3. /\ s.cpu_load \in Int /\ s.cpu_load <= 255
        /\ s.ram_free_kb \in Int /\ s.ram_free_kb >= 0
        /\ s.task_queue_len \in Int /\ s.task_queue_len <= 255
    BY <1>1, <1>2
  <1>. QED  BY SMTT(40), <1>3 DEF calculate_score, FirstBound, Unseen

LEMMA ZeroIsStatus == Zero \in NodeStatus
  <1>1. 0 \in 0 .. CpuMax /\ 0 \in 0 .. RamMax /\ 0 \in 0 .. QueueMax
    BY SMTT(40), WidthAssumption
  <1>. QED  BY <1>1, Zenon DEF Zero, NodeStatus

\* The increment of mark_node_busy stays in its byte and leaves the rest alone.
LEMMA MarkedIsStatus ==
  ASSUME NEW s \in NodeStatus, NEW q \in 0 .. QueueMax
  PROVE  LET t == [s EXCEPT !.task_queue_len = Incremented(q)] IN
         t \in NodeStatus /\ t.ram_free_kb = s.ram_free_kb
  <1>1. Incremented(q) \in 0 .. QueueMax
    BY SMTT(40), WidthAssumption DEF Incremented
  <1>. QED  BY <1>1 DEF NodeStatus

\* What the program counter says of the locals.
Positions ==
  /\ pc = "score" => /\ current_id \in Ids \ {0, my_id}
                     /\ cluster_status[current_id].ram_free_kb > 0
  /\ pc = "store" => node_id \in Ids

\* The first maximum of what the scan has considered.
FirstMaximum ==
  IF Considered = {} THEN best_node_id = -1 /\ max_score = FirstBound
  ELSE /\ best_node_id \in Considered
       /\ max_score = seen[best_node_id]
       /\ \A n \in Considered : /\ seen[n] <= max_score
                                /\ n < best_node_id => seen[n] < max_score

Scanning ==
  pc \in {"scan", "score"} =>
    /\ \A n \in Ids : n >= current_id => seen[n] = Unseen
    /\ \A n \in Considered : n \notin {0, my_id} /\ seen[n] > FirstBound
    /\ FirstMaximum

IInv == TypeOK /\ Positions /\ Scanning /\ WinnerStaysKnown

LEMMA InitHolds == Init => IInv
  BY SMTT(40), ZeroIsStatus, IdAssumption, WidthAssumption
  DEF Init, IInv, TypeOK, Positions, Scanning, WinnerStaysKnown, Unseen, Ids

\* A report replaces a whole status by one with memory to spare.
LEMMA ReportStep ==
  ASSUME IInv, NEW n \in Senders, NEW r \in Reports, handle_message(n, r)
  PROVE  IInv'
  <1>1. UNCHANGED <<pc, scan, mark>>
    BY DEF handle_message
  <1>2. /\ cluster_status' \in [Ids -> NodeStatus]
        /\ \A k \in Ids : cluster_status[k].ram_free_kb > 0 => cluster_status'[k].ram_free_kb > 0
    BY IdAssumption, ReportAssumption DEF handle_message, IInv, TypeOK, Ids
  <1>3. TypeOK' /\ Positions' /\ WinnerStaysKnown'
    BY <1>1, <1>2 DEF IInv, TypeOK, Positions, WinnerStaysKnown, scan, mark
  <1>4. Scanning'
    BY <1>1 DEF IInv, Scanning, FirstMaximum, Considered, scan
  <1>. QED  BY <1>3, <1>4 DEF IInv

\* A disconnect only happens while no spawn holds api_mutex.
LEMMA DisconnectStep ==
  ASSUME IInv, NEW n \in Senders, handle_disconnect(n)
  PROVE  IInv'
  <1>1. pc = "idle" /\ UNCHANGED <<pc, scan, mark>>
    BY DEF handle_disconnect, lock_guard
  <1>2. cluster_status' \in [Ids -> NodeStatus]
    BY ZeroIsStatus DEF handle_disconnect, IInv, TypeOK
  <1>3. TypeOK'
    BY <1>1, <1>2 DEF IInv, TypeOK, scan, mark
  <1>4. Positions' /\ WinnerStaysKnown' /\ Scanning'
    BY <1>1 DEF Positions, WinnerStaysKnown, Scanning
  <1>. QED  BY <1>3, <1>4 DEF IInv

\* A spawn starts with nothing considered.
LEMMA StartStep ==
  ASSUME IInv, find_best_node \/ \E workers \in SUBSET (Senders \ {0}) : Scatter(workers)
  PROVE  IInv'
  <1>1. /\ current_id' = 0 /\ best_node_id' = -1 /\ max_score' = FirstBound
        /\ seen' = [n \in Ids |-> Unseen] /\ pc' \in {"scan", "mark"}
        /\ UNCHANGED <<cluster_status, node_id, queue_len>>
        /\ todo' \subseteq Nat
    BY IdAssumption DEF find_best_node, Scatter, mark, IInv, TypeOK
  <1>2. TypeOK'
    BY <1>1, IdAssumption DEF IInv, TypeOK, FirstBound, Unseen
  <1>3. Considered' = {}
    BY <1>1 DEF Considered
  <1>4. Positions' /\ WinnerStaysKnown' /\ Scanning'
    BY <1>1, <1>3 DEF Positions, WinnerStaysKnown, Scanning, FirstMaximum
  <1>. QED  BY <1>2, <1>4 DEF IInv

LEMMA SkipStep ==
  ASSUME IInv, ScanSkip
  PROVE  IInv'
  <1>1. /\ pc = "scan" /\ current_id' = current_id + 1
        /\ UNCHANGED <<cluster_status, pc, best_node_id, max_score, seen, mark>>
    BY DEF ScanSkip
  <1>2. TypeOK'
    BY <1>1, IdAssumption DEF ScanSkip, IInv, TypeOK, mark
  <1>3. Scanning'
    BY <1>1 DEF IInv, TypeOK, Ids, Scanning, FirstMaximum, Considered
  <1>4. Positions' /\ WinnerStaysKnown'
    BY <1>1 DEF IInv, Positions, WinnerStaysKnown
  <1>. QED  BY <1>2, <1>3, <1>4 DEF IInv

LEMMA KnownStep ==
  ASSUME IInv, ScanKnown
  PROVE  IInv'
  <1>1. /\ pc = "scan" /\ pc' = "score" /\ UNCHANGED <<cluster_status, scan, mark>>
        /\ current_id <= MAX_PEERS /\ current_id \notin {0, my_id}
        /\ cluster_status[current_id].ram_free_kb > 0
    BY DEF ScanKnown
  <1>2. TypeOK' /\ WinnerStaysKnown'
    BY <1>1 DEF IInv, TypeOK, WinnerStaysKnown, scan, mark
  <1>3. Scanning'
    BY <1>1 DEF IInv, Scanning, FirstMaximum, Considered, scan
  <1>4. Positions'
    BY <1>1, IdAssumption DEF IInv, TypeOK, Ids, Positions, scan
  <1>. QED  BY <1>2, <1>3, <1>4 DEF IInv

\* The node under consideration becomes the best one, or the best one stays.
LEMMA ScoreStep ==
  ASSUME IInv, ScanScore
  PROVE  IInv'
  <1> DEFINE score == calculate_score(cluster_status[current_id])
  <1>1. /\ pc = "score" /\ pc' = "scan" /\ current_id' = current_id + 1
        /\ seen' = [seen EXCEPT ![current_id] = score]
        /\ max_score' = IF score > max_score THEN score ELSE max_score
        /\ best_node_id' = IF score > max_score THEN current_id ELSE best_node_id
        /\ UNCHANGED <<cluster_status, mark>>
    BY DEF ScanScore, Better
  <1>2. /\ current_id \in Ids \ {0, my_id} /\ cluster_status[current_id].ram_free_kb > 0
    BY <1>1 DEF IInv, Positions
  <1>3. score \in Int /\ score > FirstBound /\ score # Unseen
    BY <1>2, ScoreAboveFirstBound DEF IInv, TypeOK
  <1>. HIDE DEF score
  <1>4. TypeOK'
    BY <1>1, <1>2, <1>3, IdAssumption DEF IInv, TypeOK, mark, Ids
  <1>5. Positions' /\ WinnerStaysKnown'
    BY <1>1, <1>2 DEF IInv, Positions, WinnerStaysKnown
  <1>6. seen[current_id] = Unseen /\ current_id \notin Considered
    BY <1>1, <1>2, IdAssumption DEF IInv, TypeOK, Scanning, Ids, Considered
  <1>7. /\ Considered' = Considered \cup {current_id}
        /\ seen'[current_id] = score
        /\ \A n \in Considered : seen'[n] = seen[n] /\ n # current_id
    BY <1>1, <1>2, <1>3, <1>6 DEF IInv, TypeOK, Considered
  <1>8. \A n \in Considered : n \in Ids /\ n < current_id
    BY <1>1, <1>2, IdAssumption DEF IInv, TypeOK, Scanning, Ids, Considered
  <1>9. \A n \in Ids : n >= current_id' => seen'[n] = Unseen
    BY <1>1, <1>2, IdAssumption DEF IInv, TypeOK, Scanning, Ids
  <1>10. \A n \in Considered' : n \notin {0, my_id} /\ seen'[n] > FirstBound
    BY <1>1, <1>2, <1>3, <1>7 DEF IInv, Scanning
  <1>11. FirstMaximum'
    <2>1. FirstMaximum
      BY <1>1 DEF IInv, Scanning
    <2>2. CASE score > max_score
      <3>1. best_node_id' = current_id /\ max_score' = score
        BY <1>1, <2>2
      <3>2. \A n \in Considered : seen[n] < score
        BY <1>3, <2>1, <2>2 DEF FirstMaximum, IInv, TypeOK, Considered
      <3>3. best_node_id' \in Considered' /\ max_score' = seen'[best_node_id']
        BY <1>7, <3>1
      <3>4. ASSUME NEW n \in Considered'
            PROVE  seen'[n] <= max_score' /\ (n < best_node_id' => seen'[n] < max_score')
        <4>1. CASE n = current_id
          BY <1>2, <1>3, <1>7, <3>1, <4>1, IdAssumption DEF Ids
        <4>2. CASE n \in Considered
          <5>1. seen[n] \in Int /\ seen[n] < score
            BY <3>2, <4>2 DEF IInv, TypeOK, Considered
          <5>. QED  BY <1>3, <1>7, <3>1, <4>2, <5>1
        <4>. QED  BY <1>7, <4>1, <4>2
      <3>. QED  BY <3>3, <3>4 DEF FirstMaximum
    <2>3. CASE ~(score > max_score)
      <3>1. best_node_id' = best_node_id /\ max_score' = max_score
        BY <1>1, <2>3
      <3>2. Considered # {}
        BY <1>3, <2>1, <2>3 DEF FirstMaximum
      <3>3. best_node_id \in Considered /\ score <= max_score /\ best_node_id < current_id
        BY <1>3, <1>8, <2>1, <2>3, <3>2 DEF FirstMaximum, IInv, TypeOK
      <3>4. current_id \in Int /\ best_node_id \in Int
        BY <1>2, <1>8, <3>3, IdAssumption DEF Ids
      <3>5. best_node_id' \in Considered' /\ max_score' = seen'[best_node_id']
        BY <1>7, <2>1, <3>1, <3>2, <3>3 DEF FirstMaximum
      <3>6. ASSUME NEW n \in Considered'
            PROVE  seen'[n] <= max_score' /\ (n < best_node_id' => seen'[n] < max_score')
        <4>1. CASE n = current_id
          BY <1>7, <3>1, <3>3, <3>4, <4>1
        <4>2. CASE n \in Considered
          BY <1>7, <2>1, <3>1, <3>2, <4>2 DEF FirstMaximum
        <4>. QED  BY <1>7, <4>1, <4>2
      <3>. QED  BY <3>5, <3>6 DEF FirstMaximum
    <2>. QED  BY <2>2, <2>3
  <1>12. Scanning'
    BY <1>9, <1>10, <1>11 DEF Scanning
  <1>. QED  BY <1>4, <1>5, <1>12 DEF IInv

\* The scan is over: what is left to do is to count the task.
LEMMA CountStep ==
  ASSUME IInv,
         \/ ScanNone \/ ScanWinner \/ MarkStore \/ MarkDone
         \/ \E n \in Senders : mark_node_busy(n)
  PROVE  IInv'
  <1>1. CASE ScanNone \/ ScanWinner \/ MarkDone
    <2>1. /\ UNCHANGED <<cluster_status, scan, node_id, queue_len>>
          /\ pc # "idle" /\ pc' \in {"idle", "mark"}
          /\ todo' \subseteq Nat
      <3>1. CASE ScanNone \/ MarkDone
        BY <3>1 DEF ScanNone, MarkDone, mark, IInv, TypeOK
      <3>2. CASE ScanWinner
        <4>1. best_node_id \in Nat
          BY <3>2, IdAssumption DEF ScanWinner, IInv, TypeOK, Ids
        <4>. QED  BY <3>2, <4>1 DEF ScanWinner
      <3>. QED  BY <1>1, <3>1, <3>2
    <2>. QED  BY <2>1 DEF IInv, TypeOK, Positions, WinnerStaysKnown, Scanning, scan
  <1>2. CASE MarkStore
    <2>1. /\ pc = "store" /\ pc' = "mark" /\ node_id' = -1 /\ queue_len' = 0
          /\ UNCHANGED <<scan, todo>>
      BY <1>2 DEF MarkStore
    <2> DEFINE t == [cluster_status[node_id] EXCEPT !.task_queue_len = Incremented(queue_len)]
    <2>2. node_id \in Ids /\ cluster_status[node_id] \in NodeStatus /\ queue_len \in 0 .. QueueMax
      BY <2>1 DEF IInv, Positions, TypeOK
    <2>3. t \in NodeStatus /\ t.ram_free_kb = cluster_status[node_id].ram_free_kb
      BY <2>2, MarkedIsStatus
    <2>4. cluster_status' = [cluster_status EXCEPT ![node_id] = t]
      BY <1>2 DEF MarkStore
    <2>. HIDE DEF t
    <2>5. /\ cluster_status' \in [Ids -> NodeStatus]
          /\ \A k \in Ids : cluster_status'[k].ram_free_kb = cluster_status[k].ram_free_kb
      BY <2>2, <2>3, <2>4 DEF IInv, TypeOK
    <2>6. TypeOK'
      <3>1. 0 \in 0 .. QueueMax
        BY SMTT(40), WidthAssumption
      <3>. QED  BY <2>1, <2>5, <3>1 DEF IInv, TypeOK, scan
    <2>. QED  BY <2>1, <2>5, <2>6 DEF IInv, TypeOK, Positions, WinnerStaysKnown, Scanning, scan
  <1>3. ASSUME NEW n \in Senders, mark_node_busy(n) PROVE IInv'
    <2>1. /\ pc = "mark" /\ pc' \in {"mark", "store"} /\ UNCHANGED <<cluster_status, scan>>
          /\ todo' \subseteq todo
      BY <1>3 DEF mark_node_busy
    <2>2. /\ node_id' \in Ids \cup {-1} /\ queue_len' \in 0 .. QueueMax
          /\ pc' = "store" => node_id' \in Ids
      <3>1. CASE n > 0 /\ n <= MAX_PEERS
        <4>1. n \in Ids
          BY <3>1, IdAssumption DEF Ids
        <4>2. cluster_status[n].task_queue_len \in 0 .. QueueMax
          BY <4>1 DEF IInv, TypeOK, NodeStatus
        <4>. QED  BY <1>3, <3>1, <4>1, <4>2 DEF mark_node_busy
      <3>2. CASE ~(n > 0 /\ n <= MAX_PEERS)
        BY <1>3, <3>2 DEF mark_node_busy, IInv, TypeOK
      <3>. QED  BY <3>1, <3>2
    <2>3. TypeOK'
      BY <2>1, <2>2 DEF IInv, TypeOK, scan
    <2>. QED  BY <2>1, <2>2, <2>3 DEF IInv, Positions, WinnerStaysKnown, Scanning, scan
  <1>. QED  BY <1>1, <1>2, <1>3

LEMMA Inductive == IInv /\ [Next]_vars => IInv'
  <1>. SUFFICES ASSUME IInv, [Next]_vars PROVE IInv'
    OBVIOUS
  <1>1. CASE Next
    BY <1>1, ReportStep, DisconnectStep, StartStep, SkipStep, KnownStep, ScoreStep, CountStep
    DEF Next, Engine, User
  <1>2. CASE UNCHANGED vars
    BY <1>2 DEF vars, scan, mark, IInv, TypeOK, Positions, Scanning, WinnerStaysKnown,
                FirstMaximum, Considered
  <1>. QED  BY <1>1, <1>2

\* The types of the scheduler's variables: task_queue_len, of which the code
\* adds one without a look at its value, stays in its byte.
THEOREM Typing == Spec => []TypeOK
  BY InitHolds, Inductive, PTL DEF Spec, IInv

\* For every number of nodes: find_best_node elects the first node of the
\* highest score among those it considered, whatever reports land meanwhile.
THEOREM ElectionIsRight == Spec => []ElectsBest
  <1>1. IInv => ElectsBest
    BY IdAssumption DEF IInv, TypeOK, Scanning, FirstMaximum, ElectsBest, Considered, Ids
  <1>. QED  BY <1>1, InitHolds, Inductive, PTL DEF Spec

\* For every number of nodes: api_mutex keeps handle_disconnect away from the
\* node that a spawn has chosen.
THEOREM WinnerIsKept == Spec => []WinnerStaysKnown
  BY InitHolds, Inductive, PTL DEF Spec, IInv
=============================================================================
