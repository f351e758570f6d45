----------------------------- MODULE Scheduler -----------------------------
(***************************************************************************)
(* The cluster status of src/src/node_logic.cpp and its two users.         *)
(*                                                                         *)
(* The engine thread copies status reports into cluster_status without a   *)
(* lock, and clears a node that died under api_mutex.  The user thread     *)
(* holds api_mutex while it scans cluster_status for the best node and     *)
(* while it counts a task it sent in task_queue_len.  So a report can land *)
(* anywhere inside a scan, and between the load and the store of the       *)
(* increment; a disconnect cannot.                                         *)
(***************************************************************************)
EXTENDS Integers

CONSTANTS MAX_PEERS,  \* the last index of cluster_status
          my_id,      \* this node
          Senders,    \* the ids the other nodes were started with
          Reports,    \* the NodeStatus values the other nodes send
          CpuMax, RamMax, QueueMax  \* the limits of uint8_t, uint16_t and uint8_t

\* With the limits of the code no score is as low as the scan's first bound.
ASSUME WidthAssumption == /\ CpuMax \in 0 .. 255 /\ QueueMax \in 0 .. 255
                          /\ RamMax \in 0 .. 65535
ASSUME IdAssumption == MAX_PEERS \in Nat /\ my_id \in Nat /\ Senders \subseteq Nat \ {my_id}

NodeStatus == [cpu_load : 0 .. CpuMax, ram_free_kb : 0 .. RamMax, task_queue_len : 0 .. QueueMax]
\* velum_engine_loop reports a ram_free_kb of 100, always.
ASSUME ReportAssumption == Reports \subseteq NodeStatus /\ \A r \in Reports : r.ram_free_kb > 0

Ids == 0 .. MAX_PEERS
Unseen == -20000  \* no score: less than any of the code's widths
Zero == [cpu_load |-> 0, ram_free_kb |-> 0, task_queue_len |-> 0]

\* Mutant: a busy cpu makes a node more attractive.
calculate_score_Sign(s) == s.ram_free_kb + 2 * s.cpu_load - 10 * s.task_queue_len
calculate_score(s) == s.ram_free_kb - 2 * s.cpu_load - 10 * s.task_queue_len

VARIABLES
  cluster_status,
  pc,            \* the user thread; it holds api_mutex unless "idle"
  current_id, best_node_id, max_score,  \* the locals of find_best_node
  seen,          \* history: the score this scan computed, per id it considered
  todo,          \* nodes that were sent a task and are to be marked busy
  node_id,       \* the node that mark_node_busy works on
  queue_len      \* the register of its increment of task_queue_len
scan == <<current_id, best_node_id, max_score, seen>>
mark == <<todo, node_id, queue_len>>
vars == <<cluster_status, pc, scan, mark>>

Init ==
  /\ cluster_status = [n \in Ids |-> Zero]
  /\ pc = "idle" /\ todo = {} /\ node_id = -1 /\ queue_len = 0
  /\ current_id = 0 /\ best_node_id = -1 /\ max_score = -10000
  /\ seen = [n \in Ids |-> Unseen]

-----------------------------------------------------------------------------
(***************************************************************************)
(* The engine thread.                                                      *)
(***************************************************************************)
\* handle_message, STATUS_REPORT: one copy of the four bytes of a NodeStatus.
handle_message(sender_id, r) ==
  /\ cluster_status' = IF sender_id <= MAX_PEERS
                       THEN [cluster_status EXCEPT ![sender_id] = r] ELSE cluster_status
  /\ UNCHANGED <<pc, scan, mark>>

\* Mutant: the engine does not wait for the user thread.
lock_guard_Missing == TRUE
lock_guard == pc = "idle"

\* A node whose socket reached its end: under api_mutex its status is cleared.
handle_disconnect(n) ==
  /\ lock_guard
  /\ cluster_status' = IF n > 0 /\ n <= MAX_PEERS
                       THEN [cluster_status EXCEPT ![n] = Zero] ELSE cluster_status
  /\ UNCHANGED <<pc, scan, mark>>

-----------------------------------------------------------------------------
(***************************************************************************)
(* The user thread: velum_spawn_wasm elects one node, and marks it if it   *)
(* has a socket for it.                                                    *)
(***************************************************************************)
\* Mutant: the first bound is a score that a node can have.
FirstBound_Zero == 0
FirstBound == -10000

find_best_node ==
  /\ pc = "idle"
  /\ pc' = "scan"
  /\ current_id' = 0 /\ best_node_id' = -1 /\ max_score' = FirstBound
  /\ seen' = [n \in Ids |-> Unseen]
  /\ UNCHANGED <<cluster_status, mark>>

\* Entry 0, this node, and nodes that are not known are passed over.
ScanSkip ==
  /\ pc = "scan" /\ current_id <= MAX_PEERS
  /\ current_id \in {0, my_id} \/ cluster_status[current_id].ram_free_kb = 0
  /\ current_id' = current_id + 1
  /\ UNCHANGED <<cluster_status, pc, best_node_id, max_score, seen, mark>>

ScanKnown ==
  /\ pc = "scan" /\ current_id <= MAX_PEERS
  /\ current_id \notin {0, my_id} /\ cluster_status[current_id].ram_free_kb > 0
  /\ pc' = "score"
  /\ UNCHANGED <<cluster_status, scan, mark>>

\* Mutant: among equals the last one wins.
Better_OrEqual(score) == score >= max_score
Better(score) == score > max_score

\* The status is read again for the score; a report may have come in between.
ScanScore ==
  /\ pc = "score"
  /\ LET score == calculate_score(cluster_status[current_id]) IN
       /\ seen' = [seen EXCEPT ![current_id] = score]
       /\ max_score' = IF Better(score) THEN score ELSE max_score
       /\ best_node_id' = IF Better(score) THEN current_id ELSE best_node_id
  /\ pc' = "scan" /\ current_id' = current_id + 1
  /\ UNCHANGED <<cluster_status, mark>>

\* No node, or no socket for it: the spawn ends without a task sent.
ScanNone ==
  /\ pc = "scan" /\ current_id > MAX_PEERS
  /\ pc' = "idle"
  /\ UNCHANGED <<cluster_status, scan, mark>>

ScanWinner ==
  /\ pc = "scan" /\ current_id > MAX_PEERS /\ best_node_id # -1
  /\ todo' = {best_node_id} /\ pc' = "mark"
  /\ UNCHANGED <<cluster_status, scan, node_id, queue_len>>

\* velum_spawn_wasm_distributed marks every worker it has a socket for.
Scatter(workers) ==
  /\ pc = "idle"
  /\ todo' = workers /\ pc' = "mark"
  /\ current_id' = 0 /\ best_node_id' = -1 /\ max_score' = FirstBound
  /\ seen' = [n \in Ids |-> Unseen]
  /\ UNCHANGED <<cluster_status, node_id, queue_len>>

\* mark_node_busy, the load ...
mark_node_busy(n) ==
  /\ pc = "mark" /\ n \in todo
  /\ todo' = todo \ {n}
  /\ IF n > 0 /\ n <= MAX_PEERS
     THEN node_id' = n /\ queue_len' = cluster_status[n].task_queue_len /\ pc' = "store"
     ELSE UNCHANGED <<node_id, queue_len, pc>>
  /\ UNCHANGED <<cluster_status, scan>>

\* The sum is cut to a byte again.  Mutant: it is kept as the int it is.
Incremented_Wide(q) == q + 1
Incremented(q) == (q + 1) % (QueueMax + 1)

\* ... and the store, which overwrites a report that came in between.
MarkStore ==
  /\ pc = "store"
  /\ cluster_status' = [cluster_status EXCEPT ![node_id].task_queue_len = Incremented(queue_len)]
  /\ pc' = "mark" /\ node_id' = -1 /\ queue_len' = 0
  /\ UNCHANGED <<scan, todo>>

MarkDone ==
  /\ pc = "mark" /\ todo = {}
  /\ pc' = "idle"
  /\ UNCHANGED <<cluster_status, scan, mark>>

Engine == \E n \in Senders : handle_disconnect(n) \/ \E r \in Reports : handle_message(n, r)
User ==
  \/ find_best_node \/ ScanSkip \/ ScanKnown \/ ScanScore \/ ScanNone \/ ScanWinner
  \/ \E workers \in SUBSET (Senders \ {0}) : Scatter(workers)
  \/ \E n \in Senders : mark_node_busy(n)
  \/ MarkStore \/ MarkDone
Next == Engine \/ User

Spec == Init /\ [][Next]_vars

-----------------------------------------------------------------------------
\* Every variable has its type; task_queue_len stays in its byte.
TypeOK ==
  /\ cluster_status \in [Ids -> NodeStatus]
  /\ pc \in {"idle", "scan", "score", "mark", "store"}
  /\ current_id \in 0 .. MAX_PEERS + 1
  /\ best_node_id \in Ids \cup {-1}
  /\ max_score \in Int
  /\ seen \in [Ids -> Int]
  /\ todo \subseteq Nat
  /\ node_id \in Ids \cup {-1}
  /\ queue_len \in 0 .. QueueMax

Considered == {n \in Ids : seen[n] # Unseen}

\* find_best_node returns the node with the highest of the scores it computed,
\* the lowest id among equals, and -1 only if it met no other node that has
\* reported; never entry 0 and never this node.  Reports that land during the
\* scan do not upset this.
ElectsBest ==
  pc = "scan" /\ current_id > MAX_PEERS =>
    IF Considered = {} THEN best_node_id = -1
    ELSE /\ best_node_id \in Considered \ {0, my_id}
         /\ \A n \in Considered :
              /\ seen[n] <= seen[best_node_id]
              /\ n < best_node_id => seen[n] < seen[best_node_id]

\* From the moment find_best_node prefers a node until the task it is sent has
\* been counted, the node keeps its status: no disconnect comes in between.
WinnerStaysKnown ==
  best_node_id # -1 /\ pc # "idle" => cluster_status[best_node_id].ram_free_kb > 0

=============================================================================
