------------------------------ MODULE Cluster ------------------------------
(***************************************************************************)
(* Several VelumOS nodes and the tasks that travel between them.           *)
(*                                                                         *)
(* Each node runs the engine and the user thread of src/src/velum_core.cpp *)
(* at the grain of whole messages: descriptors and status reports are the  *)
(* matter of VelumKernel, elections that of Scheduler, and here a spawn    *)
(* may choose any node that it has a socket to.                            *)
(*                                                                         *)
(* Between two nodes there is at most one connection for each of them that *)
(* dialled; it has an end at both, and each end has its own fate.          *)
(***************************************************************************)
EXTENDS Naturals, Sequences, FiniteSets

CONSTANTS
  Nodes,
  Dialable,    \* the nodes with an id below MAX_PEERS
  Tasks,       \* the tasks that users ask for, each at most once
  InboundMax,  \* the length of inbound_sockets
  Crowded,     \* the nodes whose inbound_sockets others, not modelled, may fill
  NoTask, NoNode

ASSUME NodesAssumption == IsFiniteSet(Nodes) /\ Dialable \subseteq Nodes /\ NoNode \notin Nodes
ASSUME TasksAssumption == NoTask \notin Tasks
ASSUME InboundAssumption == InboundMax \in Nat /\ Crowded \subseteq Nodes

Tables == {"peer", "inbound"}
Other(d) == IF d = "peer" THEN "inbound" ELSE "peer"
\* <<n, m, d>> is the socket to m in n's table d; Far is its other end.
Ends == {e \in Nodes \X Nodes \X Tables : e[1] # e[2]}
Far(e) == <<e[2], e[1], Other(e[3])>>

VARIABLES
  alive,          \* the nodes that are running
  sock,           \* per end: "none", "backlog" (not accepted yet) or "held"
  inbox,          \* per end: what its node can still read from it
  pending_tasks,  \* per node and worker: the ledger
  executing,      \* per node: the task in the sandbox
  requester, worker,  \* per task: who sent it to whom
  returned,       \* the tasks whose result was printed
  crashed         \* history: the nodes that have ever crashed

net   == <<sock, inbox>>
tasks == <<requester, worker>>
vars  == <<alive, net, pending_tasks, executing, tasks, returned, crashed>>

Init ==
  /\ alive = Nodes
  /\ sock = [e \in Ends |-> "none"]
  /\ inbox = [e \in Ends |-> <<>>]
  /\ pending_tasks = [n \in Nodes |-> [w \in Nodes |-> NoTask]]
  /\ executing = [n \in Nodes |-> NoTask]
  /\ requester = [t \in Tasks |-> NoNode]
  /\ worker = [t \in Tasks |-> NoNode]
  /\ returned = {} /\ crashed = {}

\* The engine of n is in its loop, not in the sandbox.
Looping(n) == n \in alive /\ executing[n] = NoTask

\* What is sent on an end is there to be read at its far end, accepted or not;
\* if that is gone, the message is gone with it.
Sent(e, m) ==
  IF sock[Far(e)] = "none" THEN inbox ELSE [inbox EXCEPT ![Far(e)] = Append(@, m)]

-----------------------------------------------------------------------------
\* A beacon of m is read by n, which has no socket of its own to m.  The model
\* waits until m has closed its end of the connection before.
Dial(n, m) ==
  LET e == <<n, m, "peer">> IN
  /\ Looping(n) /\ m \in alive \cap Dialable
  /\ sock[e] = "none" /\ sock[Far(e)] = "none"
  /\ sock' = [sock EXCEPT ![e] = "held", ![Far(e)] = "backlog"]
  /\ inbox' = [inbox EXCEPT ![e] = <<>>, ![Far(e)] = <<>>]
  /\ UNCHANGED <<alive, pending_tasks, executing, tasks, returned, crashed>>

Inbound(n) == {e \in Ends : e[1] = n /\ e[3] = "inbound" /\ sock[e] = "held"}

Accept(e) ==
  /\ Looping(e[1]) /\ sock[e] = "backlog"
  /\ Cardinality(Inbound(e[1])) < InboundMax
  /\ sock' = [sock EXCEPT ![e] = "held"]
  /\ UNCHANGED <<alive, inbox, pending_tasks, executing, tasks, returned, crashed>>

\* The inbound table is full: the connection is closed with all that is in it.
Refuse(e) ==
  /\ Looping(e[1]) /\ sock[e] = "backlog"
  /\ Cardinality(Inbound(e[1])) >= InboundMax \/ e[1] \in Crowded
  /\ sock' = [sock EXCEPT ![e] = "none"]
  /\ inbox' = [inbox EXCEPT ![e] = <<>>]
  /\ UNCHANGED <<alive, pending_tasks, executing, tasks, returned, crashed>>

-----------------------------------------------------------------------------
\* The end by which n sends a task to w: the one it dialled, else an inbound one.
Target(n, w) == IF sock[<<n, w, "peer">>] = "held" THEN <<n, w, "peer">> ELSE <<n, w, "inbound">>

\* One send of a spawn; only a scatter enters it into the ledger.
Spawn(n, w, t, scatter) ==
  /\ n \in alive /\ n # w
  /\ requester[t] = NoNode
  /\ sock[Target(n, w)] = "held"
  /\ requester' = [requester EXCEPT ![t] = n] /\ worker' = [worker EXCEPT ![t] = w]
  /\ inbox' = Sent(Target(n, w), [type |-> "TASK_REQUEST", task |-> t])
  /\ pending_tasks' = IF scatter THEN [pending_tasks EXCEPT ![n][w] = t] ELSE pending_tasks
  /\ UNCHANGED <<alive, sock, executing, returned, crashed>>

\* Mutant: what was read can be read again.
Consumed_Kept(e) == inbox
Consumed(e) == [inbox EXCEPT ![e] = Tail(@)]

\* handle_sock reads one message from an end.
Read(e, type) ==
  /\ Looping(e[1]) /\ sock[e] = "held"
  /\ inbox[e] # <<>> /\ Head(inbox[e]).type = type
  /\ inbox' = Consumed(e)
  /\ UNCHANGED <<alive, sock, pending_tasks, tasks, crashed>>

RecvTask(e) ==
  /\ Read(e, "TASK_REQUEST")
  /\ executing' = [executing EXCEPT ![e[1]] = Head(inbox[e]).task]
  /\ UNCHANGED returned

\* The result is printed.  The ledger keeps its entry.
RecvResult(e) ==
  /\ Read(e, "TASK_RESULT")
  /\ returned' = returned \cup {Head(inbox[e]).task}
  /\ UNCHANGED executing

\* The sandbox is done: the result goes to the socket this node dialled to the
\* requester, and nowhere when there is none.
Reply(n) ==
  /\ n \in alive /\ executing[n] # NoTask
  /\ LET e == <<n, requester[executing[n]], "peer">> IN
       inbox' = IF sock[e] = "held"
                THEN Sent(e, [type |-> "TASK_RESULT", task |-> executing[n]]) ELSE inbox
  /\ executing' = [executing EXCEPT ![n] = NoTask]
  /\ UNCHANGED <<alive, sock, pending_tasks, tasks, returned, crashed>>

\* Mutant: the end of a connection is taken before what was sent on it.
Drained_Early(e) == sock[Far(e)] = "none"
Drained(e) == sock[Far(e)] = "none" /\ inbox[e] = <<>>

\* The table entry becomes 0.
Zeroed == "none"

\* End of file: the ledger entry of the node at the other end is erased, unless
\* it is an inbound socket that never spoke.  Nothing is sent again.
CloseDead(e) ==
  /\ Looping(e[1]) /\ sock[e] = "held" /\ Drained(e)
  /\ sock' = [sock EXCEPT ![e] = Zeroed]
  /\ inbox' = [inbox EXCEPT ![e] = <<>>]
  /\ \/ pending_tasks' = [pending_tasks EXCEPT ![e[1]][e[2]] = NoTask]
     \/ e[3] = "inbound" /\ UNCHANGED pending_tasks
  /\ UNCHANGED <<alive, executing, tasks, returned, crashed>>

-----------------------------------------------------------------------------
\* A process ends, by a signal or at the end of its input.  What it sent can
\* still be read; what it has not read is gone.
Crash(n) ==
  /\ n \in alive
  /\ alive' = alive \ {n} /\ crashed' = crashed \cup {n}
  /\ sock' = [e \in Ends |-> IF e[1] = n THEN "none" ELSE sock[e]]
  /\ inbox' = [e \in Ends |-> IF e[1] = n THEN <<>> ELSE inbox[e]]
  /\ pending_tasks' = [pending_tasks EXCEPT ![n] = [w \in Nodes |-> NoTask]]
  /\ executing' = [executing EXCEPT ![n] = NoTask]
  /\ UNCHANGED <<tasks, returned>>

velum_init(n) ==
  /\ n \notin alive
  /\ alive' = alive \cup {n}
  /\ UNCHANGED <<net, pending_tasks, executing, tasks, returned, crashed>>

Next ==
  \/ \E n, m \in Nodes : n # m /\ Dial(n, m)
  \/ \E e \in Ends : Accept(e) \/ Refuse(e) \/ RecvTask(e) \/ RecvResult(e) \/ CloseDead(e)
  \/ \E n, w \in Nodes, t \in Tasks, s \in BOOLEAN : Spawn(n, w, t, s)
  \/ \E n \in Nodes : Reply(n) \/ Crash(n) \/ velum_init(n)

Spec == Init /\ [][Next]_vars

\* The engine loop comes round to every socket, and a task's function returns.
EngineStep(e) == Accept(e) \/ Refuse(e) \/ RecvTask(e) \/ RecvResult(e) \/ CloseDead(e)
FairSpec == Spec /\ (\A e \in Ends : WF_vars(EngineStep(e))) /\ (\A n \in Nodes : WF_vars(Reply(n)))

-----------------------------------------------------------------------------
(***************************************************************************)
(* Correctness.                                                            *)
(***************************************************************************)
\* The ends at which a message of a type about a task waits to be read.
At(type, t) ==
  {e \in Ends : \E i \in DOMAIN inbox[e] : inbox[e][i] = [type |-> type, task |-> t]}

Status(t) ==
  CASE requester[t] = NoNode                -> "unsent"
    [] t \in returned                       -> "returned"
    [] \E n \in Nodes : executing[n] = t    -> "running"
    [] At("TASK_RESULT", t) # {}            -> "answered"
    [] At("TASK_REQUEST", t) # {}           -> "queued"
    [] OTHER                                -> "lost"
status == [t \in Tasks |-> Status(t)]

\* The refinement: whatever nodes crash, restart and reconnect, the cluster runs
\* every task at most once and prints its result at most once, after the run.
D == INSTANCE Dispatch WITH Tasks <- Tasks, status <- status
ImplementsDispatch == D!Spec

\* A worker can answer by the connection it dialled, and its requester has not
\* closed that.
Answerable(t) ==
  LET e == <<worker[t], requester[t], "peer">> IN sock[e] = "held" /\ sock[Far(e)] # "none"

\* A connection that ends takes nothing with it: a task or a result on its way is
\* lost only if the node that was to read it crashes, or refuses the connection.  A
\* task that runs is lost only if its worker crashes, or ends it with no connection
\* to answer by.
LossHasACause ==
  [][\A t \in Tasks : status[t]' = "lost" =>
       /\ status[t] \in {"queued", "answered"} =>
            \E e \in At("TASK_REQUEST", t) \cup At("TASK_RESULT", t) :
              \/ e[1] \notin alive'
              \/ sock[e] = "backlog" /\ sock[e]' = "none"
       /\ status[t] = "running" => worker[t] \notin alive' \/ ~Answerable(t)]_vars

\* No task is stuck: the engine loops bring each to its result or to its loss.
Settles == \A t \in Tasks : status[t] = "queued" ~> status[t] \in {"returned", "lost"}

-----------------------------------------------------------------------------
(***************************************************************************)
(* What README.md says of the cluster and the code does not keep: TLC      *)
(* finds a counterexample to each, with three nodes to the second.         *)
(***************************************************************************)
\* "Node 1 packages the arguments, sends the binary to Node 2, executes it in a
\* sandbox, and returns 60": no task is lost while nobody has crashed.
LostOnlyByCrash ==
  \A t \in Tasks : status[t] = "lost" => requester[t] \in crashed \/ worker[t] \in crashed

\* "If a worker vanishes, the kernel seamlessly re-assigns its workload to the next
\* best candidate": a task leaves the ledger with its result there, or, as long as
\* there is another node to send it to, for that node.
LedgerMovesOn ==
  [][\A n, w \in Nodes :
       LET t == pending_tasks[n][w] IN
       /\ t # NoTask /\ t # pending_tasks'[n][w] /\ n \in alive'
       /\ \E m \in Nodes \ {n, w} : sock[Target(n, m)] = "held"
       => t \in returned \/ \E m \in Nodes \ {w} : pending_tasks'[n][m] = t]_vars
=============================================================================
