---------------------------- MODULE VelumKernel ----------------------------
(***************************************************************************)
(* One VelumOS node, at the level of its file descriptors and threads.     *)
(*                                                                         *)
(* Two threads share the socket tables, the cluster status and the task    *)
(* ledger of src/src/velum_core.cpp:                                       *)
(*   - the engine thread, velum_engine_loop: select, heartbeats, discovery,*)
(*     accept, and one read per ready socket;                              *)
(*   - the user thread, main: velum_spawn_wasm and                         *)
(*     velum_spawn_wasm_distributed.                                       *)
(* api_mutex protects the ledger and (partly) the cluster status; the      *)
(* socket tables are read by the user thread while the engine changes them *)
(* without the lock, so each of its reads of a table entry is a step of    *)
(* its own.  (A build may merge two of them: that is the behaviour in      *)
(* which the engine takes no step between them.)  The other nodes and the  *)
(* TCP stack are the environment: peers come up, dial, are dialled, speak, *)
(* refuse and crash.                                                       *)
(*                                                                         *)
(* Node ids are abstract.  Dialable are the ids 1..MAX_PEERS-1 that have   *)
(* an entry in peer_sockets, Tracked the ids 1..MAX_PEERS that have an     *)
(* entry in cluster_status; a node started with a larger id is neither.    *)
(***************************************************************************)
EXTENDS Integers, Sequences, FiniteSets

CONSTANTS
  Peers,       \* the ids of the other nodes
  Dialable,    \* those with an entry in peer_sockets (id < MAX_PEERS)
  Tracked,     \* those with an entry in cluster_status (id <= MAX_PEERS)
  Fds,         \* the descriptors the process can get for a connection
  InboundMax,  \* the length of inbound_sockets (MAX_PEERS in the code)
  InboxMax,    \* bound: unread messages per connection
  BacklogMax,  \* bound: connections that wait for accept (listen's 3 in the code)
  PeerMsgs,    \* the kinds of message the peers of this instance send
  Commands,    \* the spawns the user of this instance asks for
  NoFd,        \* table entry 0: no socket
  BadFd,       \* table entry -1: the result of an accept that failed
  NoId         \* socket_to_id entry -1: nobody spoke on this descriptor

ASSUME IdsAssumption == Dialable \subseteq Tracked /\ Tracked \subseteq Peers
ASSUME MarkersAssumption == /\ NoFd \notin Fds /\ BadFd \notin Fds
                            /\ NoFd # BadFd /\ NoId \notin Peers
ASSUME BoundsAssumption == InboundMax \in Nat /\ InboxMax \in Nat /\ BacklogMax \in Nat
\* Both tables can be full: the process does not run out of descriptors first.
ASSUME FdsAssumption == /\ IsFiniteSet(Fds) /\ IsFiniteSet(Dialable)
                        /\ Cardinality(Fds) >= Cardinality(Dialable) + InboundMax

Slots == 0 .. InboundMax - 1

VARIABLES
  \* Static data of velum_core.cpp and node_logic.cpp.
  peer_sockets,     \* per dialable id, the connection this node opened
  inbound_sockets,  \* per slot, a connection this node accepted
  socket_to_id,     \* per descriptor, who is thought to be at the other end
  known,            \* ids whose cluster_status has ram_free_kb > 0
  pending_tasks,    \* ids that have an entry in the ledger
  api_mutex,        \* "free" or "main"; the engine never keeps it across steps
  \* The engine thread: where it is, select's result, the node it deals with.
  epc, readfds, server_ready, subject,
  \* The user thread: where it is, and the locals of the spawn functions.
  mpc, op,
  slept,            \* the first find_all_workers came back empty
  workers,          \* the workers found and not yet dealt with
  unread,           \* ids whose peer_sockets find_all_workers has yet to read
  winner,           \* the worker a socket is being looked up for
  slot, entry,      \* index into inbound_sockets, and the last entry read from it
  target,           \* the local of that name, -1 while there is none
  \* History, to tell an undisturbed lookup from the others.
  seen,             \* what the last test of an entry saw, until that is closed
  fresh,            \* target is what its test saw, identified, and still not closed
  \* The process, and its environment.
  proc,             \* "running", "exited", or the send that killed the process
  up,               \* peers that are running
  backlog,          \* connections peers opened that wait for accept
  conn              \* per descriptor, the TCP connection behind it

tables == <<peer_sockets, inbound_sockets, socket_to_id>>
sched  == <<known, pending_tasks>>
engine == <<epc, readfds, server_ready, subject>>
lookup == <<winner, slot, entry, target, seen, fresh>>
spawn  == <<api_mutex, mpc, op, slept, workers, unread, lookup>>
world  == <<up, backlog, conn>>
vars   == <<tables, sched, engine, spawn, proc, world>>

\* HEARTBEAT is ignored, TASK_PROGRESS handled like TASK_RESULT, and no node
\* sends a TASK_REQUEST other than EXECUTE_WASM.
MsgTypes == {"STATUS_REPORT", "TASK_REQUEST", "TASK_RESULT"}
ASSUME MsgsAssumption == PeerMsgs \subseteq MsgTypes
ASSUME CommandsAssumption == Commands \subseteq {"wasm", "scatter"}

(***************************************************************************)
(* A connection is "dialing" until the peer's own accept took it, then     *)
(* "open".  It is "gone" once the peer closed it; the first send on a gone *)
(* connection is absorbed (it draws an RST) and leaves it "broken"; a send *)
(* on a broken connection raises SIGPIPE.                                  *)
(***************************************************************************)
ConnStates == {"closed", "dialing", "open", "gone", "broken"}
Conns == [st : ConnStates, remote : Peers \cup {NoId},
          inbox : Seq(MsgTypes), ident : BOOLEAN]
NewConn(s, p, b) == [st |-> s, remote |-> p, inbox |-> <<>>, ident |-> b]
Closed == NewConn("closed", NoId, FALSE)

PeerFds  == {fd \in Fds : \E p \in Dialable : peer_sockets[p] = fd}
InFds    == {fd \in Fds : \E s \in Slots : inbound_sockets[s] = fd}
TableFds == PeerFds \cup InFds
FreeFds  == {fd \in Fds : conn[fd].st = "closed"}

(***************************************************************************)
(* The state of a process that has just run velum_init and the table       *)
(* initialisation at the head of velum_engine_loop.                        *)
(***************************************************************************)
Started ==
  /\ peer_sockets = [p \in Dialable |-> NoFd]
  /\ inbound_sockets = [s \in Slots |-> NoFd]
  /\ socket_to_id = [fd \in Fds |-> NoId]
  /\ known = {} /\ pending_tasks = {} /\ api_mutex = "free"
  /\ epc = "select" /\ readfds = {} /\ server_ready = FALSE /\ subject = NoId
  /\ mpc = "idle" /\ op = "none" /\ slept = FALSE /\ workers = {} /\ unread = {}
  /\ winner = NoId /\ slot = 0 /\ entry = NoFd
  /\ target = BadFd /\ seen = NoFd /\ fresh = FALSE
  /\ backlog = {} /\ conn = [fd \in Fds |-> Closed]

Init == Started /\ proc = "running" /\ up = Peers
alive == proc = "running"

\* The process is gone: the operating system closes everything it held, and
\* what is left is the state the next process will start from.
Die(how) ==
  /\ peer_sockets' = [p \in Dialable |-> NoFd]
  /\ inbound_sockets' = [s \in Slots |-> NoFd]
  /\ socket_to_id' = [fd \in Fds |-> NoId]
  /\ known' = {} /\ pending_tasks' = {} /\ api_mutex' = "free"
  /\ epc' = "select" /\ readfds' = {} /\ server_ready' = FALSE /\ subject' = NoId
  /\ mpc' = "idle" /\ op' = "none" /\ slept' = FALSE /\ workers' = {} /\ unread' = {}
  /\ winner' = NoId /\ slot' = 0 /\ entry' = NoFd
  /\ target' = BadFd /\ seen' = NoFd /\ fresh' = FALSE
  /\ backlog' = {} /\ conn' = [fd \in Fds |-> Closed]
  /\ proc' = how
  /\ UNCHANGED up

velum_init ==
  /\ ~alive
  /\ proc' = "running"
  /\ UNCHANGED <<tables, sched, engine, spawn, world>>

(***************************************************************************)
(* send_message on every descriptor of S, without MSG_NOSIGNAL and without *)
(* a look at the result.  A closed descriptor gives EBADF, descriptor 0,   *)
(* the terminal, ENOTSOCK.                                                 *)
(***************************************************************************)
Fatal(S) == \E fd \in S : conn[fd].st = "broken"
AfterSend(S) ==
  [fd \in Fds |-> IF fd \in S /\ conn[fd].st = "gone"
                  THEN [conn[fd] EXCEPT !.st = "broken"] ELSE conn[fd]]

-----------------------------------------------------------------------------
(***************************************************************************)
(* The engine thread.  epc is the last thing it did in this iteration of   *)
(* its loop: "select", then "heartbeat" when one was due, "beacon" when a  *)
(* beacon made it dial, "accept" when a connection was waiting, and then   *)
(* "handle" with the states of a handler that has to wait or to compute.   *)
(* An iteration ends when select's result is used up.                      *)
(***************************************************************************)
IterationPhases == {"select", "heartbeat", "beacon", "accept", "handle"}

Readable(fd) == conn[fd].inbox # <<>> \/ conn[fd].st \in {"gone", "broken"}

\* Mutant: select's verdict is not used, every descriptor counts as ready.
Polled_Unchecked == TableFds
Polled == {fd \in TableFds : Readable(fd)}

Select ==
  /\ alive /\ epc \in IterationPhases /\ readfds = {} /\ ~server_ready
  /\ readfds' = Polled
  /\ server_ready' = (backlog # {})
  /\ epc' = "select"
  /\ UNCHANGED <<tables, sched, subject, spawn, proc, world>>

\* Every 500 ms a status report goes to all sockets of both tables.
Heartbeat ==
  /\ alive /\ epc = "select"
  /\ \/ /\ ~Fatal(TableFds)
        /\ conn' = AfterSend(TableFds)
        /\ epc' = "heartbeat"
        /\ UNCHANGED <<tables, sched, readfds, server_ready, subject, spawn, proc, up, backlog>>
     \/ Fatal(TableFds) /\ Die("killed by heartbeat")

\* A beacon of p is read and p is dialled, unless a socket to p exists.
Discover(p) ==
  /\ alive /\ epc \in {"select", "heartbeat"}
  /\ p \in up /\ p \in Dialable
  /\ peer_sockets[p] = NoFd
  /\ \E fd \in FreeFds :
       /\ peer_sockets' = [peer_sockets EXCEPT ![p] = fd]
       /\ socket_to_id' = [socket_to_id EXCEPT ![fd] = p]
       /\ conn' = [conn EXCEPT ![fd] = NewConn("dialing", p, TRUE)]
  /\ epc' = "beacon"
  /\ UNCHANGED <<inbound_sockets, sched, readfds, server_ready, subject, spawn, proc, up, backlog>>

FirstFree(s) ==
  inbound_sockets[s] = NoFd /\ \A t \in Slots : t < s => inbound_sockets[t] # NoFd

\* accept hands out a free descriptor; socket_to_id keeps what it held for it.
Accept(b) ==
  /\ alive /\ epc \in {"select", "heartbeat", "beacon"} /\ server_ready
  /\ b \in backlog
  /\ \E fd \in FreeFds, s \in Slots :
       /\ FirstFree(s)
       /\ inbound_sockets' = [inbound_sockets EXCEPT ![s] = fd]
       /\ conn' = [conn EXCEPT ![fd] = NewConn(IF b.up THEN "open" ELSE "gone", b.id, FALSE)]
  /\ backlog' = backlog \ {b}
  /\ epc' = "accept" /\ server_ready' = FALSE
  /\ UNCHANGED <<peer_sockets, socket_to_id, sched, readfds, subject, spawn, proc, up>>

\* accept fails on a connection its peer has already aborted: -1 is stored.
AcceptFails(b) ==
  /\ alive /\ epc \in {"select", "heartbeat", "beacon"} /\ server_ready
  /\ b \in backlog /\ ~b.up
  /\ \E s \in Slots :
       FirstFree(s) /\ inbound_sockets' = [inbound_sockets EXCEPT ![s] = BadFd]
  /\ backlog' = backlog \ {b}
  /\ epc' = "accept" /\ server_ready' = FALSE
  /\ UNCHANGED <<peer_sockets, socket_to_id, sched, readfds, subject, spawn, proc, up, conn>>

\* All inbound slots are taken: the new connection is closed at once.
AcceptNoSlot(b) ==
  /\ alive /\ epc \in {"select", "heartbeat", "beacon"} /\ server_ready
  /\ b \in backlog
  /\ \A s \in Slots : ~FirstFree(s)
  /\ backlog' = backlog \ {b}
  /\ epc' = "accept" /\ server_ready' = FALSE
  /\ UNCHANGED <<tables, sched, readfds, subject, spawn, proc, up, conn>>

(***************************************************************************)
(* handle_sock runs over peer_sockets first and over inbound_sockets next; *)
(* within a table the model leaves the order open.                         *)
(***************************************************************************)
Turn(fd) ==
  /\ alive /\ epc \in IterationPhases /\ ~server_ready
  /\ fd \in readfds /\ fd \in TableFds
  /\ fd \in PeerFds \/ readfds \cap PeerFds = {}

\* Mutants: the entry keeps the closed descriptor; it becomes -1.
Zeroed_Kept(table, fd) == table
Zeroed_MinusOne(table, fd) == [i \in DOMAIN table |-> IF table[i] = fd THEN BadFd ELSE table[i]]
Zeroed(table, fd) == [i \in DOMAIN table |-> IF table[i] = fd THEN NoFd ELSE table[i]]

\* read returns 0 or -1.  The table entry is zeroed before socket_to_id is
\* reset, so the reset hits socket_to_id[0] and the entry of fd survives.  A
\* read of the user thread between close and that write sees what it would have
\* seen before the close, so the two are one step.
CloseDead(fd) ==
  /\ Turn(fd)
  /\ conn[fd].inbox = <<>> /\ conn[fd].st \in {"gone", "broken"}
  /\ peer_sockets' = Zeroed(peer_sockets, fd)
  /\ inbound_sockets' = Zeroed(inbound_sockets, fd)
  /\ conn' = [conn EXCEPT ![fd] = Closed]
  /\ readfds' = readfds \ {fd}
  /\ subject' = socket_to_id[fd]
  /\ epc' = IF socket_to_id[fd] = NoId THEN "handle" ELSE "death"
  /\ seen' = IF seen = fd THEN NoFd ELSE seen
  /\ fresh' = (fresh /\ target # fd)
  /\ UNCHANGED <<socket_to_id, sched, server_ready, api_mutex, mpc, op, slept, workers,
                 unread, winner, slot, entry, target, proc, up, backlog>>

\* Mutant: the engine does not wait for the user thread.
lock_guard_Missing == TRUE
lock_guard == api_mutex = "free"

\* The status of a tracked node is zeroed.  Mutant: it is not.
handle_disconnect_Noop(p) == known
handle_disconnect(p) == known \ {p}

\* Under api_mutex: handle_disconnect clears the status, the ledger entry goes.
Death ==
  /\ alive /\ epc = "death"
  /\ lock_guard
  /\ known' = handle_disconnect(subject)
  /\ pending_tasks' = pending_tasks \ {subject}
  /\ epc' = "handle" /\ subject' = NoId
  /\ UNCHANGED <<tables, readfds, server_ready, spawn, proc, world>>

\* Mutant: only the first message on a descriptor says who is there.
Identified_Once(fd) == IF socket_to_id[fd] = NoId
                       THEN [socket_to_id EXCEPT ![fd] = conn[fd].remote] ELSE socket_to_id
Identified(fd) == [socket_to_id EXCEPT ![fd] = conn[fd].remote]

\* read returns a message: its sender is now the owner of the descriptor.
Receive(fd, type) ==
  /\ Turn(fd)
  /\ conn[fd].inbox # <<>> /\ Head(conn[fd].inbox) = type
  /\ conn' = [conn EXCEPT ![fd].inbox = Tail(@), ![fd].ident = TRUE]
  /\ socket_to_id' = Identified(fd)
  /\ readfds' = readfds \ {fd}
  /\ UNCHANGED <<peer_sockets, inbound_sockets, pending_tasks, server_ready,
                 spawn, proc, up, backlog>>

RecvStatus(fd) ==
  /\ Receive(fd, "STATUS_REPORT")
  /\ known' = known \cup ({conn[fd].remote} \cap Tracked)
  /\ epc' = "handle" /\ UNCHANGED subject

RecvTask(fd) ==
  /\ Receive(fd, "TASK_REQUEST")
  /\ epc' = "execute" /\ subject' = conn[fd].remote
  /\ UNCHANGED known

\* The sandbox has run; the reply takes this node's own connection to the
\* requester and is dropped when there is none.
Reply ==
  /\ alive /\ epc = "execute"
  /\ LET S == {fd \in Fds : subject \in Dialable /\ peer_sockets[subject] = fd} IN
     \/ /\ ~Fatal(S)
        /\ conn' = AfterSend(S)
        /\ epc' = "handle" /\ subject' = NoId
        /\ UNCHANGED <<tables, sched, readfds, server_ready, spawn, proc, up, backlog>>
     \/ Fatal(S) /\ Die("killed by reply")

RecvResult(fd) ==
  /\ Receive(fd, "TASK_RESULT")
  /\ epc' = "result" /\ subject' = conn[fd].remote
  /\ UNCHANGED known

\* Under api_mutex: the result is printed; ledger and jobs are left alone.
Callback ==
  /\ alive /\ epc = "result"
  /\ lock_guard
  /\ epc' = "handle" /\ subject' = NoId
  /\ UNCHANGED <<tables, sched, readfds, server_ready, spawn, proc, world>>

Engine ==
  \/ Select \/ Heartbeat
  \/ (\E p \in Dialable : Discover(p))
  \/ (\E b \in backlog : Accept(b) \/ AcceptFails(b) \/ AcceptNoSlot(b))
  \/ (\E fd \in Fds : CloseDead(fd) \/ RecvStatus(fd) \/ RecvTask(fd) \/ RecvResult(fd))
  \/ Death \/ Reply \/ Callback

-----------------------------------------------------------------------------
(***************************************************************************)
(* The user thread.  A spawn holds api_mutex from its first to its last    *)
(* line, the one-second sleep of velum_spawn_wasm_distributed included.    *)
(* A file that is missing or too big ends a spawn before it does anything. *)
(***************************************************************************)
\* find_best_node: the load figures are random, so any tracked node can win.
velum_spawn_wasm ==
  /\ "wasm" \in Commands
  /\ alive /\ mpc = "idle" /\ api_mutex = "free"
  /\ \E p \in known : workers' = {p}
  /\ api_mutex' = "main" /\ mpc' = "loop" /\ op' = "wasm"
  /\ UNCHANGED <<tables, sched, engine, slept, unread, lookup, proc, world>>

velum_spawn_wasm_distributed ==
  /\ "scatter" \in Commands
  /\ alive /\ mpc = "idle" /\ api_mutex = "free"
  /\ api_mutex' = "main" /\ mpc' = "find" /\ op' = "scatter" /\ unread' = Dialable
  /\ UNCHANGED <<tables, sched, engine, slept, workers, lookup, proc, world>>

(***************************************************************************)
(* find_all_workers reads every entry of peer_sockets, then per inbound    *)
(* slot the descriptor and, when there is one, the id of its owner.  Node  *)
(* ids are abstract, so the model leaves the order of the ids open.        *)
(***************************************************************************)
FindPeer(p) ==
  /\ alive /\ mpc = "find" /\ p \in unread
  /\ unread' = unread \ {p}
  /\ workers' = IF peer_sockets[p] # NoFd THEN workers \cup {p} ELSE workers
  /\ UNCHANGED <<tables, sched, engine, api_mutex, mpc, op, slept, lookup, proc, world>>

FindInbound ==
  /\ alive /\ mpc = "find" /\ unread = {} /\ slot \in Slots
  /\ \/ /\ inbound_sockets[slot] \in Fds
        /\ entry' = inbound_sockets[slot] /\ mpc' = "owner"
        /\ UNCHANGED slot
     \/ /\ inbound_sockets[slot] \notin Fds
        /\ slot' = slot + 1
        /\ UNCHANGED <<entry, mpc>>
  /\ UNCHANGED <<tables, sched, engine, api_mutex, op, slept, workers, unread, winner,
                 target, seen, fresh, proc, world>>

FindOwner ==
  /\ alive /\ mpc = "owner"
  /\ workers' = workers \cup ({socket_to_id[entry]} \ {NoId})
  /\ slot' = slot + 1 /\ entry' = NoFd /\ mpc' = "find"
  /\ UNCHANGED <<tables, sched, engine, api_mutex, op, slept, unread, winner,
                 target, seen, fresh, proc, world>>

Found ==
  /\ alive /\ mpc = "find" /\ unread = {} /\ slot \notin Slots
  /\ slot' = 0
  /\ IF workers = {} /\ ~slept THEN mpc' = "sleep" /\ UNCHANGED slept
                             ELSE mpc' = "loop" /\ slept' = FALSE
  /\ UNCHANGED <<tables, sched, engine, api_mutex, op, workers, unread, winner,
                 entry, target, seen, fresh, proc, world>>

\* One second later the workers are looked for once more.
SleepOver ==
  /\ alive /\ mpc = "sleep"
  /\ mpc' = "find" /\ slept' = TRUE /\ unread' = Dialable
  /\ UNCHANGED <<tables, sched, engine, api_mutex, op, workers, lookup, proc, world>>

\* The end of a spawn, with all locals gone.
Return ==
  /\ alive /\ mpc = "loop" /\ workers = {}
  /\ api_mutex' = "free" /\ mpc' = "idle" /\ op' = "none"
  /\ UNCHANGED <<tables, sched, engine, slept, workers, unread, lookup, proc, world>>

(***************************************************************************)
(* The socket for a worker, as both spawns look it up: its own entry of    *)
(* peer_sockets when that holds one, else the last inbound socket that is  *)
(* thought to be the worker's.  Every entry is tested by one read and      *)
(* taken by another, so what is taken may be 0 by then, or what the engine *)
(* has put there since.                                                    *)
(***************************************************************************)
TestPeer(w) ==
  /\ alive /\ mpc = "loop" /\ w \in workers
  /\ workers' = workers \ {w} /\ winner' = w
  /\ \/ /\ w \in Dialable /\ peer_sockets[w] # NoFd
        /\ seen' = peer_sockets[w] /\ mpc' = "peer"
     \/ /\ ~(w \in Dialable /\ peer_sockets[w] # NoFd)
        /\ mpc' = "scan" /\ UNCHANGED seen
  /\ UNCHANGED <<tables, sched, engine, api_mutex, op, slept, unread, slot, entry,
                 target, fresh, proc, world>>

TakePeer ==
  /\ alive /\ mpc = "peer"
  /\ target' = peer_sockets[winner]
  /\ seen' = NoFd /\ fresh' = (seen # NoFd) /\ mpc' = "send"
  /\ UNCHANGED <<tables, sched, engine, api_mutex, op, slept, workers, unread, winner,
                 slot, entry, proc, world>>

TestInbound ==
  /\ alive /\ mpc = "scan" /\ slot \in Slots
  /\ \/ /\ inbound_sockets[slot] \in Fds
        /\ seen' = inbound_sockets[slot] /\ mpc' = "index"
        /\ UNCHANGED slot
     \/ /\ inbound_sockets[slot] \notin Fds
        /\ slot' = slot + 1
        /\ UNCHANGED <<seen, mpc>>
  /\ UNCHANGED <<tables, sched, engine, api_mutex, op, slept, workers, unread, winner,
                 entry, target, fresh, proc, world>>

ReadInbound ==
  /\ alive /\ mpc = "index"
  /\ entry' = inbound_sockets[slot] /\ mpc' = "match"
  /\ UNCHANGED <<tables, sched, engine, api_mutex, op, slept, workers, unread, winner,
                 slot, target, seen, fresh, proc, world>>

\* Does socket_to_id[entry] name w?  Entry 0 of the table is always -1; at index
\* -1 the code reads what lies before the table, which may be anything.  Mutant:
\* any inbound socket will do.
Owned_Any(w) == {TRUE}
Owned(w) == CASE entry \in Fds  -> {socket_to_id[entry] = w}
              [] entry = NoFd   -> {FALSE}
              [] entry = BadFd  -> BOOLEAN

MatchOwner ==
  /\ alive /\ mpc = "match"
  /\ \/ /\ TRUE \in Owned(winner)
        /\ seen' = IF entry \in Fds /\ conn[entry].ident THEN seen ELSE NoFd
        /\ mpc' = "take" /\ UNCHANGED slot
     \/ /\ FALSE \in Owned(winner)
        /\ seen' = NoFd /\ mpc' = "scan" /\ slot' = slot + 1
  /\ entry' = NoFd
  /\ UNCHANGED <<tables, sched, engine, api_mutex, op, slept, workers, unread, winner,
                 target, fresh, proc, world>>

TakeInbound ==
  /\ alive /\ mpc = "take"
  /\ target' = inbound_sockets[slot]
  /\ seen' = NoFd /\ fresh' = (seen # NoFd)
  /\ slot' = slot + 1 /\ mpc' = "scan"
  /\ UNCHANGED <<tables, sched, engine, api_mutex, op, slept, workers, unread, winner,
                 entry, proc, world>>

\* A worker without a socket is passed over.
LookupOver ==
  /\ alive /\ mpc = "scan" /\ slot \notin Slots
  /\ slot' = 0
  /\ \/ target # BadFd /\ mpc' = "send" /\ UNCHANGED winner
     \/ target = BadFd /\ mpc' = "loop" /\ winner' = NoId
  /\ UNCHANGED <<tables, sched, engine, api_mutex, op, slept, workers, unread, entry,
                 target, seen, fresh, proc, world>>

\* send, mark_node_busy and, for a scatter, the ledger entry: the send's result
\* is not looked at, so a target that is 0 or closed makes no difference to these.
SendTask ==
  /\ alive /\ mpc = "send"
  /\ \/ /\ ~Fatal({target} \cap Fds)
        /\ conn' = AfterSend({target})
        /\ pending_tasks' = IF op = "scatter" THEN pending_tasks \cup {winner} ELSE pending_tasks
        /\ mpc' = "loop" /\ winner' = NoId /\ target' = BadFd /\ fresh' = FALSE
        /\ UNCHANGED <<tables, known, engine, api_mutex, op, slept, workers, unread, slot,
                       entry, seen, proc, up, backlog>>
     \/ Fatal({target} \cap Fds) /\ Die("killed by spawn")

\* The end of the command stream ends main, and with it the process.
main ==
  /\ alive /\ mpc = "idle"
  /\ Die("exited")

FindStep == (\E p \in Dialable : FindPeer(p)) \/ FindInbound \/ FindOwner \/ Found
LookupStep ==
  \/ \E w \in Peers : TestPeer(w)
  \/ TakePeer \/ TestInbound \/ ReadInbound \/ MatchOwner \/ TakeInbound \/ LookupOver
SpawnStep == SleepOver \/ FindStep \/ LookupStep \/ SendTask \/ Return
User == velum_spawn_wasm \/ velum_spawn_wasm_distributed \/ SpawnStep \/ main

-----------------------------------------------------------------------------
(***************************************************************************)
(* The environment: the other nodes, which run the same code, and TCP.     *)
(***************************************************************************)
\* A peer that has no connection of its own to this node opens one.
PeerDial(p) ==
  /\ alive /\ p \in up
  /\ Cardinality(backlog) < BacklogMax /\ \A b \in backlog : b.id = p => ~b.up
  /\ \A fd \in InFds : ~(conn[fd].remote = p /\ conn[fd].st = "open")
  /\ backlog' = backlog \cup {[id |-> p, up |-> TRUE]}
  /\ UNCHANGED <<tables, sched, engine, spawn, proc, up, conn>>

PeerAccept(fd) ==
  /\ alive /\ conn[fd].st = "dialing"
  /\ conn' = [conn EXCEPT ![fd].st = "open"]
  /\ UNCHANGED <<tables, sched, engine, spawn, proc, up, backlog>>

\* The peer's inbound table is full: AcceptNoSlot on its side.
PeerRefuse(fd) ==
  /\ alive /\ conn[fd].st = "dialing"
  /\ conn' = [conn EXCEPT ![fd].st = "gone"]
  /\ UNCHANGED <<tables, sched, engine, spawn, proc, up, backlog>>

\* Reports and tasks use any connection, results the peer's own one.
PeerSend(fd, type) ==
  /\ alive /\ conn[fd].st = "open"
  /\ Len(conn[fd].inbox) < InboxMax
  /\ type = "TASK_RESULT" => fd \in InFds
  /\ conn' = [conn EXCEPT ![fd].inbox = Append(@, type)]
  /\ UNCHANGED <<tables, sched, engine, spawn, proc, up, backlog>>

PeerCrash(p) ==
  /\ alive /\ p \in up
  /\ up' = up \ {p}
  /\ backlog' = {[b EXCEPT !.up = b.up /\ b.id # p] : b \in backlog}
  /\ conn' = [fd \in Fds |-> IF conn[fd].remote = p /\ conn[fd].st \in {"dialing", "open"}
                             THEN [conn[fd] EXCEPT !.st = "gone"] ELSE conn[fd]]
  /\ UNCHANGED <<tables, sched, engine, spawn, proc>>

PeerRestart(p) ==
  /\ alive /\ p \notin up
  /\ up' = up \cup {p}
  /\ UNCHANGED <<tables, sched, engine, spawn, proc, backlog, conn>>

Environment ==
  \/ \E p \in Peers : PeerDial(p) \/ PeerCrash(p) \/ PeerRestart(p)
  \/ \E fd \in Fds : PeerAccept(fd) \/ PeerRefuse(fd) \/ \E t \in PeerMsgs : PeerSend(fd, t)

Next == Engine \/ User \/ Environment \/ velum_init

Spec == Init /\ [][Next]_vars

\* The threads are scheduled: the engine loops for ever, and a spawn that was
\* started runs to its end.  Death waits for api_mutex, which the user thread
\* leaves between two commands to wait for its next input line.  Commands and
\* peers are free to come or not.
FairSpec == Spec /\ WF_vars(Engine) /\ SF_vars(Death) /\ WF_vars(SpawnStep)

-----------------------------------------------------------------------------
(***************************************************************************)
(* Correctness.                                                            *)
(***************************************************************************)
\* Every variable has its type.
TablesType ==
  /\ peer_sockets \in [Dialable -> Fds \cup {NoFd}]
  /\ inbound_sockets \in [Slots -> Fds \cup {NoFd, BadFd}]
  /\ socket_to_id \in [Fds -> Peers \cup {NoId}]
SchedType ==
  /\ known \subseteq Tracked
  /\ pending_tasks \subseteq Peers
EngineType ==
  /\ epc \in IterationPhases \cup {"death", "execute", "result"}
  /\ readfds \subseteq Fds
  /\ server_ready \in BOOLEAN
  /\ subject \in Peers \cup {NoId}
SpawnType ==
  /\ api_mutex \in {"free", "main"}
  /\ mpc \in {"idle", "find", "owner", "sleep", "loop", "peer", "scan", "index", "match",
             "take", "send"}
  /\ op \in {"none", "wasm", "scatter"}
  /\ slept \in BOOLEAN
  /\ workers \subseteq Peers /\ unread \subseteq Dialable
  /\ winner \in Peers \cup {NoId}
  /\ slot \in 0 .. InboundMax
  /\ entry \in Fds \cup {NoFd, BadFd} /\ target \in Fds \cup {NoFd, BadFd}
  /\ seen \in Fds \cup {NoFd} /\ fresh \in BOOLEAN
WorldType ==
  /\ up \subseteq Peers
  /\ backlog \subseteq [id : Peers, up : BOOLEAN]
  /\ conn \in [Fds -> Conns]
Ends == {"running", "exited", "killed by heartbeat", "killed by reply", "killed by spawn"}
TypeOK == TablesType /\ SchedType /\ EngineType /\ SpawnType /\ WorldType /\ proc \in Ends

\* The socket tables of velum_core.cpp hold open descriptors only, and no
\* descriptor twice: a close never pulls a live connection from under another
\* entry, although accept and connect reuse descriptor numbers.
TablesSound ==
  /\ \A fd \in TableFds : conn[fd].st # "closed"
  /\ \A p, q \in Dialable :
       peer_sockets[p] = peer_sockets[q] /\ peer_sockets[p] # NoFd => p = q
  /\ \A s, t \in Slots :
       inbound_sockets[s] = inbound_sockets[t] /\ inbound_sockets[s] \in Fds => s = t
  /\ PeerFds \cap InFds = {}

\* find_best_node never elects a node this kernel has lost: while a node has a
\* non-zero cluster_status, some socket of the tables leads to that very node
\* and is attributed to it, or the engine is about to run handle_disconnect.
EligibleIsConnected ==
  \A p \in known :
    \/ \E fd \in TableFds : socket_to_id[fd] = p /\ conn[fd].remote = p
    \/ epc = "death" /\ subject = p

\* Who is who: a socket this node dialled, and a socket on which a message has
\* been read, is attributed by socket_to_id to the node at its other end.  Only
\* an accepted socket that has not spoken can carry a previous owner's id.
IdentifiedSockets ==
  \A fd \in TableFds : conn[fd].ident => socket_to_id[fd] = conn[fd].remote

\* The user thread tests a table entry, reads it again to take it, and sends on it
\* later, with the engine locked out of none of this.  The task still reaches the
\* worker it was meant for, unless the connection that the test saw was closed
\* since, or was an inbound one that had not spoken.  (In those two cases the task
\* can go to descriptor 0, to nobody, or to the node that has the table slot or
\* the descriptor number by then, and is booked for the worker all the same.)
TaskGoesToItsWorker ==
  mpc = "send" /\ fresh =>
    target \in Fds /\ conn[target].st # "closed" /\ conn[target].remote = winner

\* read is called on blocking sockets: each descriptor select reported has bytes
\* or an end of file to give when its turn comes, later in the same iteration.
ReadNeverBlocks ==
  \A fd \in readfds : fd \in TableFds /\ Readable(fd)

\* The engine cannot clear a node's status between find_best_node and the send,
\* all the reads of the tables in between included: api_mutex keeps the winner of
\* velum_spawn_wasm eligible.
WinnerStaysEligible ==
  op = "wasm" => workers \cup ({winner} \ {NoId}) \subseteq known

\* A crashed node is noticed: its status is cleared, by the end of file on its
\* last socket, unless it is back by then or this process has ended.
CrashNoticed ==
  \A p \in Peers : p \in known /\ p \notin up ~> p \notin known \/ p \in up

-----------------------------------------------------------------------------
(***************************************************************************)
(* What the repository's documents say of the kernel and the code does not *)
(* keep.  TLC finds a counterexample to each.                              *)
(***************************************************************************)
\* Recovery from sudden node death, as README.md lists it: a worker outlives the
\* node it works for.  Its reply to a requester that has died does not end it.
WorkerOutlivesRequester == proc # "killed by reply"

\* The ledger holds what can still be re-assigned when a worker vanishes: a
\* worker of pending_tasks has a socket whose end of file will name it, or the
\* engine is removing its entry.
LedgerFollowsWorkers ==
  \A p \in pending_tasks :
    \/ \E fd \in TableFds : socket_to_id[fd] = p
    \/ epc = "death" /\ subject = p

=============================================================================
