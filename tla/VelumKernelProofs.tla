------------------------- MODULE VelumKernelProofs -------------------------
(***************************************************************************)
(* The safety of one node's kernel, for every number of peers, descriptors *)
(* and inbound slots.                                                      *)
(*                                                                         *)
(* The inductive invariant adds to the properties what ties them together: *)
(* a dialled socket leads to the node it was dialled for, a known node has *)
(* a socket that identified itself as that node's, the user thread holds   *)
(* api_mutex exactly while it is in a spawn, and as long as the connection *)
(* that a test of a table entry saw is not closed, the entry still holds   *)
(* it when it is read again.                                               *)
(***************************************************************************)
EXTENDS VelumKernel, TLAPS

\* A socket of peer_sockets leads to the node that it was opened for.
DialledRemote ==
  \A p \in Dialable : peer_sockets[p] # NoFd => conn[peer_sockets[p]].remote = p

\* A known node has a socket on which it spoke or which was dialled for it, or
\* the engine is between the end of its last socket and handle_disconnect.
Connected ==
  \A p \in known :
    \/ \E fd \in TableFds : conn[fd].ident /\ conn[fd].remote = p
    \/ epc = "death" /\ subject = p

\* api_mutex is held for the whole of a spawn and for nothing else; only a
\* scatter looks for workers and sleeps; a lookup is for a worker, and what it
\* reads is in the tables.
Looking == {"peer", "scan", "index", "match", "take"}
Locked ==
  /\ mpc = "idle" <=> api_mutex = "free"
  /\ mpc = "idle" <=> op = "none"
  /\ mpc \in {"find", "owner", "sleep"} => op = "scatter"
  /\ IF mpc \in Looking \cup {"send"} THEN winner \in Peers ELSE winner = NoId
  /\ mpc = "peer" => winner \in Dialable
  /\ mpc \in {"owner", "index", "match", "take"} => slot \in Slots
  /\ mpc = "owner" => entry \in Fds

\* Between the test of an entry and the read that takes it: the connection that
\* was seen, if it has not been closed, is still what the entry holds.
Seen ==
  seen # NoFd =>
    /\ conn[seen].st # "closed"
    /\ \/ mpc = "peer" /\ peer_sockets[winner] = seen
       \/ mpc \in {"index", "match", "take"} /\ inbound_sockets[slot] = seen
    /\ mpc = "match" => entry = seen
    /\ mpc = "take" => conn[seen].remote = winner

\* And the same of what was taken, up to the send and past the slots that follow.
Taken ==
  fresh =>
    /\ mpc \in Looking \cup {"send"}
    /\ target \in Fds /\ conn[target].st # "closed" /\ conn[target].remote = winner

Sockets == TablesSound /\ DialledRemote /\ IdentifiedSockets
IInv == TypeOK /\ Sockets /\ Connected /\ ReadNeverBlocks /\ Locked
          /\ WinnerStaysEligible /\ Seen /\ Taken

-----------------------------------------------------------------------------
(***************************************************************************)
(* Records of connections.                                                 *)
(***************************************************************************)
LEMMA ConnNew ==
  ASSUME NEW s \in ConnStates, NEW p \in Peers \cup {NoId}, NEW b \in BOOLEAN
  PROVE  LET c == NewConn(s, p, b) IN
         c \in Conns /\ c.st = s /\ c.remote = p /\ c.ident = b
  <1>1. <<>> \in Seq(MsgTypes)
    OBVIOUS
  <1>. QED  BY <1>1 DEF NewConn, Conns

LEMMA ClosedIsConn == Closed \in Conns /\ Closed.st = "closed"
  <1>1. "closed" \in ConnStates /\ NoId \in Peers \cup {NoId} /\ FALSE \in BOOLEAN
    BY DEF ConnStates
  <1>. QED  BY <1>1, ConnNew DEF Closed

LEMMA ConnWithState ==
  ASSUME NEW c \in Conns, NEW s \in ConnStates
  PROVE  LET d == [c EXCEPT !.st = s] IN
         /\ d \in Conns /\ d.st = s /\ d.remote = c.remote
         /\ d.inbox = c.inbox /\ d.ident = c.ident
  BY DEF Conns

LEMMA ConnRead ==
  ASSUME NEW c \in Conns, c.inbox # <<>>
  PROVE  LET d == [c EXCEPT !.inbox = Tail(@), !.ident = TRUE] IN
         d \in Conns /\ d.st = c.st /\ d.remote = c.remote /\ d.ident = TRUE
  <1>1. c.inbox \in Seq(MsgTypes) /\ Tail(c.inbox) \in Seq(MsgTypes)
    BY DEF Conns
  <1>. QED  BY <1>1 DEF Conns

LEMMA ConnSent ==
  ASSUME NEW c \in Conns, NEW t \in MsgTypes
  PROVE  LET d == [c EXCEPT !.inbox = Append(@, t)] IN
         /\ d \in Conns /\ d.st = c.st /\ d.remote = c.remote
         /\ d.inbox # <<>> /\ d.ident = c.ident
  BY SMTT(40) DEF Conns

LEMMA ConnFields ==
  ASSUME NEW c \in Conns
  PROVE  /\ c.st \in ConnStates /\ c.remote \in Peers \cup {NoId}
         /\ c.inbox \in Seq(MsgTypes) /\ c.ident \in BOOLEAN
  BY DEF Conns

\* Each part of the type invariant is about variables that change together.
LEMMA TypeFrame ==
  ASSUME TypeOK
  PROVE  /\ UNCHANGED tables => TablesType'
         /\ UNCHANGED sched => SchedType'
         /\ UNCHANGED engine => EngineType'
         /\ UNCHANGED spawn => SpawnType'
         /\ UNCHANGED world => WorldType'
         /\ UNCHANGED proc => proc' \in Ends
  BY DEF TypeOK, TablesType, SchedType, EngineType, SpawnType, WorldType,
         tables, sched, engine, spawn, lookup, world

-----------------------------------------------------------------------------
(***************************************************************************)
(* Most steps open or close no descriptor: they leave the tables alone and *)
(* every connection with its owner.                                        *)
(***************************************************************************)
SameConns ==
  /\ UNCHANGED tables
  /\ conn' \in [Fds -> Conns]
  /\ \A fd \in Fds : /\ conn'[fd].st = "closed" <=> conn[fd].st = "closed"
                     /\ conn'[fd].remote = conn[fd].remote
                     /\ conn'[fd].ident = conn[fd].ident
                     /\ Readable(fd) => Readable(fd)'

LEMMA StutterSame ==
  ASSUME TypeOK, UNCHANGED <<tables, conn>>
  PROVE  SameConns
  BY DEF SameConns, TypeOK, WorldType, Readable

LEMMA SendSame ==
  ASSUME TypeOK, NEW S, conn' = AfterSend(S), UNCHANGED tables
  PROVE  SameConns
  <1>1. ASSUME NEW fd \in Fds
        PROVE  /\ conn'[fd] \in Conns
               /\ conn'[fd].st = "closed" <=> conn[fd].st = "closed"
               /\ conn'[fd].remote = conn[fd].remote
               /\ conn'[fd].ident = conn[fd].ident
               /\ Readable(fd) => Readable(fd)'
    <2>1. conn[fd] \in Conns
      BY DEF TypeOK, WorldType
    <2>2. CASE fd \in S /\ conn[fd].st = "gone"
      <3>1. conn'[fd] = [conn[fd] EXCEPT !.st = "broken"]
        BY <2>2 DEF AfterSend
      <3>2. "broken" \in ConnStates
        BY DEF ConnStates
      <3>. QED  BY <2>1, <2>2, <3>1, <3>2, ConnWithState DEF Readable
    <2>3. CASE ~(fd \in S /\ conn[fd].st = "gone")
      <3>1. conn'[fd] = conn[fd]
        BY <2>3 DEF AfterSend
      <3>. QED  BY <2>1, <3>1 DEF Readable
    <2>. QED  BY <2>2, <2>3
  <1>2. conn' \in [Fds -> Conns]
    BY <1>1 DEF AfterSend
  <1>. QED  BY <1>1, <1>2 DEF SameConns

\* Such a step keeps what is said of the sockets.
LEMMA SameSockets ==
  ASSUME TypeOK, Sockets, SameConns
  PROVE  /\ Sockets'
         /\ TableFds' = TableFds
  <1>1. PeerFds' = PeerFds /\ InFds' = InFds
    BY DEF SameConns, tables, PeerFds, InFds
  <1>2. TableFds' = TableFds /\ TableFds \subseteq Fds
    BY <1>1 DEF TableFds, PeerFds, InFds
  <1>3. TablesSound'
    BY <1>1, <1>2 DEF Sockets, TablesSound, SameConns, tables
  <1>4. DialledRemote'
    BY DEF Sockets, DialledRemote, SameConns, tables, TypeOK, TablesType
  <1>5. IdentifiedSockets'
    BY <1>2 DEF Sockets, IdentifiedSockets, SameConns, tables
  <1>. QED  BY <1>2, <1>3, <1>4, <1>5 DEF Sockets

\* Such a step keeps the engine's part of the invariant if it adds nothing to
\* known, adds only what select may report to readfds, and leaves a death that
\* is to be dealt with pending.
LEMMA SameEngine ==
  ASSUME IInv, SameConns, UNCHANGED known, readfds' \subseteq readfds \cup Polled,
         epc = "death" => UNCHANGED <<epc, subject>>
  PROVE  Sockets' /\ Connected' /\ ReadNeverBlocks'
  <1>1. Sockets' /\ TableFds' = TableFds
    BY SameSockets DEF IInv
  <1>2. TableFds \subseteq Fds
    BY DEF TableFds, PeerFds, InFds
  <1>3. Connected'
    BY <1>1, <1>2 DEF IInv, Connected, SameConns
  <1>4. ReadNeverBlocks'
    BY <1>1, <1>2 DEF IInv, ReadNeverBlocks, SameConns, Polled
  <1>. QED  BY <1>1, <1>3, <1>4

\* The user's view of the tables outlives every step that leaves alone the
\* descriptors it still counts on, and the table entries that hold them.
LEMMA KeepLookup ==
  ASSUME IInv, NEW G \in SUBSET Fds, UNCHANGED <<mpc, winner, slot, entry, target>>,
         seen' \in {seen, NoFd}, seen' \in G \cup {NoFd}, fresh' => fresh /\ target \in G,
         \A g \in G : /\ conn[g].st # "closed" => conn'[g].st # "closed"
                      /\ conn'[g].remote = conn[g].remote,
         \A p \in Dialable : peer_sockets[p] \in G => peer_sockets'[p] = peer_sockets[p],
         \A s \in Slots : inbound_sockets[s] \in G => inbound_sockets'[s] = inbound_sockets[s]
  PROVE  Seen' /\ Taken'
  <1>1. Seen'
    <2>. SUFFICES ASSUME seen' # NoFd
                  PROVE  /\ conn'[seen'].st # "closed"
                         /\ \/ mpc' = "peer" /\ peer_sockets'[winner'] = seen'
                            \/ /\ mpc' \in {"index", "match", "take"}
                               /\ inbound_sockets'[slot'] = seen'
                         /\ mpc' = "match" => entry' = seen'
                         /\ mpc' = "take" => conn'[seen'].remote = winner'
      BY DEF Seen
    <2>1. seen' = seen /\ seen \in G /\ seen # NoFd
      OBVIOUS
    <2>2. CASE mpc = "peer" /\ peer_sockets[winner] = seen
      <3>1. winner \in Dialable
        BY <2>2 DEF IInv, Locked
      <3>2. conn[seen].st # "closed"
        BY <2>1 DEF IInv, Seen
      <3>. QED  BY <2>1, <2>2, <3>1, <3>2
    <2>3. CASE mpc \in {"index", "match", "take"} /\ inbound_sockets[slot] = seen
      <3>1. slot \in Slots
        BY <2>3 DEF IInv, Locked
      <3>2. /\ conn[seen].st # "closed"
            /\ mpc = "match" => entry = seen
            /\ mpc = "take" => conn[seen].remote = winner
        BY <2>1 DEF IInv, Seen
      <3>. QED  BY <2>1, <2>3, <3>1, <3>2
    <2>. QED  BY <2>1, <2>2, <2>3 DEF IInv, Seen
  <1>2. Taken'
    BY DEF IInv, Taken
  <1>. QED  BY <1>1, <1>2

\* And so does the rest of the user's part, if known is left alone as well.
LEMMA SameUser ==
  ASSUME IInv, SameConns, UNCHANGED <<known, spawn>>
  PROVE  Locked' /\ WinnerStaysEligible' /\ Seen' /\ Taken'
  <1>1. Locked' /\ WinnerStaysEligible'
    BY DEF IInv, Locked, WinnerStaysEligible, spawn, lookup
  <1>2. /\ UNCHANGED <<mpc, winner, slot, entry, target, seen, fresh>>
        /\ UNCHANGED <<peer_sockets, inbound_sockets>>
    BY DEF SameConns, spawn, lookup, tables
  <1>3. seen \in Fds \cup {NoFd} /\ (fresh => target \in Fds)
    BY DEF IInv, TypeOK, SpawnType, Taken
  <1>4. Seen' /\ Taken'
    <2>1. Fds \in SUBSET Fds
      OBVIOUS
    <2>2. \A g \in Fds : /\ conn[g].st # "closed" => conn'[g].st # "closed"
                         /\ conn'[g].remote = conn[g].remote
      BY DEF SameConns
    <2>. QED  BY <1>2, <1>3, <2>1, <2>2, KeepLookup
  <1>. QED  BY <1>1, <1>4

\* The end of the process, and its start, leave nothing open.
LEMMA StartedHolds == Started /\ proc \in Ends /\ up \subseteq Peers => IInv
  <1>. SUFFICES ASSUME Started, proc \in Ends, up \subseteq Peers PROVE IInv
    OBVIOUS
  <1>1. TypeOK
    <2>1. 0 \in 0 .. InboundMax
      BY BoundsAssumption
    <2>. QED  BY <2>1, ClosedIsConn
              DEF Started, TypeOK, TablesType, SchedType, EngineType, SpawnType, WorldType,
                  Ends, IterationPhases
  <1>2. TableFds = {} /\ PeerFds = {} /\ InFds = {}
    BY MarkersAssumption DEF Started, TableFds, PeerFds, InFds
  <1>3. Sockets
    BY <1>2, MarkersAssumption DEF Started, Sockets, TablesSound, DialledRemote, IdentifiedSockets
  <1>4. Connected /\ ReadNeverBlocks /\ Locked /\ WinnerStaysEligible /\ Seen /\ Taken
    BY DEF Started, Connected, ReadNeverBlocks, Locked, Looking, WinnerStaysEligible, Seen, Taken
  <1>. QED  BY <1>1, <1>3, <1>4 DEF IInv

LEMMA DieStep ==
  ASSUME TypeOK, NEW how \in Ends, Die(how)
  PROVE  IInv'
  <1>1. (Started /\ proc \in Ends /\ up \subseteq Peers)'
    BY DEF Die, Started, TypeOK, WorldType
  <1>. QED  BY <1>1, StartedHolds, PTL

-----------------------------------------------------------------------------
(***************************************************************************)
(* Steps of the engine that open and close nothing.                        *)
(***************************************************************************)
LEMMA QuietStep ==
  ASSUME IInv, SameConns, TypeOK', UNCHANGED <<known, spawn>>,
         readfds' \subseteq readfds \cup Polled,
         epc = "death" => UNCHANGED <<epc, subject>>
  PROVE  IInv'
  BY SameEngine, SameUser DEF IInv

LEMMA SelectStep ==
  ASSUME IInv, Select
  PROVE  IInv'
  <1>1. TypeOK'
    <2>1. EngineType'
      BY DEF IInv, TypeOK, EngineType, Select, Polled, TableFds, PeerFds, InFds, IterationPhases
    <2>. QED  BY <2>1, TypeFrame DEF IInv, TypeOK, Select
  <1>2. SameConns
    BY StutterSame DEF IInv, Select, world
  <1>. QED  BY <1>1, <1>2, QuietStep DEF Select, sched, IterationPhases

LEMMA HeartbeatStep ==
  ASSUME IInv, Heartbeat
  PROVE  IInv'
  <1>1. CASE Die("killed by heartbeat")
    BY <1>1, DieStep DEF IInv, Ends
  <1>2. CASE /\ conn' = AfterSend(TableFds) /\ epc' = "heartbeat"
             /\ UNCHANGED <<tables, sched, readfds, server_ready, subject, spawn, proc, up, backlog>>
    <2>1. SameConns
      BY <1>2, SendSame DEF IInv
    <2>2. conn' \in [Fds -> Conns]
      BY <2>1 DEF SameConns
    <2>3. TypeOK'
      <3>1. EngineType' /\ WorldType'
        BY <1>2, <2>2 DEF IInv, TypeOK, EngineType, WorldType, IterationPhases
      <3>. QED  BY <1>2, <3>1, TypeFrame DEF IInv, TypeOK
    <2>. QED  BY <1>2, <2>1, <2>3, QuietStep DEF Heartbeat, sched
  <1>. QED  BY <1>1, <1>2 DEF Heartbeat

LEMMA ReplyStep ==
  ASSUME IInv, Reply
  PROVE  IInv'
  <1> DEFINE S == {fd \in Fds : subject \in Dialable /\ peer_sockets[subject] = fd}
  <1>1. CASE Die("killed by reply")
    BY <1>1, DieStep DEF IInv, Ends
  <1>2. CASE /\ conn' = AfterSend(S) /\ epc' = "handle" /\ subject' = NoId
             /\ UNCHANGED <<tables, sched, readfds, server_ready, spawn, proc, up, backlog>>
    <2>1. SameConns
      BY <1>2, SendSame DEF IInv
    <2>2. conn' \in [Fds -> Conns]
      BY <2>1 DEF SameConns
    <2>3. TypeOK'
      <3>1. EngineType' /\ WorldType'
        BY <1>2, <2>2 DEF IInv, TypeOK, EngineType, WorldType, IterationPhases
      <3>. QED  BY <1>2, <3>1, TypeFrame DEF IInv, TypeOK
    <2>. QED  BY <1>2, <2>1, <2>3, QuietStep DEF Reply, sched
  <1>. QED  BY <1>1, <1>2 DEF Reply

LEMMA CallbackStep ==
  ASSUME IInv, Callback
  PROVE  IInv'
  <1>1. TypeOK'
    <2>1. EngineType'
      BY DEF IInv, TypeOK, EngineType, Callback, IterationPhases
    <2>. QED  BY <2>1, TypeFrame DEF IInv, TypeOK, Callback
  <1>2. SameConns
    BY StutterSame DEF IInv, Callback, world
  <1>. QED  BY <1>1, <1>2, QuietStep DEF Callback, sched

LEMMA AcceptNoSlotStep ==
  ASSUME IInv, NEW b, AcceptNoSlot(b)
  PROVE  IInv'
  <1>1. TypeOK'
    <2>1. EngineType' /\ WorldType'
      BY DEF IInv, TypeOK, EngineType, WorldType, AcceptNoSlot, IterationPhases
    <2>. QED  BY <2>1, TypeFrame DEF IInv, TypeOK, AcceptNoSlot
  <1>2. SameConns
    BY StutterSame DEF IInv, AcceptNoSlot
  <1>. QED  BY <1>1, <1>2, QuietStep DEF AcceptNoSlot, sched

\* handle_disconnect clears the node that has lost a socket, and no spawn is
\* under way that could have chosen it.
LEMMA DeathStep ==
  ASSUME IInv, Death
  PROVE  IInv'
  <1>1. TypeOK'
    <2>1. EngineType' /\ SchedType'
      BY DEF IInv, TypeOK, EngineType, SchedType, Death, handle_disconnect, IterationPhases
    <2>. QED  BY <2>1, TypeFrame DEF IInv, TypeOK, Death
  <1>2. SameConns
    BY StutterSame DEF IInv, Death, world
  <1>3. Sockets' /\ TableFds' = TableFds
    BY <1>2, SameSockets DEF IInv
  <1>4. Connected'
    BY <1>2, <1>3 DEF IInv, Connected, Death, handle_disconnect, world
  <1>5. ReadNeverBlocks'
    BY <1>3 DEF IInv, ReadNeverBlocks, Death, Readable, world
  <1>6. op = "none" /\ mpc = "idle" /\ UNCHANGED spawn
    BY DEF IInv, Locked, Death, lock_guard
  <1>7. Locked' /\ WinnerStaysEligible'
    BY <1>6 DEF IInv, Locked, WinnerStaysEligible, spawn, lookup
  <1>8. seen = NoFd /\ ~fresh
    BY <1>6 DEF IInv, Seen, Taken, Looking
  <1>9. Seen' /\ Taken'
    BY <1>6, <1>8 DEF Seen, Taken, spawn, lookup
  <1>. QED  BY <1>1, <1>3, <1>4, <1>5, <1>7, <1>9 DEF IInv

-----------------------------------------------------------------------------
(***************************************************************************)
(* Steps of the engine that read a message.                                *)
(***************************************************************************)
\* What reading a message does to the sockets: the reader knows now who is
\* there, and nothing else changes hands.
LEMMA ReceiveSockets ==
  ASSUME IInv, NEW fd \in Fds, NEW type, Receive(fd, type)
  PROVE  /\ conn' \in [Fds -> Conns] /\ socket_to_id' \in [Fds -> Peers \cup {NoId}]
         /\ fd \in TableFds /\ TableFds' = TableFds
         /\ conn'[fd].ident /\ conn'[fd].remote = conn[fd].remote
         /\ \A g \in Fds : /\ conn'[g].st = conn[g].st
                           /\ conn'[g].remote = conn[g].remote
                           /\ g # fd => conn'[g] = conn[g]
         /\ Sockets'
  <1>1. conn \in [Fds -> Conns] /\ conn[fd] \in Conns /\ conn[fd].inbox # <<>>
    BY DEF IInv, TypeOK, WorldType, Receive
  <1> DEFINE c == [conn[fd] EXCEPT !.inbox = Tail(@), !.ident = TRUE]
  <1>2. c \in Conns /\ c.st = conn[fd].st /\ c.remote = conn[fd].remote /\ c.ident = TRUE
    BY <1>1, ConnRead
  <1>3. conn' = [conn EXCEPT ![fd] = c]
    BY <1>1 DEF Receive
  <1>. HIDE DEF c
  <1>4. /\ conn' \in [Fds -> Conns] /\ conn'[fd] = c
        /\ \A g \in Fds : g # fd => conn'[g] = conn[g]
    BY <1>1, <1>2, <1>3
  <1>5. /\ socket_to_id' \in [Fds -> Peers \cup {NoId}]
        /\ socket_to_id'[fd] = conn[fd].remote
        /\ \A g \in Fds : g # fd => socket_to_id'[g] = socket_to_id[g]
    BY <1>1, ConnFields DEF IInv, TypeOK, TablesType, Receive, Identified
  <1>6. /\ PeerFds' = PeerFds /\ InFds' = InFds /\ TableFds' = TableFds
        /\ fd \in TableFds /\ TableFds \subseteq Fds
    BY DEF Receive, Turn, PeerFds, InFds, TableFds
  <1>7. \A g \in Fds : conn'[g].st = conn[g].st /\ conn'[g].remote = conn[g].remote
    BY <1>2, <1>4
  <1>8. UNCHANGED <<peer_sockets, inbound_sockets>>
    BY DEF Receive
  <1>9. TablesSound'
    <2>1. \A g \in Fds : conn'[g].st = conn[g].st
      BY <1>7
    <2>. QED  BY <1>6, <1>8, <2>1 DEF IInv, Sockets, TablesSound
  <1>10. DialledRemote'
    <2>1. \A g \in Fds : conn'[g].remote = conn[g].remote
      BY <1>7
    <2>2. \A p \in Dialable : peer_sockets[p] # NoFd => peer_sockets[p] \in Fds
      BY DEF IInv, TypeOK, TablesType
    <2>. QED  BY <1>8, <2>1, <2>2 DEF IInv, Sockets, DialledRemote
  <1>11. IdentifiedSockets'
    BY <1>2, <1>4, <1>5, <1>6 DEF IInv, Sockets, IdentifiedSockets
  <1>. QED  BY <1>2, <1>4, <1>5, <1>6, <1>7, <1>9, <1>10, <1>11 DEF Sockets

LEMMA ReceiveStep ==
  ASSUME IInv, NEW fd \in Fds, RecvStatus(fd) \/ RecvTask(fd) \/ RecvResult(fd)
  PROVE  IInv'
  <1>1. PICK type : Receive(fd, type)
    BY DEF RecvStatus, RecvTask, RecvResult
  <1>2. /\ conn' \in [Fds -> Conns] /\ socket_to_id' \in [Fds -> Peers \cup {NoId}]
        /\ fd \in TableFds /\ TableFds' = TableFds
        /\ conn'[fd].ident /\ conn'[fd].remote = conn[fd].remote
        /\ \A g \in Fds : /\ conn'[g].st = conn[g].st
                          /\ conn'[g].remote = conn[g].remote
                          /\ g # fd => conn'[g] = conn[g]
        /\ Sockets'
    BY <1>1, ReceiveSockets
  <1>3. /\ epc \in IterationPhases /\ epc # "death"
        /\ known \subseteq known' /\ known' \subseteq known \cup ({conn[fd].remote} \cap Tracked)
        /\ epc' \in {"handle", "execute", "result"}
        /\ subject' \in {subject, conn[fd].remote}
        /\ readfds' = readfds \ {fd}
        /\ UNCHANGED <<peer_sockets, inbound_sockets, pending_tasks, server_ready,
                       spawn, proc, up, backlog>>
    BY <1>1 DEF RecvStatus, RecvTask, RecvResult, Receive, Turn, IterationPhases
  <1>4. conn[fd].remote \in Peers \cup {NoId}
    BY ConnFields DEF IInv, TypeOK, WorldType
  <1>5. TypeOK'
    <2>1. TablesType' /\ WorldType'
      BY <1>2, <1>3 DEF IInv, TypeOK, TablesType, WorldType
    <2>2. SchedType' /\ EngineType'
      BY <1>3, <1>4 DEF IInv, TypeOK, SchedType, EngineType, IterationPhases
    <2>. QED  BY <1>3, <2>1, <2>2, TypeFrame DEF IInv, TypeOK
  <1>6. TableFds \subseteq Fds
    BY DEF TableFds, PeerFds, InFds
  <1>7. Connected'
    <2>1. ASSUME NEW p \in known' PROVE \E g \in TableFds' : conn'[g].ident /\ conn'[g].remote = p
      <3>1. CASE p \in known
        <4>1. PICK g \in TableFds : conn[g].ident /\ conn[g].remote = p
          BY <1>3, <3>1 DEF IInv, Connected
        <4>. QED  BY <1>2, <1>6, <4>1
      <3>2. CASE p = conn[fd].remote
        BY <1>2, <3>2
      <3>. QED  BY <1>3, <3>1, <3>2
    <2>. QED  BY <2>1 DEF Connected
  <1>8. ReadNeverBlocks'
    BY <1>2, <1>3, <1>6 DEF IInv, ReadNeverBlocks, Readable
  <1>9. Locked' /\ WinnerStaysEligible'
    BY <1>3 DEF IInv, Locked, WinnerStaysEligible, spawn, lookup
  <1>10. Seen' /\ Taken'
    <2>1. UNCHANGED <<mpc, winner, slot, entry, target, seen, fresh>>
      BY <1>3 DEF spawn, lookup
    <2>2. seen \in Fds \cup {NoFd} /\ (fresh => target \in Fds)
      BY DEF IInv, TypeOK, SpawnType, Taken
    <2>3. Fds \in SUBSET Fds
      OBVIOUS
    <2>4. \A g \in Fds : /\ conn[g].st # "closed" => conn'[g].st # "closed"
                         /\ conn'[g].remote = conn[g].remote
      BY <1>2
    <2>. QED  BY <1>3, <2>1, <2>2, <2>3, <2>4, KeepLookup
  <1>. QED  BY <1>2, <1>5, <1>7, <1>8, <1>9, <1>10 DEF IInv

-----------------------------------------------------------------------------
(***************************************************************************)
(* Steps of the engine that open or close a descriptor.                    *)
(***************************************************************************)
\* A descriptor that accept or connect hands out is in no table.
LEMMA FreeIsUnused ==
  ASSUME IInv, NEW fd \in FreeFds
  PROVE  /\ fd \in Fds /\ fd \notin TableFds /\ fd \notin readfds
         /\ fd # NoFd /\ fd # BadFd
         /\ seen # fd /\ (fresh => target # fd)
  <1>1. fd \in Fds /\ conn[fd].st = "closed"
    BY DEF FreeFds
  <1>2. fd \notin TableFds
    BY <1>1 DEF IInv, Sockets, TablesSound
  <1>3. fd \notin readfds
    BY <1>2 DEF IInv, ReadNeverBlocks
  <1>4. seen # fd /\ (fresh => target # fd)
    BY <1>1, MarkersAssumption DEF IInv, Seen, Taken
  <1>. QED  BY <1>1, <1>2, <1>3, <1>4, MarkersAssumption

LEMMA DiscoverStep ==
  ASSUME IInv, NEW p \in Dialable, Discover(p)
  PROVE  IInv'
  <1>1. PICK fd \in FreeFds :
          /\ peer_sockets' = [peer_sockets EXCEPT ![p] = fd]
          /\ socket_to_id' = [socket_to_id EXCEPT ![fd] = p]
          /\ conn' = [conn EXCEPT ![fd] = NewConn("dialing", p, TRUE)]
    BY DEF Discover
  <1>2. /\ fd \in Fds /\ fd \notin TableFds /\ fd \notin readfds /\ fd # NoFd /\ fd # BadFd
        /\ seen # fd /\ (fresh => target # fd)
    BY FreeIsUnused
  <1> DEFINE c == NewConn("dialing", p, TRUE)
  <1>3. c \in Conns /\ c.st = "dialing" /\ c.remote = p /\ c.ident = TRUE /\ p \in Peers
    <2>1. "dialing" \in ConnStates /\ p \in Peers /\ p \in Peers \cup {NoId}
      BY IdsAssumption DEF ConnStates
    <2>2. TRUE \in BOOLEAN
      OBVIOUS
    <2>. QED  BY <2>1, <2>2, ConnNew, Zenon
  <1>. HIDE DEF c
  <1>4. /\ conn' \in [Fds -> Conns] /\ conn'[fd] = c
        /\ \A g \in Fds : g # fd => conn'[g] = conn[g]
    BY <1>1, <1>2, <1>3 DEF IInv, TypeOK, WorldType, c
  <1>5. /\ peer_sockets \in [Dialable -> Fds \cup {NoFd}]
        /\ peer_sockets' \in [Dialable -> Fds \cup {NoFd}]
        /\ peer_sockets[p] = NoFd /\ peer_sockets'[p] = fd
        /\ \A q \in Dialable : q # p => peer_sockets'[q] = peer_sockets[q]
    BY <1>1, <1>2 DEF IInv, TypeOK, TablesType, Discover
  <1>6. /\ socket_to_id' \in [Fds -> Peers \cup {NoId}] /\ socket_to_id'[fd] = p
        /\ \A g \in Fds : g # fd => socket_to_id'[g] = socket_to_id[g]
    BY <1>1, <1>2, <1>3 DEF IInv, TypeOK, TablesType
  <1>7. /\ epc \in {"select", "heartbeat"} /\ epc' = "beacon"
        /\ UNCHANGED <<inbound_sockets, sched, readfds, server_ready, subject, spawn, proc, up, backlog>>
    BY DEF Discover
  <1>8. /\ PeerFds' = PeerFds \cup {fd} /\ InFds' = InFds /\ TableFds' = TableFds \cup {fd}
        /\ TableFds \subseteq Fds /\ fd \notin InFds /\ fd \notin PeerFds
    <2>1. PeerFds' = PeerFds \cup {fd}
      BY <1>2, <1>5, MarkersAssumption DEF PeerFds
    <2>2. InFds' = InFds
      BY <1>7 DEF InFds
    <2>. QED  BY <1>2, <2>1, <2>2 DEF TableFds, PeerFds, InFds
  <1>9. TypeOK'
    <2>1. TablesType' /\ WorldType' /\ EngineType'
      BY <1>4, <1>5, <1>6, <1>7
      DEF IInv, TypeOK, TablesType, WorldType, EngineType, IterationPhases
    <2>. QED  BY <1>7, <2>1, TypeFrame DEF IInv, TypeOK
  <1>10. Sockets'
    <2>1. \A g \in TableFds' : conn'[g].st # "closed"
      BY <1>3, <1>4, <1>8 DEF IInv, Sockets, TablesSound
    <2>2. \A q \in Dialable : peer_sockets[q] # fd
      BY <1>2, <1>8 DEF PeerFds
    <2>3. \A q, r \in Dialable : peer_sockets'[q] = peer_sockets'[r] /\ peer_sockets'[q] # NoFd => q = r
      BY <1>5, <2>2 DEF IInv, Sockets, TablesSound
    <2>4. TablesSound'
      BY <1>7, <1>8, <2>1, <2>3 DEF IInv, Sockets, TablesSound
    <2>5. DialledRemote'
      BY <1>3, <1>4, <1>5, <2>2 DEF IInv, Sockets, DialledRemote
    <2>6. IdentifiedSockets'
      BY <1>3, <1>4, <1>6, <1>8, <1>2 DEF IInv, Sockets, IdentifiedSockets
    <2>. QED  BY <2>4, <2>5, <2>6 DEF Sockets
  <1>11. Connected'
    BY <1>2, <1>4, <1>7, <1>8 DEF IInv, Connected, sched
  <1>12. ReadNeverBlocks'
    BY <1>2, <1>4, <1>7, <1>8 DEF IInv, ReadNeverBlocks, Readable
  <1>13. Locked' /\ WinnerStaysEligible'
    BY <1>7 DEF IInv, Locked, WinnerStaysEligible, spawn, lookup, sched
  <1>14. Seen' /\ Taken'
    <2>1. UNCHANGED <<mpc, winner, slot, entry, target, seen, fresh>>
      BY <1>7 DEF spawn, lookup
    <2>2. seen \in (Fds \ {fd}) \cup {NoFd} /\ (fresh => target \in Fds \ {fd})
      BY <1>2 DEF IInv, TypeOK, SpawnType, Taken
    <2>3. Fds \ {fd} \in SUBSET Fds
      OBVIOUS
    <2>. QED  BY ZenonT(60), <1>4, <1>5, <1>7, MarkersAssumption, <2>1, <2>2, <2>3, KeepLookup
  <1>. QED  BY <1>9, <1>10, <1>11, <1>12, <1>13, <1>14 DEF IInv

LEMMA AcceptStep ==
  ASSUME IInv, NEW b \in backlog, Accept(b)
  PROVE  IInv'
  <1> DEFINE st == IF b.up THEN "open" ELSE "gone"
             c  == NewConn(st, b.id, FALSE)
  <1>1. PICK fd \in FreeFds, s \in Slots :
          /\ inbound_sockets[s] = NoFd
          /\ inbound_sockets' = [inbound_sockets EXCEPT ![s] = fd]
          /\ conn' = [conn EXCEPT ![fd] = c]
    BY DEF Accept, FirstFree
  <1>2. /\ fd \in Fds /\ fd \notin TableFds /\ fd \notin readfds /\ fd # NoFd /\ fd # BadFd
        /\ seen # fd /\ (fresh => target # fd)
    BY FreeIsUnused
  <1>3. c \in Conns /\ c.st # "closed" /\ c.ident = FALSE
    <2>1. st \in ConnStates /\ st # "closed"
      BY DEF ConnStates
    <2>2. b.id \in Peers \cup {NoId}
      BY DEF IInv, TypeOK, WorldType
    <2>3. FALSE \in BOOLEAN
      OBVIOUS
    <2>. HIDE DEF st
    <2>4. c \in Conns /\ c.st = st /\ c.ident = FALSE
      BY <2>1, <2>2, <2>3, ConnNew, Zenon
    <2>. QED  BY <2>1, <2>4
  <1>. HIDE DEF c
  <1>4. /\ conn' \in [Fds -> Conns] /\ conn'[fd] = c
        /\ \A g \in Fds : g # fd => conn'[g] = conn[g]
    BY <1>1, <1>2, <1>3 DEF IInv, TypeOK, WorldType
  <1>5. /\ inbound_sockets' \in [Slots -> Fds \cup {NoFd, BadFd}]
        /\ inbound_sockets'[s] = fd
        /\ \A t \in Slots : t # s => inbound_sockets'[t] = inbound_sockets[t]
    BY <1>1, <1>2 DEF IInv, TypeOK, TablesType
  <1>6. /\ epc # "death" /\ epc' = "accept" /\ server_ready' = FALSE /\ backlog' \subseteq backlog
        /\ UNCHANGED <<peer_sockets, socket_to_id, sched, readfds, subject, spawn, proc, up>>
    BY DEF Accept
  <1>7. /\ PeerFds' = PeerFds /\ InFds' = InFds \cup {fd} /\ TableFds' = TableFds \cup {fd}
        /\ TableFds \subseteq Fds /\ fd \notin InFds /\ fd \notin PeerFds
    <2>1. InFds' = InFds \cup {fd}
      BY <1>1, <1>2, <1>5, MarkersAssumption DEF InFds
    <2>2. PeerFds' = PeerFds
      BY <1>6 DEF PeerFds
    <2>. QED  BY <1>2, <2>1, <2>2 DEF TableFds, PeerFds, InFds
  <1>8. TypeOK'
    <2>1. TablesType' /\ WorldType' /\ EngineType'
      BY <1>4, <1>5, <1>6
      DEF IInv, TypeOK, TablesType, WorldType, EngineType, IterationPhases
    <2>. QED  BY <1>6, <2>1, TypeFrame DEF IInv, TypeOK
  <1>9. Sockets'
    <2>1. \A g \in TableFds' : conn'[g].st # "closed"
      BY <1>3, <1>4, <1>7 DEF IInv, Sockets, TablesSound
    <2>2. \A t \in Slots : inbound_sockets[t] # fd
      BY <1>2, <1>7 DEF InFds
    <2>3. \A t, u \in Slots :
            inbound_sockets'[t] = inbound_sockets'[u] /\ inbound_sockets'[t] \in Fds => t = u
      BY <1>5, <2>2 DEF IInv, Sockets, TablesSound
    <2>4. TablesSound'
      BY <1>6, <1>7, <2>1, <2>3 DEF IInv, Sockets, TablesSound
    <2>5. \A p \in Dialable : peer_sockets[p] # NoFd => peer_sockets[p] \in Fds \ {fd}
      BY <1>7 DEF IInv, TypeOK, TablesType, PeerFds
    <2>6. DialledRemote'
      BY <1>4, <1>6, <2>5 DEF IInv, Sockets, DialledRemote
    <2>7. IdentifiedSockets'
      BY <1>2, <1>3, <1>4, <1>6, <1>7 DEF IInv, Sockets, IdentifiedSockets
    <2>. QED  BY <2>4, <2>6, <2>7 DEF Sockets
  <1>10. Connected'
    BY <1>2, <1>4, <1>6, <1>7 DEF IInv, Connected, sched
  <1>11. ReadNeverBlocks'
    BY <1>2, <1>4, <1>6, <1>7 DEF IInv, ReadNeverBlocks, Readable
  <1>12. Locked' /\ WinnerStaysEligible'
    BY <1>6 DEF IInv, Locked, WinnerStaysEligible, spawn, lookup, sched
  <1>13. Seen' /\ Taken'
    <2>1. UNCHANGED <<mpc, winner, slot, entry, target, seen, fresh>>
      BY <1>6 DEF spawn, lookup
    <2>2. seen \in (Fds \ {fd}) \cup {NoFd} /\ (fresh => target \in Fds \ {fd})
      BY <1>2 DEF IInv, TypeOK, SpawnType, Taken
    <2>3. Fds \ {fd} \in SUBSET Fds
      OBVIOUS
    <2>. QED  BY ZenonT(60), <1>1, <1>4, <1>5, <1>6, MarkersAssumption, <2>1, <2>2, <2>3, KeepLookup
  <1>. QED  BY <1>8, <1>9, <1>10, <1>11, <1>12, <1>13 DEF IInv

\* -1 in an inbound slot is no descriptor.
LEMMA AcceptFailsStep ==
  ASSUME IInv, NEW b \in backlog, AcceptFails(b)
  PROVE  IInv'
  <1>1. PICK s \in Slots : /\ inbound_sockets[s] = NoFd
                          /\ inbound_sockets' = [inbound_sockets EXCEPT ![s] = BadFd]
    BY DEF AcceptFails, FirstFree
  <1>2. /\ inbound_sockets' \in [Slots -> Fds \cup {NoFd, BadFd}]
        /\ inbound_sockets'[s] = BadFd
        /\ \A t \in Slots : t # s => inbound_sockets'[t] = inbound_sockets[t]
    BY <1>1 DEF IInv, TypeOK, TablesType
  <1>3. /\ epc # "death" /\ epc' = "accept" /\ server_ready' = FALSE /\ backlog' \subseteq backlog
        /\ UNCHANGED <<peer_sockets, socket_to_id, sched, readfds, subject, spawn, proc, up, conn>>
    BY DEF AcceptFails
  <1>4. PeerFds' = PeerFds /\ InFds' = InFds /\ TableFds' = TableFds
    <2>1. InFds' = InFds
      BY <1>1, <1>2, MarkersAssumption DEF InFds
    <2>. QED  BY <1>3, <2>1 DEF TableFds, PeerFds
  <1>5. TypeOK'
    <2>1. TablesType' /\ WorldType' /\ EngineType'
      BY <1>2, <1>3 DEF IInv, TypeOK, TablesType, WorldType, EngineType, IterationPhases
    <2>. QED  BY <1>3, <2>1, TypeFrame DEF IInv, TypeOK
  <1>6. Sockets'
    <2>1. \A t, u \in Slots :
            inbound_sockets'[t] = inbound_sockets'[u] /\ inbound_sockets'[t] \in Fds => t = u
      BY <1>2, MarkersAssumption DEF IInv, Sockets, TablesSound
    <2>2. TablesSound'
      BY <1>3, <1>4, <2>1 DEF IInv, Sockets, TablesSound
    <2>. QED  BY <1>3, <1>4, <2>2 DEF IInv, Sockets, DialledRemote, IdentifiedSockets
  <1>7. Connected' /\ ReadNeverBlocks'
    BY <1>3, <1>4 DEF IInv, Connected, ReadNeverBlocks, Readable, sched
  <1>8. Locked' /\ WinnerStaysEligible'
    BY <1>3 DEF IInv, Locked, WinnerStaysEligible, spawn, lookup, sched
  <1>9. Seen' /\ Taken'
    <2>1. UNCHANGED <<mpc, winner, slot, entry, target, seen, fresh>>
      BY <1>3 DEF spawn, lookup
    <2>2. seen \in Fds \cup {NoFd} /\ (fresh => target \in Fds)
      BY DEF IInv, TypeOK, SpawnType, Taken
    <2>3. Fds \in SUBSET Fds
      OBVIOUS
    <2>. QED  BY <1>1, <1>2, <1>3, <2>1, <2>2, <2>3, MarkersAssumption, KeepLookup
  <1>. QED  BY <1>5, <1>6, <1>7, <1>8, <1>9 DEF IInv

\* The end of a socket: if it was the one that tied a known node to this kernel
\* then socket_to_id names that node, and its death is what comes next.
LEMMA CloseStep ==
  ASSUME IInv, NEW fd \in Fds, CloseDead(fd)
  PROVE  IInv'
  <1>1. /\ peer_sockets' = [p \in Dialable |-> IF peer_sockets[p] = fd THEN NoFd ELSE peer_sockets[p]]
        /\ inbound_sockets' = [s \in Slots |-> IF inbound_sockets[s] = fd THEN NoFd ELSE inbound_sockets[s]]
    BY DEF IInv, TypeOK, TablesType, CloseDead, Zeroed
  <1>2. /\ conn' \in [Fds -> Conns] /\ conn'[fd] = Closed
        /\ \A g \in Fds : g # fd => conn'[g] = conn[g]
    BY ClosedIsConn DEF IInv, TypeOK, WorldType, CloseDead
  <1>3. /\ epc # "death" /\ readfds' = readfds \ {fd} /\ subject' = socket_to_id[fd]
        /\ epc' = IF socket_to_id[fd] = NoId THEN "handle" ELSE "death"
        /\ seen' = IF seen = fd THEN NoFd ELSE seen
        /\ fresh' = (fresh /\ target # fd)
        /\ UNCHANGED <<socket_to_id, sched, server_ready, api_mutex, mpc, op, slept, workers,
                       unread, winner, slot, entry, target, proc, up, backlog>>
    BY DEF CloseDead, Turn, IterationPhases
  <1>4. /\ PeerFds' = PeerFds \ {fd} /\ InFds' = InFds \ {fd} /\ TableFds' = TableFds \ {fd}
        /\ TableFds \subseteq Fds
    <2>1. PeerFds' = PeerFds \ {fd}
      BY <1>1, MarkersAssumption DEF PeerFds
    <2>2. InFds' = InFds \ {fd}
      BY <1>1, MarkersAssumption DEF InFds
    <2>. QED  BY <2>1, <2>2 DEF TableFds, PeerFds, InFds
  <1>5. TypeOK'
    <2>1. TablesType' /\ WorldType'
      BY <1>1, <1>2, <1>3 DEF IInv, TypeOK, TablesType, WorldType
    <2>2. EngineType'
      BY <1>3 DEF IInv, TypeOK, TablesType, EngineType, IterationPhases
    <2>3. SpawnType'
      BY <1>3 DEF IInv, TypeOK, SpawnType
    <2>. QED  BY <1>3, <2>1, <2>2, <2>3, TypeFrame DEF IInv, TypeOK
  <1>6. Sockets'
    <2>1. \A g \in TableFds' : conn'[g].st # "closed"
      BY <1>2, <1>4 DEF IInv, Sockets, TablesSound
    <2>2. \A q, r \in Dialable : peer_sockets'[q] = peer_sockets'[r] /\ peer_sockets'[q] # NoFd => q = r
      BY <1>1 DEF IInv, Sockets, TablesSound
    <2>3. \A t, u \in Slots :
            inbound_sockets'[t] = inbound_sockets'[u] /\ inbound_sockets'[t] \in Fds => t = u
      BY <1>1, MarkersAssumption DEF IInv, Sockets, TablesSound
    <2>4. TablesSound'
      BY <1>4, <2>1, <2>2, <2>3 DEF IInv, Sockets, TablesSound
    <2>5. \A p \in Dialable : peer_sockets'[p] # NoFd =>
            /\ peer_sockets'[p] = peer_sockets[p] /\ peer_sockets[p] \in Fds \ {fd}
      BY <1>1 DEF IInv, TypeOK, TablesType
    <2>6. DialledRemote'
      BY <1>2, <2>5 DEF IInv, Sockets, DialledRemote
    <2>7. IdentifiedSockets'
      BY <1>2, <1>3, <1>4 DEF IInv, Sockets, IdentifiedSockets
    <2>. QED  BY <2>4, <2>6, <2>7 DEF Sockets
  <1>7. Connected'
    <2>. SUFFICES ASSUME NEW p \in known
                  PROVE  \/ \E g \in TableFds' : conn'[g].ident /\ conn'[g].remote = p
                         \/ epc' = "death" /\ subject' = p
      BY <1>3 DEF Connected, sched
    <2>1. PICK g \in TableFds : conn[g].ident /\ conn[g].remote = p
      BY <1>3 DEF IInv, Connected
    <2>2. CASE g # fd
      BY <1>2, <1>4, <2>1, <2>2
    <2>3. CASE g = fd
      <3>1. socket_to_id[fd] = p
        BY <2>1, <2>3 DEF IInv, Sockets, IdentifiedSockets
      <3>2. p # NoId
        BY IdsAssumption, MarkersAssumption DEF IInv, TypeOK, SchedType
      <3>. QED  BY <1>3, <3>1, <3>2
    <2>. QED  BY <2>2, <2>3
  <1>8. ReadNeverBlocks'
    BY <1>2, <1>3, <1>4 DEF IInv, ReadNeverBlocks, Readable
  <1>9. Locked' /\ WinnerStaysEligible'
    BY <1>3 DEF IInv, Locked, WinnerStaysEligible, sched
  <1>10. Seen' /\ Taken'
    <2>1. /\ seen' \in {seen, NoFd} /\ seen' \in (Fds \ {fd}) \cup {NoFd}
          /\ fresh' => fresh /\ target \in Fds \ {fd}
      BY <1>3, MarkersAssumption DEF IInv, TypeOK, SpawnType, Taken
    <2>2. Fds \ {fd} \in SUBSET Fds
      OBVIOUS
    <2>. QED  BY <1>1, <1>2, <1>3, <2>1, <2>2, KeepLookup
  <1>. QED  BY <1>5, <1>6, <1>7, <1>8, <1>9, <1>10 DEF IInv

-----------------------------------------------------------------------------
(***************************************************************************)
(* Steps of the user thread.                                               *)
(***************************************************************************)
\* A step that touches the user's locals only.
UserPart == SpawnType /\ Locked /\ WinnerStaysEligible /\ Seen /\ Taken
LEMMA LocalStep ==
  ASSUME IInv, UNCHANGED <<tables, sched, engine, proc, world>>, UserPart'
  PROVE  IInv'
  <1>1. SameConns
    BY StutterSame DEF IInv, world
  <1>2. Sockets' /\ Connected' /\ ReadNeverBlocks'
    BY <1>1, SameEngine DEF sched, engine
  <1>3. TypeOK'
    BY TypeFrame DEF IInv, TypeOK, UserPart
  <1>. QED  BY <1>2, <1>3 DEF IInv, UserPart

\* Outside a lookup and a send nothing has been seen or taken.
LEMMA NothingHeld ==
  ASSUME IInv, mpc \notin Looking \cup {"send"}
  PROVE  winner = NoId /\ seen = NoFd /\ fresh = FALSE
  BY DEF IInv, Locked, Seen, Taken, Looking, TypeOK, SpawnType

LEMMA SpawnStart ==
  ASSUME IInv, velum_spawn_wasm \/ velum_spawn_wasm_distributed \/ SleepOver \/ Return
  PROVE  IInv'
  <1>1. mpc \notin Looking \cup {"send"} /\ UNCHANGED lookup
        /\ UNCHANGED <<tables, sched, engine, proc, world>>
    BY DEF velum_spawn_wasm, velum_spawn_wasm_distributed, SleepOver, Return, Looking
  <1>2. winner = NoId /\ seen = NoFd /\ fresh = FALSE
    BY <1>1, NothingHeld
  <1>3. Seen' /\ Taken'
    BY <1>1, <1>2 DEF Seen, Taken, lookup
  <1>4. CASE velum_spawn_wasm
    <2>1. SpawnType' /\ Locked' /\ WinnerStaysEligible'
      BY <1>1, <1>2, <1>4, IdsAssumption
      DEF velum_spawn_wasm, IInv, TypeOK, SchedType, SpawnType, Locked, Looking,
          WinnerStaysEligible, sched, lookup
    <2>. QED  BY <1>1, <1>3, <2>1, LocalStep DEF UserPart
  <1>5. CASE velum_spawn_wasm_distributed \/ SleepOver \/ Return
    <2>1. SpawnType' /\ Locked' /\ WinnerStaysEligible'
      BY ZenonT(60), <1>1, <1>2, <1>5
      DEF velum_spawn_wasm_distributed, SleepOver, Return, IInv, TypeOK, SpawnType, Locked,
          Looking, WinnerStaysEligible, lookup
    <2>. QED  BY <1>1, <1>3, <2>1, LocalStep DEF UserPart
  <1>. QED  BY <1>4, <1>5

\* find_all_workers: whatever the engine does between its reads, what it finds
\* are node ids.
LEMMA FindSteps ==
  ASSUME IInv, FindStep
  PROVE  IInv'
  <1>1. /\ mpc \in {"find", "owner"} /\ mpc' \in {"find", "owner", "sleep", "loop"}
        /\ UNCHANGED <<api_mutex, op, winner, target, seen, fresh>>
        /\ UNCHANGED <<tables, sched, engine, proc, world>>
    BY DEF FindStep, FindPeer, FindInbound, FindOwner, Found, lookup
  <1>2. winner = NoId /\ seen = NoFd /\ fresh = FALSE /\ op = "scatter" /\ api_mutex # "free"
    <2>1. mpc \notin Looking \cup {"send"}
      BY <1>1 DEF Looking
    <2>. QED  BY <1>1, <2>1, NothingHeld DEF IInv, Locked
  <1>3. Seen' /\ Taken' /\ WinnerStaysEligible'
    BY <1>1, <1>2 DEF Seen, Taken, WinnerStaysEligible
  <1>4. /\ workers' \subseteq Peers /\ unread' \subseteq Dialable /\ slept' \in BOOLEAN
        /\ slot' \in 0 .. InboundMax /\ entry' \in Fds \cup {NoFd, BadFd}
        /\ mpc' = "owner" => slot' \in Slots /\ entry' \in Fds
    <2>1. CASE \E p \in Dialable : FindPeer(p)
      BY <1>1, <2>1, IdsAssumption
      DEF FindPeer, IInv, TypeOK, SpawnType, Locked, lookup
    <2>2. CASE FindInbound
      <3>1. slot \in Slots => slot + 1 \in 0 .. InboundMax
        BY BoundsAssumption DEF Slots
      <3>. QED  BY <2>2, <3>1 DEF FindInbound, IInv, TypeOK, SpawnType, Locked
    <2>3. CASE FindOwner
      <3>1. slot \in Slots /\ entry \in Fds
        BY <2>3 DEF FindOwner, IInv, Locked
      <3>2. slot + 1 \in 0 .. InboundMax
        BY <3>1, BoundsAssumption DEF Slots
      <3>3. socket_to_id[entry] \in Peers \cup {NoId}
        BY <3>1 DEF IInv, TypeOK, TablesType
      <3>. QED  BY <2>3, <3>2, <3>3 DEF FindOwner, IInv, TypeOK, SpawnType
    <2>4. CASE Found
      <3>1. 0 \in 0 .. InboundMax
        BY BoundsAssumption
      <3>. QED  BY <2>4, <3>1 DEF Found, IInv, TypeOK, SpawnType
    <2>. QED  BY <2>1, <2>2, <2>3, <2>4 DEF FindStep
  <1>5. SpawnType' /\ Locked'
    BY <1>1, <1>2, <1>4 DEF IInv, TypeOK, SpawnType, Locked, Looking
  <1>. QED  BY <1>1, <1>3, <1>5, LocalStep DEF UserPart

\* What the steps of a lookup leave alone.
LEMMA LookupFrame ==
  ASSUME IInv, LookupStep
  PROVE  /\ UNCHANGED <<api_mutex, op, slept, unread>>
         /\ UNCHANGED <<tables, sched, engine, proc, world>>
         /\ api_mutex # "free" /\ op # "none"
         /\ UNCHANGED <<known, conn, peer_sockets, inbound_sockets>>
  <1>1. UNCHANGED <<api_mutex, op, slept, unread>>
        /\ UNCHANGED <<tables, sched, engine, proc, world>> /\ mpc # "idle"
    BY DEF LookupStep, TestPeer, TakePeer, TestInbound, ReadInbound, MatchOwner, TakeInbound,
           LookupOver
  <1>. QED  BY <1>1 DEF IInv, Locked, tables, sched, world

\* The test of the worker's own entry: the connection it sees leads to the worker.
LEMMA TestPeerStep ==
  ASSUME IInv, NEW w \in Peers, TestPeer(w)
  PROVE  IInv'
  <1>1. LookupStep
    BY DEF LookupStep
  <1>2. /\ mpc = "loop" /\ mpc' \in {"peer", "scan"} /\ workers' = workers \ {w} /\ winner' = w
        /\ w \in workers /\ UNCHANGED <<slot, entry, target, fresh>>
    BY DEF TestPeer
  <1>3. seen = NoFd /\ fresh = FALSE
    BY <1>2, NothingHeld DEF Looking
  <1>4. \/ /\ mpc' = "peer" /\ w \in Dialable /\ seen' = peer_sockets[w] /\ seen' # NoFd
        \/ mpc' = "scan" /\ seen' = NoFd
    BY <1>3 DEF TestPeer
  <1>5. mpc' = "peer" => seen' \in TableFds /\ seen' \in Fds
    BY <1>4 DEF IInv, TypeOK, TablesType, TableFds, PeerFds
  <1>6. SpawnType' /\ Locked'
    BY <1>1, <1>2, <1>4, <1>5, LookupFrame DEF IInv, TypeOK, SpawnType, Locked, Looking
  <1>7. WinnerStaysEligible'
    BY <1>1, <1>2, LookupFrame DEF IInv, WinnerStaysEligible
  <1>8. Seen' /\ Taken'
    BY <1>1, <1>2, <1>3, <1>4, <1>5, LookupFrame DEF IInv, Sockets, TablesSound, Seen, Taken
  <1>. QED  BY <1>1, <1>6, <1>7, <1>8, LookupFrame, LocalStep DEF UserPart

\* The second read of that entry finds the connection the test saw, if that was
\* not closed.
LEMMA TakePeerStep ==
  ASSUME IInv, TakePeer
  PROVE  IInv'
  <1>1. LookupStep
    BY DEF LookupStep
  <1>2. /\ mpc = "peer" /\ mpc' = "send" /\ target' = peer_sockets[winner]
        /\ seen' = NoFd /\ fresh' = (seen # NoFd) /\ UNCHANGED <<workers, winner, slot, entry>>
    BY DEF TakePeer
  <1>3. winner \in Peers /\ winner \in Dialable
    BY <1>2 DEF IInv, Locked, Looking
  <1>4. target' \in Fds \cup {NoFd, BadFd}
    BY <1>2, <1>3 DEF IInv, TypeOK, TablesType
  <1>5. SpawnType' /\ Locked' /\ WinnerStaysEligible'
    BY <1>1, <1>2, <1>3, <1>4, LookupFrame
    DEF IInv, TypeOK, SpawnType, Locked, Looking, WinnerStaysEligible
  <1>6. ASSUME seen # NoFd
        PROVE  target' = seen /\ seen \in Fds /\ conn[seen].st # "closed"
               /\ conn[seen].remote = winner
    BY <1>2, <1>3, <1>6 DEF IInv, TypeOK, SpawnType, Seen, Sockets, DialledRemote
  <1>7. Seen' /\ Taken'
    BY <1>1, <1>2, <1>6, LookupFrame DEF Seen, Taken
  <1>. QED  BY <1>1, <1>5, <1>7, LookupFrame, LocalStep DEF UserPart

\* The scan of inbound_sockets up to the comparison of the owner.
LEMMA ScanStep ==
  ASSUME IInv, TestInbound \/ ReadInbound \/ LookupOver
  PROVE  IInv'
  <1>1. LookupStep
    BY DEF LookupStep
  <1>2. /\ mpc \in {"scan", "index"} /\ mpc' \in {"scan", "index", "match", "send", "loop"}
        /\ UNCHANGED <<workers, target, fresh>>
    BY DEF TestInbound, ReadInbound, LookupOver
  <1>3. winner \in Peers /\ (mpc = "scan" => seen = NoFd)
    BY <1>2 DEF IInv, Locked, Looking, Seen
  <1>4. CASE TestInbound
    <2>1. UNCHANGED <<winner, entry>>
      BY <1>4 DEF TestInbound
    <2>2. slot \in Slots /\ slot \in 0 .. InboundMax /\ slot + 1 \in 0 .. InboundMax
      BY <1>4, BoundsAssumption DEF TestInbound, Slots
    <2>3. \/ /\ mpc' = "index" /\ slot' = slot /\ seen' = inbound_sockets[slot] /\ seen' \in Fds
          \/ mpc' = "scan" /\ slot' = slot + 1 /\ seen' = NoFd
      BY <1>3, <1>4 DEF TestInbound
    <2>4. mpc' = "index" => seen' \in TableFds
      BY <2>2, <2>3 DEF TableFds, InFds
    <2>5. SpawnType' /\ Locked' /\ WinnerStaysEligible'
      BY <1>1, <1>2, <1>3, <2>1, <2>2, <2>3, LookupFrame
      DEF IInv, TypeOK, SpawnType, Locked, Looking, WinnerStaysEligible
    <2>6. Seen'
      BY <1>1, <2>2, <2>3, <2>4, LookupFrame DEF IInv, Sockets, TablesSound, Seen
    <2>7. Taken'
      BY <1>1, <1>2, <2>1, <2>3, LookupFrame DEF IInv, Taken, Looking
    <2>. QED  BY <1>1, <2>5, <2>6, <2>7, LookupFrame, LocalStep DEF UserPart
  <1>5. CASE ReadInbound
    <2>1. /\ mpc = "index" /\ mpc' = "match" /\ entry' = inbound_sockets[slot]
          /\ UNCHANGED <<winner, slot, seen>>
      BY <1>5 DEF ReadInbound
    <2>2. slot \in Slots
      BY <2>1 DEF IInv, Locked
    <2>3. entry' \in Fds \cup {NoFd, BadFd}
      BY <2>1, <2>2 DEF IInv, TypeOK, TablesType
    <2>4. SpawnType' /\ Locked' /\ WinnerStaysEligible'
      BY <1>1, <1>2, <1>3, <2>1, <2>2, <2>3, LookupFrame
      DEF IInv, TypeOK, SpawnType, Locked, Looking, WinnerStaysEligible
    <2>5. Seen' /\ Taken'
      BY <1>1, <1>2, <2>1, LookupFrame DEF IInv, Seen, Taken, Looking
    <2>. QED  BY <1>1, <2>4, <2>5, LookupFrame, LocalStep DEF UserPart
  <1>6. CASE LookupOver
    <2>1. /\ mpc = "scan" /\ slot' = 0 /\ UNCHANGED <<entry, seen>>
          /\ \/ target # BadFd /\ mpc' = "send" /\ winner' = winner
             \/ target = BadFd /\ mpc' = "loop" /\ winner' = NoId
      BY <1>6 DEF LookupOver
    <2>2. 0 \in 0 .. InboundMax
      BY BoundsAssumption
    <2>3. SpawnType' /\ Locked' /\ WinnerStaysEligible'
      BY <1>1, <1>2, <1>3, <2>1, <2>2, LookupFrame
      DEF IInv, TypeOK, SpawnType, Locked, Looking, WinnerStaysEligible
    <2>4. fresh => target # BadFd
      BY MarkersAssumption DEF IInv, Taken
    <2>5. Seen' /\ Taken'
      BY <1>1, <1>2, <1>3, <2>1, <2>4, LookupFrame DEF IInv, Seen, Taken, Looking
    <2>. QED  BY <1>1, <2>3, <2>5, LookupFrame, LocalStep DEF UserPart
  <1>. QED  BY <1>4, <1>5, <1>6

\* The comparison: an entry whose connection has spoken and whose owner is thought
\* to be the worker leads to the worker.
LEMMA MatchStep ==
  ASSUME IInv, MatchOwner
  PROVE  IInv'
  <1>1. LookupStep
    BY DEF LookupStep
  <1>2. mpc = "match" /\ entry' = NoFd /\ UNCHANGED <<workers, winner, target, fresh>>
    BY DEF MatchOwner
  <1>3. slot \in Slots /\ slot + 1 \in 0 .. InboundMax /\ winner \in Peers
    BY <1>2, BoundsAssumption DEF IInv, Locked, Looking, Slots
  <1>4. \/ /\ TRUE \in Owned(winner) /\ mpc' = "take" /\ slot' = slot
           /\ seen' = IF entry \in Fds /\ conn[entry].ident THEN seen ELSE NoFd
        \/ mpc' = "scan" /\ seen' = NoFd /\ slot' = slot + 1
    BY DEF MatchOwner
  <1>5. SpawnType' /\ Locked' /\ WinnerStaysEligible'
    BY ZenonT(60), <1>1, <1>2, <1>3, <1>4, LookupFrame
    DEF IInv, TypeOK, SpawnType, Locked, Looking, WinnerStaysEligible
  <1>6. Taken'
    BY <1>1, <1>2, <1>4, LookupFrame DEF IInv, Taken, Looking
  <1>7. ASSUME seen' # NoFd
        PROVE  /\ mpc' = "take" /\ slot' = slot /\ seen' = seen /\ seen \in Fds
               /\ conn[seen].st # "closed" /\ inbound_sockets[slot] = seen
               /\ conn[seen].remote = winner
    <2>1. mpc' = "take" /\ seen' = seen /\ seen # NoFd /\ entry \in Fds /\ conn[entry].ident
          /\ TRUE \in Owned(winner) /\ slot' = slot
      BY <1>4, <1>7
    <2>2. entry = seen /\ inbound_sockets[slot] = seen /\ conn[seen].st # "closed"
      BY <1>2, <2>1 DEF IInv, Seen
    <2>3. seen \in TableFds
      BY <1>3, <2>1, <2>2 DEF TableFds, InFds
    <2>4. socket_to_id[entry] = winner
      <3>1. Owned(winner) = {socket_to_id[entry] = winner}
        BY <2>1, MarkersAssumption DEF Owned
      <3>. QED  BY <2>1, <3>1
    <2>5. conn[seen].remote = winner
      BY <2>1, <2>2, <2>3, <2>4 DEF IInv, Sockets, IdentifiedSockets
    <2>. QED  BY <2>1, <2>2, <2>5
  <1>8. Seen'
    BY <1>1, <1>2, <1>7, LookupFrame DEF Seen
  <1>. QED  BY <1>1, <1>5, <1>6, <1>8, LookupFrame, LocalStep DEF UserPart

\* The third read of the slot finds the connection of the test, as TakePeer does.
LEMMA TakeInboundStep ==
  ASSUME IInv, TakeInbound
  PROVE  IInv'
  <1>1. LookupStep
    BY DEF LookupStep
  <1>2. /\ mpc = "take" /\ mpc' = "scan" /\ target' = inbound_sockets[slot] /\ seen' = NoFd
        /\ fresh' = (seen # NoFd) /\ slot' = slot + 1 /\ UNCHANGED <<workers, winner, entry>>
    BY DEF TakeInbound
  <1>3. slot \in Slots /\ slot + 1 \in 0 .. InboundMax /\ winner \in Peers
    BY <1>2, BoundsAssumption DEF IInv, Locked, Looking, Slots
  <1>4. target' \in Fds \cup {NoFd, BadFd}
    BY <1>2, <1>3 DEF IInv, TypeOK, TablesType
  <1>5. SpawnType' /\ Locked' /\ WinnerStaysEligible'
    BY <1>1, <1>2, <1>3, <1>4, LookupFrame
    DEF IInv, TypeOK, SpawnType, Locked, Looking, WinnerStaysEligible
  <1>6. ASSUME seen # NoFd
        PROVE  target' = seen /\ seen \in Fds /\ conn[seen].st # "closed"
               /\ conn[seen].remote = winner
    BY <1>2, <1>6 DEF IInv, TypeOK, SpawnType, Seen
  <1>7. Seen' /\ Taken'
    BY <1>1, <1>2, <1>6, LookupFrame DEF Seen, Taken, Looking
  <1>. QED  BY <1>1, <1>5, <1>7, LookupFrame, LocalStep DEF UserPart

LEMMA LookupSteps ==
  ASSUME IInv, LookupStep
  PROVE  IInv'
  BY TestPeerStep, TakePeerStep, ScanStep, MatchStep, TakeInboundStep DEF LookupStep

LEMMA SendStep ==
  ASSUME IInv, SendTask
  PROVE  IInv'
  <1>1. CASE Die("killed by spawn")
    BY <1>1, DieStep DEF IInv, Ends
  <1>2. CASE /\ conn' = AfterSend({target})
             /\ pending_tasks' = IF op = "scatter" THEN pending_tasks \cup {winner} ELSE pending_tasks
             /\ mpc' = "loop" /\ winner' = NoId /\ target' = BadFd /\ fresh' = FALSE
             /\ UNCHANGED <<tables, known, engine, api_mutex, op, slept, workers, unread,
                            slot, entry, seen, proc, up, backlog>>
    <2>1. SameConns /\ mpc = "send"
      BY <1>2, SendSame DEF IInv, SendTask
    <2>2. Sockets' /\ Connected' /\ ReadNeverBlocks'
      BY <1>2, <2>1, SameEngine DEF engine
    <2>3. conn' \in [Fds -> Conns]
      BY <2>1 DEF SameConns
    <2>4. TypeOK'
      <3>1. SchedType'
        BY <1>2, <2>1 DEF IInv, TypeOK, SchedType, Locked, Looking
      <3>2. SpawnType'
        BY <1>2 DEF IInv, TypeOK, SpawnType
      <3>3. WorldType'
        BY <1>2, <2>3 DEF IInv, TypeOK, WorldType
      <3>. QED  BY <1>2, <3>1, <3>2, <3>3, TypeFrame DEF IInv, TypeOK
    <2>5. Locked' /\ WinnerStaysEligible' /\ Seen' /\ Taken'
      BY <1>2, <2>1 DEF IInv, Locked, Looking, WinnerStaysEligible, Seen, Taken
    <2>. QED  BY <2>2, <2>4, <2>5 DEF IInv
  <1>. QED  BY <1>1, <1>2 DEF SendTask

-----------------------------------------------------------------------------
(***************************************************************************)
(* Steps of the other nodes.                                               *)
(***************************************************************************)
LEMMA WorldStep ==
  ASSUME IInv, SameConns, UNCHANGED <<tables, sched, engine, spawn>>,
         proc' \in Ends, up' \subseteq Peers, backlog' \subseteq [id : Peers, up : BOOLEAN]
  PROVE  IInv'
  <1>1. WorldType'
    BY DEF WorldType, SameConns
  <1>2. TypeOK'
    BY <1>1, TypeFrame DEF IInv, TypeOK
  <1>. QED  BY <1>2, QuietStep DEF sched, engine

\* One connection changes its state and is not closed by this, or gets a message.
LEMMA OneConn ==
  ASSUME TypeOK, UNCHANGED tables, NEW fd \in Fds, NEW c \in Conns,
         conn' = [conn EXCEPT ![fd] = c],
         c.st # "closed", conn[fd].st # "closed",
         c.remote = conn[fd].remote, c.ident = conn[fd].ident,
         Readable(fd) => c.inbox # <<>> \/ c.st \in {"gone", "broken"}
  PROVE  SameConns
  <1>1. /\ conn' \in [Fds -> Conns] /\ conn'[fd] = c
        /\ \A g \in Fds : g # fd => conn'[g] = conn[g]
    BY DEF TypeOK, WorldType
  <1>. QED  BY <1>1 DEF SameConns, Readable

LEMMA EnvironmentStep ==
  ASSUME IInv, Environment \/ velum_init
  PROVE  IInv'
  <1>. USE DEF IInv
  <1>1. ASSUME NEW p \in Peers, PeerDial(p) \/ PeerRestart(p) PROVE IInv'
    <2>1. SameConns
      BY <1>1, StutterSame DEF PeerDial, PeerRestart
    <2>2. [id |-> p, up |-> TRUE] \in [id : Peers, up : BOOLEAN]
      OBVIOUS
    <2>3. backlog' \subseteq backlog \cup {[id |-> p, up |-> TRUE]}
      BY <1>1 DEF PeerDial, PeerRestart
    <2>4. backlog' \subseteq [id : Peers, up : BOOLEAN]
      BY <2>2, <2>3 DEF TypeOK, WorldType
    <2>5. up' \subseteq Peers /\ proc' \in Ends
      BY <1>1 DEF TypeOK, WorldType, PeerDial, PeerRestart
    <2>. QED  BY <1>1, <2>1, <2>4, <2>5, WorldStep DEF PeerDial, PeerRestart
  <1>2. ASSUME NEW fd \in Fds, PeerAccept(fd) \/ PeerRefuse(fd) PROVE IInv'
    <2>1. PICK s \in {"open", "gone"} : conn' = [conn EXCEPT ![fd].st = s]
      BY <1>2 DEF PeerAccept, PeerRefuse
    <2>2. conn[fd] \in Conns /\ conn[fd].st = "dialing" /\ s \in ConnStates
      BY <1>2 DEF TypeOK, WorldType, PeerAccept, PeerRefuse, ConnStates
    <2> DEFINE c == [conn[fd] EXCEPT !.st = s]
    <2>3. /\ c \in Conns /\ c.st = s /\ c.remote = conn[fd].remote
          /\ c.inbox = conn[fd].inbox /\ c.ident = conn[fd].ident
      BY <2>2, ConnWithState
    <2>4. conn' = [conn EXCEPT ![fd] = c]
      BY <2>1
    <2>. HIDE DEF c
    <2>5. SameConns
      BY <1>2, <2>2, <2>3, <2>4, OneConn DEF PeerAccept, PeerRefuse, Readable
    <2>. QED  BY <1>2, <2>5, WorldStep DEF PeerAccept, PeerRefuse, TypeOK, WorldType
  <1>3. ASSUME NEW fd \in Fds, NEW t \in PeerMsgs, PeerSend(fd, t) PROVE IInv'
    <2>1. conn[fd] \in Conns /\ conn[fd].st = "open" /\ t \in MsgTypes
      BY <1>3, MsgsAssumption DEF TypeOK, WorldType, PeerSend
    <2> DEFINE c == [conn[fd] EXCEPT !.inbox = Append(@, t)]
    <2>2. /\ c \in Conns /\ c.st = conn[fd].st /\ c.remote = conn[fd].remote
          /\ c.inbox # <<>> /\ c.ident = conn[fd].ident
      BY <2>1, ConnSent
    <2>3. conn' = [conn EXCEPT ![fd] = c]
      BY <1>3 DEF PeerSend
    <2>. HIDE DEF c
    <2>4. SameConns
      BY <1>3, <2>1, <2>2, <2>3, OneConn DEF PeerSend
    <2>. QED  BY <1>3, <2>4, WorldStep DEF PeerSend, TypeOK, WorldType
  <1>4. ASSUME NEW p \in Peers, PeerCrash(p) PROVE IInv'
    <2>1. ASSUME NEW fd \in Fds
          PROVE  /\ conn'[fd] \in Conns
                 /\ conn'[fd].st = "closed" <=> conn[fd].st = "closed"
                 /\ conn'[fd].remote = conn[fd].remote
                 /\ conn'[fd].ident = conn[fd].ident
                 /\ Readable(fd) => Readable(fd)'
      <3>1. conn[fd] \in Conns /\ "gone" \in ConnStates
        BY DEF TypeOK, WorldType, ConnStates
      <3>2. CASE conn'[fd] = conn[fd]
        BY <3>1, <3>2 DEF Readable
      <3>3. CASE /\ conn'[fd] = [conn[fd] EXCEPT !.st = "gone"]
                 /\ conn[fd].st \in {"dialing", "open"}
        BY <3>1, <3>3, ConnWithState DEF Readable
      <3>. QED  BY <1>4, <3>2, <3>3 DEF PeerCrash
    <2>2. conn' \in [Fds -> Conns]
      BY <1>4, <2>1 DEF PeerCrash
    <2>3. SameConns
      BY <1>4, <2>1, <2>2 DEF SameConns, PeerCrash
    <2>4. backlog' \subseteq [id : Peers, up : BOOLEAN]
      BY <1>4 DEF PeerCrash, TypeOK, WorldType
    <2>. QED  BY <1>4, <2>3, <2>4, WorldStep DEF PeerCrash, TypeOK, WorldType
  <1>5. CASE velum_init
    <2>1. SameConns
      BY <1>5, StutterSame DEF velum_init, world
    <2>. QED  BY <1>5, <2>1, WorldStep DEF velum_init, TypeOK, WorldType, world, Ends
  <1>. QED  BY <1>1, <1>2, <1>3, <1>4, <1>5 DEF Environment

-----------------------------------------------------------------------------
LEMMA InitHolds == Init => IInv
  BY StartedHolds DEF Init, Ends

LEMMA Inductive == IInv /\ [Next]_vars => IInv'
  <1>. SUFFICES ASSUME IInv, [Next]_vars PROVE IInv'
    OBVIOUS
  <1>1. CASE Engine
    BY <1>1, SelectStep, HeartbeatStep, DiscoverStep, AcceptStep, AcceptFailsStep, AcceptNoSlotStep,
       CloseStep, ReceiveStep, DeathStep, ReplyStep, CallbackStep
    DEF Engine
  <1>2. CASE User
    <2>1. CASE main
      BY <2>1, DieStep DEF main, IInv, Ends
    <2>. QED  BY <1>2, <2>1, SpawnStart, FindSteps, LookupSteps, SendStep DEF User, SpawnStep
  <1>3. CASE Environment \/ velum_init
    BY <1>3, EnvironmentStep
  <1>4. CASE UNCHANGED vars
    <2>1. UNCHANGED <<tables, sched, engine, spawn, proc, world>>
      BY <1>4 DEF vars
    <2>2. SameConns
      BY <2>1, StutterSame DEF IInv, world
    <2>. QED  BY <2>1, <2>2, WorldStep DEF IInv, TypeOK, WorldType, world
  <1>. QED  BY <1>1, <1>2, <1>3, <1>4 DEF Next

\* The types of the kernel's variables: only an inbound slot can ever hold the
\* -1 of an accept that failed.
THEOREM Typing == Spec => []TypeOK
  BY InitHolds, Inductive, PTL DEF Spec, IInv

\* For every number of nodes, slots and descriptors: the tables of
\* velum_engine_loop hold open descriptors only, and each once.
THEOREM TablesAreSound == Spec => []TablesSound
  BY InitHolds, Inductive, PTL DEF Spec, IInv, Sockets

\* socket_to_id attributes every socket that was dialled or has spoken to the
\* node at its other end, however often its descriptor has been used before.
THEOREM SocketsAreIdentified == Spec => []IdentifiedSockets
  BY InitHolds, Inductive, PTL DEF Spec, IInv, Sockets

\* For every number of nodes: a node that find_best_node can elect has a socket,
\* or the engine holds its death in hand.
THEOREM EligibleNodesAreConnected == Spec => []EligibleIsConnected
  <1>1. IInv => EligibleIsConnected
    BY DEF IInv, Sockets, Connected, IdentifiedSockets, EligibleIsConnected
  <1>. QED  BY <1>1, InitHolds, Inductive, PTL DEF Spec

\* read is never called on a descriptor that has nothing to give.
THEOREM ReadsDoNotBlock == Spec => []ReadNeverBlocks
  BY InitHolds, Inductive, PTL DEF Spec, IInv

\* For every number of nodes, slots and descriptors, with the engine free to run
\* between any two reads of a table entry: a task reaches the worker it is for, if
\* the connection that the test of the entry saw is not closed before the send and,
\* being an inbound one, had spoken.
THEOREM TasksReachTheirWorkers == Spec => []TaskGoesToItsWorker
  <1>1. IInv => TaskGoesToItsWorker
    BY DEF IInv, Taken, TaskGoesToItsWorker
  <1>. QED  BY <1>1, InitHolds, Inductive, PTL DEF Spec

\* The worker that find_best_node has elected is still eligible when the task is
\* sent, since handle_disconnect waits for the api_mutex of the election.
THEOREM WinnersStayEligible == Spec => []WinnerStaysEligible
  BY InitHolds, Inductive, PTL DEF Spec, IInv
=============================================================================
