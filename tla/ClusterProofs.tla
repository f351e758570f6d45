---------------------------- MODULE ClusterProofs ----------------------------
(***************************************************************************)
(* The cluster implements Dispatch, and a task is lost only for a cause,   *)
(* for every set of nodes and of tasks.                                    *)
(*                                                                         *)
(* The invariant says where a task can be: in at most one message, on an   *)
(* end between its requester and its worker, or in the sandbox of its      *)
(* worker, or returned, and in none of these before it is sent.            *)
(***************************************************************************)
EXTENDS Cluster, SequenceTheorems, TLAPS

Message == [type : {"TASK_REQUEST", "TASK_RESULT"}, task : Tasks]

Types ==
  /\ alive \subseteq Nodes
  /\ sock \in [Ends -> {"none", "backlog", "held"}]
  /\ inbox \in [Ends -> Seq(Message)]
  /\ executing \in [Nodes -> Tasks \cup {NoTask}]
  /\ requester \in [Tasks -> Nodes \cup {NoNode}]
  /\ worker \in [Tasks -> Nodes \cup {NoNode}]
  /\ returned \subseteq Tasks

\* A task that was sent went from one node to another.
Routed ==
  \A t \in Tasks : requester[t] # NoNode =>
    worker[t] # NoNode /\ requester[t] # worker[t]

\* No message is about the task t.
NoMail(box, t) == \A e \in Ends : \A i \in DOMAIN box[e] : box[e][i].task # t

\* Of each task there is at most one message.
Single(box) ==
  \A e, f \in Ends : \A i \in DOMAIN box[e], j \in DOMAIN box[f] :
    box[e][i].task = box[f][j].task => e = f /\ i = j

\* A message waits where its reader is.
Addressed(box) ==
  \A e \in Ends : \A i \in DOMAIN box[e] :
    LET m == box[e][i] IN
    IF m.type = "TASK_REQUEST" THEN e[1] = worker[m.task] /\ e[2] = requester[m.task]
    ELSE e[1] = requester[m.task] /\ e[2] = worker[m.task]

\* A node that runs a task is its worker, and nobody else has to do with it.
Sandboxed ==
  \A n \in Nodes : executing[n] # NoTask =>
    /\ n = worker[executing[n]] /\ requester[executing[n]] # NoNode
    /\ executing[n] \notin returned /\ NoMail(inbox, executing[n])

\* A task before it is sent, and one whose result was printed, is nowhere else.
Outside ==
  \A t \in Tasks :
    /\ requester[t] = NoNode \/ t \in returned => NoMail(inbox, t)
    /\ t \in returned => requester[t] # NoNode

\* Nothing waits at an end that is not open.
ClosedEmpty == \A e \in Ends : sock[e] = "none" => inbox[e] = <<>>

IInv ==
  /\ Types /\ Routed /\ Single(inbox) /\ Addressed(inbox)
  /\ Sandboxed /\ Outside /\ ClosedEmpty

-----------------------------------------------------------------------------
\* The ends of a connection.
LEMMA FarEnd ==
  ASSUME NEW e \in Ends
  PROVE  /\ e[1] \in Nodes /\ e[2] \in Nodes /\ e[1] # e[2]
         /\ Far(e) \in Ends /\ Far(e)[1] = e[2] /\ Far(e)[2] = e[1]
         /\ Far(Far(e)) = e /\ Far(e) # e
  BY DEF Ends, Far, Other, Tables

LEMMA EndBetween ==
  ASSUME NEW n \in Nodes, NEW m \in Nodes, n # m, NEW d \in Tables
  PROVE  /\ <<n, m, d>> \in Ends /\ <<n, m, d>>[1] = n /\ <<n, m, d>>[2] = m
         /\ Far(<<n, m, d>>) = <<m, n, Other(d)>>
  BY DEF Ends, Far

-----------------------------------------------------------------------------
(***************************************************************************)
(* What emptying, appending and reading do to what waits in the inboxes.   *)
(***************************************************************************)
Boxes == [Ends -> Seq(Message)]

\* The messages of a type about a task in any inboxes: At is Waiting(inbox, ...).
Waiting(box, type, t) ==
  {e \in Ends : \E i \in DOMAIN box[e] : box[e][i] = [type |-> type, task |-> t]}

LEMMA MessageFields ==
  ASSUME NEW box \in Boxes, NEW e \in Ends, NEW i \in DOMAIN box[e]
  PROVE  /\ box[e][i] \in Message
         /\ box[e][i].type \in {"TASK_REQUEST", "TASK_RESULT"} /\ box[e][i].task \in Tasks
         /\ box[e][i] = [type |-> box[e][i].type, task |-> box[e][i].task]
  <1>1. box[e] \in Seq(Message)
    BY DEF Boxes
  <1>2. box[e][i] \in Message
    BY <1>1, LenProperties, ElementOfSeq
  <1> QED BY <1>2 DEF Message

\* Nothing waits about a task that has no mail.
LEMMA NoMailNothingWaits ==
  ASSUME NEW box \in Boxes, NEW t \in Tasks
  PROVE  NoMail(box, t) <=>
           Waiting(box, "TASK_REQUEST", t) = {} /\ Waiting(box, "TASK_RESULT", t) = {}
  <1>1. ASSUME NoMail(box, t), NEW type \in {"TASK_REQUEST", "TASK_RESULT"},
               NEW e \in Waiting(box, type, t)
        PROVE  FALSE
    BY <1>1 DEF Waiting, NoMail
  <1>2. ASSUME NEW e \in Ends, NEW i \in DOMAIN box[e], box[e][i].task = t
        PROVE  /\ e \in Waiting(box, box[e][i].type, t)
               /\ box[e][i].type \in {"TASK_REQUEST", "TASK_RESULT"}
    BY <1>2, MessageFields DEF Waiting
  <1> QED BY <1>1, <1>2 DEF NoMail

\* A task with a single message waits at a single end, with a single type.
LEMMA SingleWaits ==
  ASSUME NEW box \in Boxes, Single(box), NEW t \in Tasks,
         NEW a \in {"TASK_REQUEST", "TASK_RESULT"}, NEW b \in {"TASK_REQUEST", "TASK_RESULT"},
         NEW e \in Waiting(box, a, t), NEW f \in Waiting(box, b, t)
  PROVE  a = b /\ e = f
  <1>1. PICK i \in DOMAIN box[e] : box[e][i] = [type |-> a, task |-> t]
    BY DEF Waiting
  <1>2. PICK j \in DOMAIN box[f] : box[f][j] = [type |-> b, task |-> t]
    BY DEF Waiting
  <1>3. e = f /\ i = j
    BY <1>1, <1>2 DEF Single, Waiting
  <1> QED BY <1>1, <1>2, <1>3

LEMMA Emptying ==
  ASSUME NEW box \in Boxes, NEW new \in Boxes, Single(box),
         \A e \in Ends : new[e] = box[e] \/ new[e] = <<>>
  PROVE  /\ Single(new)
         /\ Addressed(box) => Addressed(new)
         /\ \A t \in Tasks : NoMail(box, t) => NoMail(new, t)
         /\ \A t, type : \A e \in Waiting(box, type, t) :
              e \in Waiting(new, type, t) \/ new[e] # box[e]
         /\ \A t, type : Waiting(new, type, t) \subseteq Waiting(box, type, t)
  <1>1. ASSUME NEW e \in Ends, NEW i \in DOMAIN new[e]
        PROVE  new[e] = box[e]
    <2>1. DOMAIN <<>> = {}
      BY EmptySeq, LenProperties
    <2> QED BY <1>1, <2>1
  <1>2. Single(new)
    BY <1>1 DEF Single
  <1>3. Addressed(box) => Addressed(new)
    BY <1>1 DEF Addressed
  <1>4. \A t \in Tasks : NoMail(box, t) => NoMail(new, t)
    BY <1>1 DEF NoMail
  <1> QED BY <1>1, <1>2, <1>3, <1>4 DEF Waiting

LEMMA Appending ==
  ASSUME NEW box \in Boxes, NEW f \in Ends, NEW m \in Message, NoMail(box, m.task), Single(box)
  PROVE  LET new == [box EXCEPT ![f] = Append(@, m)] IN
         /\ new \in Boxes /\ Single(new)
         /\ \A e \in Ends : \A i \in DOMAIN new[e] :
              (e = f /\ new[e][i] = m) \/ (i \in DOMAIN box[e] /\ new[e][i] = box[e][i])
         /\ \A t \in Tasks \ {m.task} : NoMail(box, t) => NoMail(new, t)
         /\ \A t \in Tasks \ {m.task} : \A type : Waiting(new, type, t) = Waiting(box, type, t)
         /\ f \in Waiting(new, m.type, m.task)
  <1> DEFINE new == [box EXCEPT ![f] = Append(@, m)]
             k == Len(box[f]) + 1
  <1>1. /\ box[f] \in Seq(Message) /\ Len(box[f]) \in Nat
        /\ DOMAIN box[f] = 1 .. Len(box[f])
        /\ new \in Boxes /\ new[f] = Append(box[f], m)
        /\ \A e \in Ends : e # f => new[e] = box[e]
    BY AppendProperties, LenProperties DEF Boxes
  <1>2. /\ DOMAIN new[f] = DOMAIN box[f] \cup {k} /\ k \notin DOMAIN box[f]
        /\ new[f][k] = m /\ \A i \in DOMAIN box[f] : new[f][i] = box[f][i]
    BY <1>1, AppendProperties, LenProperties
  <1> HIDE DEF new, k
  <1>3. \A e \in Ends : \A i \in DOMAIN new[e] :
          (e = f /\ i = k /\ new[e][i] = m) \/ (i \in DOMAIN box[e] /\ new[e][i] = box[e][i])
    BY <1>1, <1>2
  <1>4. Single(new)
    BY <1>3 DEF Single, NoMail
  <1>5. \A t \in Tasks \ {m.task} : NoMail(box, t) => NoMail(new, t)
    BY <1>3 DEF NoMail
  <1>6. \A e \in Ends : \A i \in DOMAIN box[e] : i \in DOMAIN new[e] /\ new[e][i] = box[e][i]
    BY <1>1, <1>2
  <1>7. \A t \in Tasks \ {m.task} : \A type : Waiting(new, type, t) = Waiting(box, type, t)
    BY <1>3, <1>6 DEF Waiting
  <1>8. f \in Waiting(new, m.type, m.task)
    BY <1>1, <1>2 DEF Waiting, Message
  <1> QED BY <1>1, <1>3, <1>4, <1>5, <1>7, <1>8 DEF new

LEMMA HeadAndTail ==
  ASSUME NEW S, NEW s \in Seq(S), s # <<>>
  PROVE  /\ 1 \in DOMAIN s /\ Head(s) = s[1] /\ Head(s) \in S /\ Tail(s) \in Seq(S)
         /\ \A i \in DOMAIN Tail(s) : /\ i \in Nat \ {0} /\ i + 1 \in DOMAIN s
                                      /\ Tail(s)[i] = s[i + 1]
         /\ \A i \in DOMAIN s : i # 1 => /\ i - 1 \in DOMAIN Tail(s) /\ Tail(s)[i - 1] = s[i]
  <1>1. /\ Len(s) \in Nat /\ Len(s) # 0 /\ DOMAIN s = 1 .. Len(s)
        /\ Head(s) \in S /\ Tail(s) \in Seq(S) /\ Len(Tail(s)) = Len(s) - 1
        /\ \A i \in 1 .. Len(Tail(s)) : Tail(s)[i] = s[i + 1]
    BY LenProperties, EmptySeq, HeadTailProperties
  <1>2. DOMAIN Tail(s) = 1 .. Len(s) - 1
    BY <1>1, LenProperties
  <1>3. Head(s) = s[1]
    OBVIOUS
  <1> QED BY <1>1, <1>2, <1>3

LEMMA Reading ==
  ASSUME NEW box \in Boxes, NEW f \in Ends, box[f] # <<>>, Single(box)
  PROVE  LET new == [box EXCEPT ![f] = Tail(@)]
             m == Head(box[f]) IN
         /\ new \in Boxes /\ Single(new) /\ m \in Message
         /\ 1 \in DOMAIN box[f] /\ m = box[f][1]
         /\ Addressed(box) => Addressed(new)
         /\ NoMail(new, m.task) /\ f \in Waiting(box, m.type, m.task)
         /\ \A t \in Tasks : NoMail(box, t) => NoMail(new, t)
         /\ \A t \in Tasks \ {m.task} : \A type : Waiting(new, type, t) = Waiting(box, type, t)
  <1> DEFINE new == [box EXCEPT ![f] = Tail(@)]
             m == Head(box[f])
  <1>1. box[f] \in Seq(Message) /\ Tail(box[f]) \in Seq(Message)
    BY HeadAndTail DEF Boxes
  <1>2. /\ new \in Boxes /\ new[f] = Tail(box[f])
        /\ \A e \in Ends : e # f => new[e] = box[e]
    BY <1>1 DEF Boxes
  <1>3. m \in Message /\ 1 \in DOMAIN box[f] /\ m = box[f][1]
    BY <1>1, HeadAndTail
  <1>3a. m.type \in {"TASK_REQUEST", "TASK_RESULT"} /\ m = [type |-> m.type, task |-> m.task]
    BY <1>3, MessageFields
  <1>3b. box[f] # <<>>
    OBVIOUS
  <1>3c. /\ \A i \in DOMAIN Tail(box[f]) : /\ i \in Nat \ {0} /\ i + 1 \in DOMAIN box[f]
                                           /\ Tail(box[f])[i] = box[f][i + 1]
         /\ \A i \in DOMAIN box[f] : i # 1 => /\ i - 1 \in DOMAIN Tail(box[f])
                                              /\ Tail(box[f])[i - 1] = box[f][i]
    <2> DEFINE s == box[f]
    <2>1. s \in Seq(Message) /\ s # <<>>
      BY <1>1, <1>3b
    <2> HIDE DEF s
    <2>2. /\ \A i \in DOMAIN Tail(s) : i \in Nat \ {0} /\ i + 1 \in DOMAIN s /\ Tail(s)[i] = s[i + 1]
          /\ \A i \in DOMAIN s : i # 1 => i - 1 \in DOMAIN Tail(s) /\ Tail(s)[i - 1] = s[i]
      BY <2>1, HeadAndTail
    <2> QED BY <2>2 DEF s
  <1> HIDE DEF new
  <1>4. \A i \in DOMAIN new[f] : /\ i \in Nat \ {0} /\ i + 1 \in DOMAIN box[f]
                                 /\ new[f][i] = box[f][i + 1]
    BY <1>2, <1>3c, Zenon
  <1>5. \A i \in DOMAIN box[f] : i # 1 => i - 1 \in DOMAIN new[f] /\ new[f][i - 1] = box[f][i]
    BY <1>2, <1>3c, Zenon
  <1>5a. \A e \in Ends : \A i \in DOMAIN new[e] : \E j \in DOMAIN box[e] : new[e][i] = box[e][j]
    BY <1>2, <1>4
  <1> HIDE DEF new, m
  <1>6. Single(new)
    <2> SUFFICES ASSUME NEW e \in Ends, NEW g \in Ends,
                        NEW i \in DOMAIN new[e], NEW j \in DOMAIN new[g],
                        new[e][i].task = new[g][j].task
                 PROVE  e = g /\ i = j
      BY DEF Single
    <2>1. /\ e # f => new[e] = box[e]
          /\ g # f => new[g] = box[g]
          /\ e = f => i \in Nat /\ i + 1 \in DOMAIN box[e] /\ new[e][i] = box[e][i + 1]
          /\ g = f => j \in Nat /\ j + 1 \in DOMAIN box[g] /\ new[g][j] = box[g][j + 1]
      BY <1>2, <1>4
    <2> QED BY <2>1 DEF Single
  <1>7. Addressed(box) => Addressed(new)
    <2> SUFFICES ASSUME Addressed(box), NEW e \in Ends, NEW i \in DOMAIN new[e]
                 PROVE  LET n == new[e][i] IN
                        IF n.type = "TASK_REQUEST" THEN e[1] = worker[n.task] /\ e[2] = requester[n.task]
                        ELSE e[1] = requester[n.task] /\ e[2] = worker[n.task]
      BY DEF Addressed
    <2>1. PICK j \in DOMAIN box[e] : new[e][i] = box[e][j]
      BY <1>5a
    <2> QED BY <2>1 DEF Addressed
  <1>8. NoMail(new, m.task)
    <2> SUFFICES ASSUME NEW e \in Ends, NEW i \in DOMAIN new[e], new[e][i].task = m.task
                 PROVE  FALSE
      BY DEF NoMail
    <2>1. CASE e = f
      BY <2>1, <1>3, <1>4 DEF Single
    <2>2. CASE e # f
      BY <2>2, <1>2, <1>3 DEF Single
    <2> QED BY <2>1, <2>2
  <1>9. \A t \in Tasks : NoMail(box, t) => NoMail(new, t)
    BY <1>5a DEF NoMail
  <1>10. f \in Waiting(box, m.type, m.task)
    BY <1>3, <1>3a DEF Waiting
  <1>11. ASSUME NEW t \in Tasks \ {m.task}, NEW type
         PROVE  Waiting(new, type, t) = Waiting(box, type, t)
    <2>1. ASSUME NEW e \in Waiting(new, type, t)
          PROVE  e \in Waiting(box, type, t)
      <3>1. PICK i \in DOMAIN new[e] : new[e][i] = [type |-> type, task |-> t]
        BY <2>1 DEF Waiting
      <3>2. PICK j \in DOMAIN box[e] : new[e][i] = box[e][j]
        BY <1>5a, <2>1 DEF Waiting
      <3> QED BY <2>1, <3>1, <3>2 DEF Waiting
    <2>2. ASSUME NEW e \in Waiting(box, type, t)
          PROVE  e \in Waiting(new, type, t)
      <3>1. PICK i \in DOMAIN box[e] : box[e][i] = [type |-> type, task |-> t]
        BY <2>2 DEF Waiting
      <3>2. e = f => i # 1
        BY <3>1, <1>3
      <3>3. \E j \in DOMAIN new[e] : new[e][j] = box[e][i]
        BY ZenonT(60), <3>2, <1>2, <1>5, <2>2 DEF Waiting
      <3> QED BY <3>1, <3>3, <2>2 DEF Waiting
    <2> QED BY <2>1, <2>2
  <1> QED BY <1>2, <1>3, <1>6, <1>7, <1>8, <1>9, <1>10, <1>11 DEF new, m

-----------------------------------------------------------------------------
(***************************************************************************)
(* The status of a task.                                                   *)
(***************************************************************************)
Runs(t) == \E n \in Nodes : executing[n] = t

\* What a step may do to the status of a task.
Advances(t) == <<Status(t), Status(t)'>> \in D!Progress
MayBeLost(t) == Status(t)' = Status(t) \/ <<Status(t), Status(t)'>> \in D!Loss

\* The conjunct of LossHasACause for one task.
Cause(t) ==
  Status(t)' = "lost" =>
    /\ Status(t) \in {"queued", "answered"} =>
         \E e \in At("TASK_REQUEST", t) \cup At("TASK_RESULT", t) :
           \/ e[1] \notin alive'
           \/ sock[e] = "backlog" /\ sock[e]' = "none"
    /\ Status(t) = "running" => worker[t] \notin alive' \/ ~Answerable(t)

LEMMA AtIsWaiting == \A type, t : At(type, t) = Waiting(inbox, type, t)
  BY DEF At, Waiting

\* The status by what is known of the task, of which at most one thing holds.
StatusFrom(t) ==
  IF requester[t] = NoNode THEN "unsent"
  ELSE IF t \in returned THEN "returned"
  ELSE IF Runs(t) THEN "running"
  ELSE IF Waiting(inbox, "TASK_RESULT", t) # {} THEN "answered"
  ELSE IF Waiting(inbox, "TASK_REQUEST", t) # {} THEN "queued"
  ELSE "lost"

Apart(t) ==
  /\ requester[t] = NoNode => t \notin returned
  /\ requester[t] = NoNode \/ t \in returned => ~Runs(t)
  /\ requester[t] = NoNode \/ t \in returned \/ Runs(t) =>
       Waiting(inbox, "TASK_RESULT", t) = {} /\ Waiting(inbox, "TASK_REQUEST", t) = {}
  /\ Waiting(inbox, "TASK_RESULT", t) = {} \/ Waiting(inbox, "TASK_REQUEST", t) = {}

LEMMA TasksApart ==
  ASSUME IInv, NEW t \in Tasks
  PROVE  Apart(t)
  <1>1. inbox \in Boxes /\ Single(inbox)
    BY DEF IInv, Types, Boxes
  <1>2. NoMail(inbox, t) =>
          Waiting(inbox, "TASK_REQUEST", t) = {} /\ Waiting(inbox, "TASK_RESULT", t) = {}
    BY <1>1, NoMailNothingWaits
  <1>3. Runs(t) => requester[t] # NoNode /\ t \notin returned /\ NoMail(inbox, t)
    BY TasksAssumption DEF Runs, IInv, Sandboxed
  <1>4. Waiting(inbox, "TASK_RESULT", t) = {} \/ Waiting(inbox, "TASK_REQUEST", t) = {}
    BY <1>1, SingleWaits
  <1> QED BY <1>2, <1>3, <1>4 DEF Apart, IInv, Outside

LEMMA StatusIs ==
  ASSUME NEW t \in Tasks, Apart(t)
  PROVE  Status(t) = StatusFrom(t)
  <1>1. At("TASK_RESULT", t) = Waiting(inbox, "TASK_RESULT", t)
    BY AtIsWaiting
  <1>2. At("TASK_REQUEST", t) = Waiting(inbox, "TASK_REQUEST", t)
    BY AtIsWaiting
  <1> QED BY <1>1, <1>2 DEF Status, Runs, Apart, StatusFrom

Determined(t) == Apart(t) /\ Status(t) = StatusFrom(t)

LEMMA StatusOf ==
  ASSUME NEW t \in Tasks
  PROVE  (IInv => Determined(t)) /\ (IInv' => Determined(t)')
  <1>1. IInv => Determined(t)
    BY TasksApart, StatusIs DEF Determined
  <1>2. IInv' => Determined(t)'
    BY <1>1, PTL
  <1> QED BY <1>1, <1>2

-----------------------------------------------------------------------------
(***************************************************************************)
(* The steps.  Most of them only empty inboxes and end what nodes run.     *)
(***************************************************************************)
Emptied ==
  /\ \A e \in Ends :
       \/ inbox'[e] = inbox[e]
       \/ /\ inbox'[e] = <<>>
          /\ e[1] \notin alive' \/ (sock[e] = "backlog" /\ sock'[e] = "none")
  /\ \A n \in Nodes :
       \/ executing'[n] = executing[n]
       \/ /\ executing[n] # NoTask /\ executing'[n] = NoTask
          /\ n \notin alive' \/ ~Answerable(executing[n])
  /\ UNCHANGED <<tasks, returned>>

LEMMA EmptiedKeeps ==
  ASSUME IInv, Emptied, Types', ClosedEmpty'
  PROVE  IInv' /\ \A t \in Tasks : MayBeLost(t) /\ Cause(t)
  <1>1. /\ inbox \in Boxes /\ inbox' \in Boxes /\ Single(inbox) /\ Addressed(inbox)
        /\ \A e \in Ends : inbox'[e] = inbox[e] \/ inbox'[e] = <<>>
        /\ UNCHANGED <<requester, worker, returned>>
    BY DEF IInv, Types, Boxes, Emptied, tasks
  <1>2. /\ Single(inbox') /\ Addressed(inbox')
        /\ \A t \in Tasks : NoMail(inbox, t) => NoMail(inbox', t)
        /\ \A t, type : \A e \in Waiting(inbox, type, t) :
             e \in Waiting(inbox', type, t) \/ inbox'[e] # inbox[e]
        /\ \A t, type : Waiting(inbox', type, t) \subseteq Waiting(inbox, type, t)
    BY <1>1, Emptying
  <1>3. Addressed(inbox)' /\ Single(inbox)'
    BY <1>1, <1>2 DEF Addressed, Single
  <1>4. \A n \in Nodes : executing'[n] # NoTask => executing'[n] = executing[n]
    BY DEF Emptied
  <1>5. Sandboxed'
    <2> SUFFICES ASSUME NEW n \in Nodes, executing'[n] # NoTask
                 PROVE  /\ n = worker'[executing'[n]] /\ requester'[executing'[n]] # NoNode
                        /\ executing'[n] \notin returned' /\ NoMail(inbox', executing'[n])
      BY DEF Sandboxed, NoMail
    <2>1. executing'[n] = executing[n] /\ executing[n] \in Tasks
      BY <1>4 DEF IInv, Types
    <2> QED BY <2>1, <1>1, <1>2 DEF IInv, Sandboxed
  <1>6. Outside'
    <2>1. \A t \in Tasks : NoMail(inbox', t) <=> NoMail(inbox, t)'
      BY DEF NoMail
    <2> QED BY <2>1, <1>1, <1>2 DEF IInv, Outside
  <1>7. Routed'
    BY <1>1 DEF IInv, Routed
  <1>8. IInv'
    BY <1>3, <1>5, <1>6, <1>7 DEF IInv
  <1>9. ASSUME NEW t \in Tasks
        PROVE  MayBeLost(t) /\ Cause(t)
    <2>1. /\ Apart(t) /\ Status(t) = StatusFrom(t)
          /\ Apart(t)' /\ Status(t)' = StatusFrom(t)'
      BY <1>8, StatusOf DEF Determined
    <2>2. \A type : Waiting(inbox, type, t)' = Waiting(inbox', type, t)
      BY DEF Waiting
    <2>3. Runs(t)' => Runs(t)
      BY <1>4, TasksAssumption DEF Runs
    <2>4. /\ Waiting(inbox, "TASK_RESULT", t)' \subseteq Waiting(inbox, "TASK_RESULT", t)
          /\ Waiting(inbox, "TASK_REQUEST", t)' \subseteq Waiting(inbox, "TASK_REQUEST", t)
      BY <1>2, <2>2
    <2>5. MayBeLost(t)
      BY <2>1, <2>3, <2>4, <1>1 DEF MayBeLost, D!Loss, StatusFrom, Apart
    <2>6. ASSUME Status(t)' = "lost", Status(t) \in {"queued", "answered"}
          PROVE  \E e \in At("TASK_REQUEST", t) \cup At("TASK_RESULT", t) :
                   \/ e[1] \notin alive'
                   \/ sock[e] = "backlog" /\ sock[e]' = "none"
      <3>1. /\ Waiting(inbox, "TASK_RESULT", t)' = {} /\ Waiting(inbox, "TASK_REQUEST", t)' = {}
            /\ Waiting(inbox, "TASK_RESULT", t) # {} \/ Waiting(inbox, "TASK_REQUEST", t) # {}
        BY <2>1, <2>6 DEF StatusFrom
      <3>2. PICK type \in {"TASK_REQUEST", "TASK_RESULT"} :
              Waiting(inbox, type, t) # {} /\ Waiting(inbox', type, t) = {}
        BY <3>1, <2>2
      <3>3. PICK e \in Waiting(inbox, type, t) : inbox'[e] # inbox[e]
        BY <3>2, <1>2
      <3>4. e \in Ends /\ e \in At("TASK_REQUEST", t) \cup At("TASK_RESULT", t)
        BY <3>3, AtIsWaiting DEF Waiting
      <3> QED BY <3>3, <3>4 DEF Emptied
    <2>7. ASSUME Status(t)' = "lost", Status(t) = "running"
          PROVE  worker[t] \notin alive' \/ ~Answerable(t)
      <3>1. Runs(t) /\ ~Runs(t)'
        BY <2>1, <2>7 DEF StatusFrom
      <3>2. PICK n \in Nodes : executing[n] = t /\ executing'[n] # t
        BY <3>1 DEF Runs
      <3>3. n = worker[t]
        BY <3>2, TasksAssumption DEF IInv, Sandboxed
      <3> QED BY <3>2, <3>3 DEF Emptied
    <2> QED BY <2>5, <2>6, <2>7 DEF Cause
  <1> QED BY <1>8, <1>9

\* What every step shows.
Kept == IInv' /\ \A t \in Tasks : MayBeLost(t) /\ Cause(t)

LEMMA EmptyBox == <<>> \in Seq(Message)
  BY EmptySeq

\* A connection is dialled where there was none, so its inboxes were empty.
LEMMA DialStep ==
  ASSUME IInv, NEW n \in Nodes, NEW m \in Nodes, n # m, Dial(n, m)
  PROVE  Kept
  <1> DEFINE e == <<n, m, "peer">>
  <1>1. e \in Ends /\ Far(e) \in Ends
    BY EndBetween, FarEnd DEF Tables
  <1> HIDE DEF e
  <1>2. /\ sock[e] = "none" /\ sock[Far(e)] = "none"
        /\ sock' = [sock EXCEPT ![e] = "held", ![Far(e)] = "backlog"]
        /\ inbox' = [inbox EXCEPT ![e] = <<>>, ![Far(e)] = <<>>]
        /\ UNCHANGED <<alive, executing, tasks, returned>>
    BY DEF Dial, e
  <1>3. inbox' = inbox
    BY <1>1, <1>2 DEF IInv, Types, ClosedEmpty
  <1>4. Types'
    BY <1>1, <1>2, <1>3 DEF IInv, Types, tasks
  <1>5. ClosedEmpty'
    BY <1>1, <1>2, <1>3 DEF IInv, Types, ClosedEmpty
  <1>6. Emptied
    BY <1>2, <1>3 DEF Emptied
  <1> QED BY <1>4, <1>5, <1>6, EmptiedKeeps DEF Kept

LEMMA AcceptStep ==
  ASSUME IInv, NEW e \in Ends, Accept(e)
  PROVE  Kept
  <1>1. Types' /\ ClosedEmpty' /\ Emptied
    BY DEF Accept, IInv, Types, ClosedEmpty, Emptied, tasks
  <1> QED BY <1>1, EmptiedKeeps DEF Kept

LEMMA RefuseStep ==
  ASSUME IInv, NEW e \in Ends, Refuse(e)
  PROVE  Kept
  <1>1. Types' /\ ClosedEmpty' /\ Emptied
    BY EmptyBox DEF Refuse, IInv, Types, ClosedEmpty, Emptied, tasks
  <1> QED BY <1>1, EmptiedKeeps DEF Kept

\* A connection is closed when all that was sent on it has been read.
LEMMA CloseDeadStep ==
  ASSUME IInv, NEW e \in Ends, CloseDead(e)
  PROVE  Kept
  <1>1. inbox' = inbox /\ UNCHANGED <<alive, executing, tasks, returned>>
    BY DEF CloseDead, Drained, IInv, Types
  <1>2. sock' = [sock EXCEPT ![e] = "none"] /\ inbox[e] = <<>>
    BY DEF CloseDead, Zeroed, Drained
  <1>3. Types' /\ ClosedEmpty' /\ Emptied
    BY <1>1, <1>2 DEF IInv, Types, ClosedEmpty, Emptied, tasks
  <1> QED BY <1>3, EmptiedKeeps DEF Kept

LEMMA CrashStep ==
  ASSUME IInv, NEW n \in Nodes, Crash(n)
  PROVE  Kept
  <1>1. /\ n \notin alive' /\ alive' \subseteq Nodes
        /\ sock' = [e \in Ends |-> IF e[1] = n THEN "none" ELSE sock[e]]
        /\ inbox' = [e \in Ends |-> IF e[1] = n THEN <<>> ELSE inbox[e]]
        /\ executing' = [executing EXCEPT ![n] = NoTask]
        /\ UNCHANGED <<requester, worker, returned>>
    BY DEF Crash, IInv, Types, tasks
  <1>2. Types'
    BY <1>1, EmptyBox DEF IInv, Types
  <1>3. ClosedEmpty'
    BY <1>1 DEF IInv, Types, ClosedEmpty
  <1>4. Emptied
    BY <1>1 DEF IInv, Types, Emptied, tasks
  <1> QED BY <1>2, <1>3, <1>4, EmptiedKeeps DEF Kept

LEMMA StartStep ==
  ASSUME IInv, (\E n \in Nodes : velum_init(n)) \/ UNCHANGED vars
  PROVE  Kept
  <1>1. UNCHANGED <<net, executing, tasks, returned>> /\ alive' \subseteq Nodes
    BY DEF velum_init, vars, IInv, Types
  <1>2. Types' /\ ClosedEmpty' /\ Emptied
    BY <1>1 DEF IInv, Types, ClosedEmpty, Emptied, net, tasks
  <1> QED BY <1>2, EmptiedKeeps DEF Kept

-----------------------------------------------------------------------------
(***************************************************************************)
(* The steps by which one task makes its way.                              *)
(***************************************************************************)
KeptBut(t) ==
  /\ IInv' /\ Cause(t) /\ (Advances(t) \/ MayBeLost(t))
  /\ \A u \in Tasks \ {t} : Status(u)' = Status(u)

LEMMA StatusKept ==
  ASSUME IInv, IInv', NEW u \in Tasks, requester'[u] = requester[u],
         u \in returned' <=> u \in returned, Runs(u)' <=> Runs(u),
         \A type : Waiting(inbox', type, u) = Waiting(inbox, type, u)
  PROVE  Status(u)' = Status(u)
  <1>1. Status(u) = StatusFrom(u) /\ Status(u)' = StatusFrom(u)'
    BY StatusOf DEF Determined
  <1>2. \A type : Waiting(inbox, type, u)' = Waiting(inbox', type, u)
    BY DEF Waiting
  <1>3. /\ Waiting(inbox, "TASK_RESULT", u)' = Waiting(inbox, "TASK_RESULT", u)
        /\ Waiting(inbox, "TASK_REQUEST", u)' = Waiting(inbox, "TASK_REQUEST", u)
    BY <1>2
  <1> QED BY <1>1, <1>3 DEF StatusFrom

LEMMA ReplyStep ==
  ASSUME IInv, NEW n \in Nodes, Reply(n)
  PROVE  Kept \/ \E t \in Tasks : KeptBut(t)
  <1>0. PICK t \in Tasks : t = executing[n]
    BY DEF Reply, IInv, Types
  <1> DEFINE e == <<n, requester[t], "peer">>
             m == [type |-> "TASK_RESULT", task |-> t]
  <1>1. /\ t \in Tasks /\ n = worker[t] /\ requester[t] \in Nodes /\ requester[t] # n
        /\ t \notin returned /\ NoMail(inbox, t)
    BY <1>0 DEF Reply, IInv, Types, Sandboxed, Routed
  <1>2. /\ e \in Ends /\ Far(e) \in Ends /\ Far(e)[1] = requester[t] /\ Far(e)[2] = worker[t]
    BY <1>1, EndBetween, FarEnd DEF Tables
  <1>3. /\ inbox' = IF sock[e] = "held" THEN Sent(e, m) ELSE inbox
        /\ executing' = [executing EXCEPT ![n] = NoTask]
        /\ executing[n] # NoTask
        /\ UNCHANGED <<alive, sock, tasks, returned>>
    BY <1>0 DEF Reply
  <1>4. Answerable(t) <=> sock[e] = "held" /\ sock[Far(e)] # "none"
    BY <1>1 DEF Answerable
  <1>5. CASE ~Answerable(t)
    <2>1. inbox' = inbox
      BY <1>3, <1>4, <1>5 DEF Sent
    <2>2. Types' /\ ClosedEmpty' /\ Emptied
      BY <1>0, <1>3, <1>5, <2>1 DEF IInv, Types, ClosedEmpty, Emptied, tasks
    <2> QED BY <2>2, EmptiedKeeps DEF Kept
  <1>6. CASE Answerable(t)
    <2>1. inbox' = [inbox EXCEPT ![Far(e)] = Append(@, m)]
      BY <1>3, <1>4, <1>6 DEF Sent
    <2>0. PICK f \in Ends : f = Far(e)
      BY <1>2
    <2> HIDE DEF e, m
    <2>2. m \in Message /\ m.task = t /\ m.type = "TASK_RESULT"
      BY <1>1 DEF Message, m
    <2>3. inbox \in Boxes /\ Single(inbox)
      BY DEF IInv, Types, Boxes
    <2>4. /\ inbox' \in Boxes /\ Single(inbox')
          /\ \A a \in Ends : \A i \in DOMAIN inbox'[a] :
               (a = f /\ inbox'[a][i] = m) \/ (i \in DOMAIN inbox[a] /\ inbox'[a][i] = inbox[a][i])
          /\ \A u \in Tasks \ {t} : NoMail(inbox, u) => NoMail(inbox', u)
          /\ \A u \in Tasks \ {t} : \A type : Waiting(inbox', type, u) = Waiting(inbox, type, u)
          /\ f \in Waiting(inbox', "TASK_RESULT", t)
      <3> DEFINE new == [inbox EXCEPT ![f] = Append(@, m)]
      <3>1. NoMail(inbox, m.task) /\ inbox' = new
        BY <1>1, <2>0, <2>1, <2>2
      <3>2. /\ new \in Boxes /\ Single(new)
            /\ \A a \in Ends : \A i \in DOMAIN new[a] :
                 (a = f /\ new[a][i] = m) \/ (i \in DOMAIN inbox[a] /\ new[a][i] = inbox[a][i])
            /\ \A u \in Tasks \ {m.task} : NoMail(inbox, u) => NoMail(new, u)
            /\ \A u \in Tasks \ {m.task} : \A type : Waiting(new, type, u) = Waiting(inbox, type, u)
            /\ f \in Waiting(new, m.type, m.task)
        BY <2>2, <2>3, <3>1, Appending
      <3> HIDE DEF new
      <3> QED BY <2>2, <3>1, <3>2
    <2>5. /\ UNCHANGED <<alive, sock, requester, worker, returned>>
          /\ executing' = [executing EXCEPT ![n] = NoTask]
      BY <1>3 DEF tasks
    <2>6. Types'
      BY <2>4, <2>5 DEF IInv, Types, Boxes
    <2>7. Addressed(inbox)'
      BY <1>2, <2>0, <2>2, <2>4, <2>5 DEF IInv, Addressed
    <2>8. ClosedEmpty'
      BY <1>2, <1>4, <1>6, <2>0, <2>1, <2>5 DEF IInv, Types, ClosedEmpty
    <2>9. \A k \in Nodes : executing'[k] # NoTask => executing'[k] = executing[k] /\ executing[k] # t
      BY <1>0, <2>5, <1>1 DEF IInv, Types, Sandboxed
    <2>10. \A u : NoMail(inbox, u)' <=> NoMail(inbox', u)
      BY DEF NoMail
    <2>11. Sandboxed'
      BY <2>4, <2>5, <2>9, <2>10 DEF IInv, Types, Sandboxed
    <2>12. Outside'
      BY <1>1, <2>4, <2>5, <2>10, NodesAssumption DEF IInv, Outside
    <2>13. Routed' /\ Single(inbox)'
      BY <2>4, <2>5 DEF IInv, Routed, Single
    <2>14. IInv'
      BY <2>6, <2>7, <2>8, <2>11, <2>12, <2>13 DEF IInv
    <2>15. ASSUME NEW u \in Tasks \ {t}
           PROVE  Status(u)' = Status(u)
      <3>1. Runs(u)' <=> Runs(u)
        BY <1>0, <2>5, TasksAssumption DEF Runs, IInv, Types
      <3> QED BY <2>4, <2>5, <2>14, <3>1, StatusKept
    <2>16. Status(t) = "running" /\ Status(t)' = "answered"
      <3>1. Runs(t)
        BY <1>0 DEF Runs
      <3>2. ~Runs(t)'
        BY <2>9, <2>5, <1>1, TasksAssumption DEF Runs
      <3>3. Waiting(inbox, "TASK_RESULT", t)' # {}
        BY <2>4 DEF Waiting
      <3> QED BY <1>1, <2>5, <2>14, <3>1, <3>2, <3>3, StatusOf, NodesAssumption
              DEF Determined, StatusFrom
    <2>17. Advances(t) /\ Cause(t)
      BY <2>16 DEF Advances, Cause, D!Progress
    <2> QED BY <1>1, <2>14, <2>15, <2>17 DEF KeptBut
  <1> QED BY <1>5, <1>6

LEMMA TargetEnd ==
  ASSUME NEW n \in Nodes, NEW w \in Nodes, n # w
  PROVE  /\ Target(n, w) \in Ends /\ Target(n, w)[1] = n /\ Target(n, w)[2] = w
  BY EndBetween DEF Target, Tables

LEMMA SpawnStep ==
  ASSUME IInv, NEW n \in Nodes, NEW w \in Nodes, NEW t \in Tasks, NEW s \in BOOLEAN,
         Spawn(n, w, t, s)
  PROVE  KeptBut(t)
  <1> DEFINE m == [type |-> "TASK_REQUEST", task |-> t]
  <1>1. /\ n # w /\ requester[t] = NoNode
        /\ requester' = [requester EXCEPT ![t] = n] /\ worker' = [worker EXCEPT ![t] = w]
        /\ UNCHANGED <<alive, sock, executing, returned>>
    BY DEF Spawn
  <1>2. PICK e \in Ends : e = Target(n, w) /\ e[1] = n /\ e[2] = w
    BY <1>1, TargetEnd
  <1>3. PICK f \in Ends : f = Far(e) /\ f[1] = w /\ f[2] = n
    BY <1>2, FarEnd
  <1>4. inbox' = IF sock[f] = "none" THEN inbox ELSE [inbox EXCEPT ![f] = Append(@, m)]
    BY <1>2, <1>3 DEF Spawn, Sent
  <1> HIDE DEF m
  <1>5. m \in Message /\ m.task = t /\ m.type = "TASK_REQUEST"
    BY DEF Message, m
  <1>6. /\ inbox \in Boxes /\ Single(inbox) /\ NoMail(inbox, m.task)
        /\ t \notin returned /\ n # NoNode /\ w # NoNode
    BY <1>1, <1>5, NodesAssumption DEF IInv, Types, Boxes, Outside
  <1>7. /\ inbox' \in Boxes /\ Single(inbox')
        /\ \A a \in Ends : \A i \in DOMAIN inbox'[a] :
             (a = f /\ inbox'[a][i] = m) \/ (i \in DOMAIN inbox[a] /\ inbox'[a][i] = inbox[a][i])
        /\ \A u \in Tasks \ {t} : NoMail(inbox, u) => NoMail(inbox', u)
        /\ \A u \in Tasks \ {t} : \A type : Waiting(inbox', type, u) = Waiting(inbox, type, u)
    <2> DEFINE new == [inbox EXCEPT ![f] = Append(@, m)]
    <2>1. /\ new \in Boxes /\ Single(new)
          /\ \A a \in Ends : \A i \in DOMAIN new[a] :
               (a = f /\ new[a][i] = m) \/ (i \in DOMAIN inbox[a] /\ new[a][i] = inbox[a][i])
          /\ \A u \in Tasks \ {m.task} : NoMail(inbox, u) => NoMail(new, u)
          /\ \A u \in Tasks \ {m.task} : \A type : Waiting(new, type, u) = Waiting(inbox, type, u)
          /\ f \in Waiting(new, m.type, m.task)
      <3>1. inbox \in Boxes /\ Single(inbox) /\ NoMail(inbox, m.task) /\ m \in Message
        BY <1>5, <1>6
      <3>2. f \in Ends
        OBVIOUS
      <3> QED BY <3>1, <3>2, Appending
    <2>2. inbox' = inbox \/ inbox' = new
      BY <1>4
    <2> HIDE DEF new
    <2> QED BY <1>5, <1>6, <2>1, <2>2
  <1>8. \A k \in Nodes : executing[k] # t
    BY <1>1, TasksAssumption DEF IInv, Sandboxed
  <1>9. /\ requester'[t] = n /\ worker'[t] = w
        /\ \A u \in Tasks \ {t} : requester'[u] = requester[u] /\ worker'[u] = worker[u]
    BY <1>1 DEF IInv, Types
  <1>10. Types'
    BY <1>1, <1>7 DEF IInv, Types, Boxes
  <1>11. Routed'
    BY <1>1, <1>6, <1>9 DEF IInv, Routed
  <1>12. Addressed(inbox)'
    <2> SUFFICES ASSUME NEW a \in Ends, NEW i \in DOMAIN inbox'[a]
                 PROVE  LET x == inbox'[a][i] IN
                        IF x.type = "TASK_REQUEST"
                        THEN a[1] = worker'[x.task] /\ a[2] = requester'[x.task]
                        ELSE a[1] = requester'[x.task] /\ a[2] = worker'[x.task]
      BY DEF Addressed
    <2>1. CASE a = f /\ inbox'[a][i] = m
      BY <2>1, <1>3, <1>5, <1>9
    <2>2. CASE i \in DOMAIN inbox[a] /\ inbox'[a][i] = inbox[a][i]
      <3>1. inbox[a][i].task \in Tasks /\ inbox[a][i].task # t
        BY <2>2, <1>5, <1>6, MessageFields DEF NoMail
      <3> QED BY <2>2, <3>1, <1>9 DEF IInv, Addressed
    <2> QED BY <2>1, <2>2, <1>7
  <1>13. \A u : NoMail(inbox, u)' <=> NoMail(inbox', u)
    BY DEF NoMail
  <1>14. Sandboxed'
    <2> SUFFICES ASSUME NEW k \in Nodes, executing[k] # NoTask
                 PROVE  /\ k = worker'[executing[k]] /\ requester'[executing[k]] # NoNode
                        /\ executing[k] \notin returned /\ NoMail(inbox', executing[k])
      BY <1>1, <1>13 DEF Sandboxed
    <2>1. executing[k] \in Tasks \ {t}
      BY <1>8 DEF IInv, Types
    <2> QED BY <2>1, <1>7, <1>9 DEF IInv, Sandboxed
  <1>15. Outside'
    BY <1>1, <1>6, <1>7, <1>9, <1>13 DEF IInv, Outside
  <1>16. ClosedEmpty'
    BY <1>1, <1>3, <1>4 DEF IInv, Types, ClosedEmpty
  <1>17. IInv'
    BY <1>7, <1>10, <1>11, <1>12, <1>14, <1>15, <1>16 DEF IInv, Single
  <1>18. ASSUME NEW u \in Tasks \ {t}
         PROVE  Status(u)' = Status(u)
    <2>1. Runs(u)' <=> Runs(u)
      BY <1>1 DEF Runs
    <2> QED BY <1>1, <1>7, <1>9, <1>17, <2>1, StatusKept
  <1>19. Status(t) = "unsent" /\ Status(t)' \in {"queued", "lost"}
    <2>1. ~Runs(t)'
      BY <1>1, <1>8 DEF Runs
    <2>2. Waiting(inbox, "TASK_RESULT", t)' = {}
      <3> SUFFICES ASSUME NEW a \in Ends, NEW i \in DOMAIN inbox'[a],
                          inbox'[a][i] = [type |-> "TASK_RESULT", task |-> t]
                   PROVE  FALSE
        BY DEF Waiting
      <3>1. inbox'[a][i].type = "TASK_RESULT" /\ inbox'[a][i].task = t
        OBVIOUS
      <3> QED BY <3>1, <1>5, <1>6, <1>7 DEF NoMail
    <2> QED BY <1>1, <1>6, <1>9, <1>17, <2>1, <2>2, StatusOf DEF Determined, StatusFrom
  <1>20. (Advances(t) \/ MayBeLost(t)) /\ Cause(t)
    BY <1>19 DEF Advances, MayBeLost, Cause, D!Progress, D!Loss
  <1> QED BY <1>17, <1>18, <1>20 DEF KeptBut

\* The task of the message that is read is in no message afterwards.
LEMMA RecvTaskStep ==
  ASSUME IInv, NEW e \in Ends, RecvTask(e)
  PROVE  \E t \in Tasks : KeptBut(t)
  <1>1. PICK m \in Message : m = Head(inbox[e]) /\ m.type = "TASK_REQUEST" /\ inbox[e] # <<>>
    BY HeadAndTail DEF RecvTask, Read, IInv, Types
  <1>2. PICK n \in Nodes : n = e[1]
    BY FarEnd
  <1>3. PICK t \in Tasks : t = m.task
    BY DEF Message
  <1>4. /\ inbox' = [inbox EXCEPT ![e] = Tail(@)] /\ executing[n] = NoTask
        /\ executing' = [executing EXCEPT ![n] = t]
        /\ UNCHANGED <<alive, sock, requester, worker, returned>>
    BY <1>1, <1>2, <1>3 DEF RecvTask, Read, Consumed, Looping, tasks
  <1>5. inbox \in Boxes /\ Single(inbox) /\ Addressed(inbox)
    BY DEF IInv, Types, Boxes
  <1>6. /\ inbox' \in Boxes /\ Single(inbox') /\ Addressed(inbox')
        /\ 1 \in DOMAIN inbox[e] /\ m = inbox[e][1]
        /\ NoMail(inbox', t) /\ e \in Waiting(inbox, "TASK_REQUEST", t)
        /\ \A u \in Tasks : NoMail(inbox, u) => NoMail(inbox', u)
        /\ \A u \in Tasks \ {t} : \A type : Waiting(inbox', type, u) = Waiting(inbox, type, u)
    <2> DEFINE new == [inbox EXCEPT ![e] = Tail(@)]
    <2>1. inbox[e] # <<>> /\ e \in Ends
      BY <1>1
    <2>2. /\ new \in Boxes /\ Single(new)
          /\ 1 \in DOMAIN inbox[e] /\ Head(inbox[e]) = inbox[e][1]
          /\ Addressed(inbox) => Addressed(new)
          /\ NoMail(new, Head(inbox[e]).task)
          /\ e \in Waiting(inbox, Head(inbox[e]).type, Head(inbox[e]).task)
          /\ \A u \in Tasks : NoMail(inbox, u) => NoMail(new, u)
          /\ \A u \in Tasks \ {Head(inbox[e]).task} : \A type :
               Waiting(new, type, u) = Waiting(inbox, type, u)
      BY <1>5, <2>1, Reading
    <2>3. inbox' = new
      BY <1>4
    <2> HIDE DEF new
    <2> QED BY <1>1, <1>3, <1>5, <2>2, <2>3
  <1>7. /\ n = worker[t] /\ requester[t] # NoNode /\ t \notin returned
        /\ \A k \in Nodes : executing[k] # t
    BY <1>1, <1>2, <1>3, <1>5, <1>6, TasksAssumption
       DEF Addressed, IInv, Outside, Sandboxed, NoMail
  <1>8. \A u : NoMail(inbox, u)' <=> NoMail(inbox', u)
    BY DEF NoMail
  <1>9. Types'
    BY <1>4, <1>6 DEF IInv, Types, Boxes
  <1>10. Sandboxed'
    BY ZenonT(60), <1>4, <1>6, <1>7, <1>8 DEF IInv, Types, Sandboxed
  <1>11. Outside' /\ Routed' /\ Addressed(inbox)' /\ Single(inbox)'
    <2>1. Outside' /\ Routed'
      BY <1>4, <1>6, <1>8 DEF IInv, Outside, Routed
    <2>2. Addressed(inbox)' /\ Single(inbox)'
      BY <1>4, <1>6 DEF Addressed, Single
    <2> QED BY <2>1, <2>2
  <1>12. ClosedEmpty'
    BY <1>1, <1>4 DEF IInv, Types, ClosedEmpty
  <1>13. IInv'
    BY <1>9, <1>10, <1>11, <1>12 DEF IInv
  <1>14. ASSUME NEW u \in Tasks \ {t}
         PROVE  Status(u)' = Status(u)
    <2>1. Runs(u)' <=> Runs(u)
      BY <1>4, TasksAssumption DEF Runs, IInv, Types
    <2> QED BY <1>4, <1>6, <1>13, <2>1, StatusKept
  <1>15. Status(t) = "queued" /\ Status(t)' = "running"
    <2>1. Apart(t) /\ Status(t) = StatusFrom(t) /\ Status(t)' = StatusFrom(t)'
      BY <1>13, StatusOf DEF Determined
    <2>2. Runs(t)' /\ ~Runs(t)
      BY <1>4, <1>7 DEF Runs, IInv, Types
    <2> QED BY <1>4, <1>6, <1>7, <2>1, <2>2 DEF StatusFrom, Apart
  <1>16. Advances(t) /\ Cause(t)
    BY <1>15 DEF Advances, Cause, D!Progress
  <1> QED BY <1>13, <1>14, <1>16 DEF KeptBut

LEMMA RecvResultStep ==
  ASSUME IInv, NEW e \in Ends, RecvResult(e)
  PROVE  \E t \in Tasks : KeptBut(t)
  <1>1. PICK m \in Message : m = Head(inbox[e]) /\ m.type = "TASK_RESULT" /\ inbox[e] # <<>>
    BY HeadAndTail DEF RecvResult, Read, IInv, Types
  <1>2. PICK t \in Tasks : t = m.task
    BY DEF Message
  <1>3. /\ inbox' = [inbox EXCEPT ![e] = Tail(@)] /\ returned' = returned \cup {t}
        /\ UNCHANGED <<alive, sock, requester, worker, executing>>
    BY <1>1, <1>2 DEF RecvResult, Read, Consumed, tasks
  <1>4. inbox \in Boxes /\ Single(inbox) /\ Addressed(inbox)
    BY DEF IInv, Types, Boxes
  <1>5. /\ inbox' \in Boxes /\ Single(inbox') /\ Addressed(inbox')
        /\ 1 \in DOMAIN inbox[e] /\ m = inbox[e][1]
        /\ NoMail(inbox', t) /\ e \in Waiting(inbox, "TASK_RESULT", t)
        /\ \A u \in Tasks : NoMail(inbox, u) => NoMail(inbox', u)
        /\ \A u \in Tasks \ {t} : \A type : Waiting(inbox', type, u) = Waiting(inbox, type, u)
    <2> DEFINE new == [inbox EXCEPT ![e] = Tail(@)]
    <2>1. inbox[e] # <<>> /\ e \in Ends
      BY <1>1
    <2>2. /\ new \in Boxes /\ Single(new)
          /\ 1 \in DOMAIN inbox[e] /\ Head(inbox[e]) = inbox[e][1]
          /\ Addressed(inbox) => Addressed(new)
          /\ NoMail(new, Head(inbox[e]).task)
          /\ e \in Waiting(inbox, Head(inbox[e]).type, Head(inbox[e]).task)
          /\ \A u \in Tasks : NoMail(inbox, u) => NoMail(new, u)
          /\ \A u \in Tasks \ {Head(inbox[e]).task} : \A type :
               Waiting(new, type, u) = Waiting(inbox, type, u)
      BY <1>4, <2>1, Reading
    <2>3. inbox' = new
      BY <1>3
    <2> HIDE DEF new
    <2> QED BY <1>1, <1>2, <1>4, <2>2, <2>3
  <1>6. /\ requester[t] # NoNode /\ t \notin returned
        /\ \A k \in Nodes : executing[k] # t
    BY <1>1, <1>2, <1>4, <1>5, TasksAssumption DEF IInv, Outside, Sandboxed, NoMail
  <1>7. \A u : NoMail(inbox, u)' <=> NoMail(inbox', u)
    BY DEF NoMail
  <1>8. Types'
    BY <1>3, <1>5 DEF IInv, Types, Boxes
  <1>9. Sandboxed'
    BY ZenonT(60), <1>3, <1>5, <1>6, <1>7 DEF IInv, Types, Sandboxed
  <1>10. Outside' /\ Routed' /\ Addressed(inbox)' /\ Single(inbox)'
    <2>1. Outside' /\ Routed'
      BY <1>3, <1>5, <1>6, <1>7 DEF IInv, Outside, Routed
    <2>2. Addressed(inbox)' /\ Single(inbox)'
      BY <1>3, <1>5 DEF Addressed, Single
    <2> QED BY <2>1, <2>2
  <1>11. ClosedEmpty'
    BY <1>1, <1>3 DEF IInv, Types, ClosedEmpty
  <1>12. IInv'
    BY <1>8, <1>9, <1>10, <1>11 DEF IInv
  <1>13. ASSUME NEW u \in Tasks \ {t}
         PROVE  Status(u)' = Status(u)
    <2>1. Runs(u)' <=> Runs(u)
      BY <1>3 DEF Runs
    <2> QED BY <1>3, <1>5, <1>12, <2>1, StatusKept
  <1>14. Status(t) = "answered" /\ Status(t)' = "returned"
    <2>1. Apart(t) /\ Status(t) = StatusFrom(t) /\ Status(t)' = StatusFrom(t)'
      BY <1>12, StatusOf DEF Determined
    <2> QED BY <1>3, <1>5, <1>6, <2>1 DEF StatusFrom, Apart
  <1>15. Advances(t) /\ Cause(t)
    BY <1>14 DEF Advances, Cause, D!Progress
  <1> QED BY <1>12, <1>13, <1>15 DEF KeptBut

-----------------------------------------------------------------------------
LEMMA InitHolds == Init => IInv
  <1> SUFFICES ASSUME Init PROVE IInv
    OBVIOUS
  <1>1. \A e \in Ends : inbox[e] = <<>> /\ DOMAIN inbox[e] = {}
    BY EmptySeq, LenProperties DEF Init
  <1>2. Types
    BY EmptyBox DEF Init, Types
  <1>3. Single(inbox) /\ Addressed(inbox) /\ ClosedEmpty /\ \A t : NoMail(inbox, t)
    BY <1>1 DEF Single, Addressed, ClosedEmpty, NoMail
  <1>4. Routed /\ Sandboxed /\ Outside
    BY <1>3 DEF Init, Routed, Sandboxed, Outside
  <1> QED BY <1>2, <1>3, <1>4 DEF IInv

LEMMA EveryStep ==
  ASSUME IInv, [Next]_vars
  PROVE  Kept \/ \E t \in Tasks : KeptBut(t)
  <1>1. ASSUME NEW n \in Nodes, NEW m \in Nodes, n # m, Dial(n, m) PROVE Kept
    BY <1>1, DialStep
  <1>2. ASSUME NEW e \in Ends, Accept(e) \/ Refuse(e) \/ CloseDead(e) PROVE Kept
    BY <1>2, AcceptStep, RefuseStep, CloseDeadStep
  <1>3. ASSUME NEW e \in Ends, RecvTask(e) \/ RecvResult(e) PROVE \E t \in Tasks : KeptBut(t)
    BY <1>3, RecvTaskStep, RecvResultStep
  <1>4. ASSUME NEW n \in Nodes, NEW w \in Nodes, NEW t \in Tasks, NEW s \in BOOLEAN,
               Spawn(n, w, t, s)
        PROVE  \E u \in Tasks : KeptBut(u)
    BY <1>4, SpawnStep
  <1>5. ASSUME NEW n \in Nodes, Reply(n) PROVE Kept \/ \E t \in Tasks : KeptBut(t)
    BY <1>5, ReplyStep
  <1>6. ASSUME NEW n \in Nodes, Crash(n) PROVE Kept
    BY <1>6, CrashStep
  <1>7. ASSUME (\E n \in Nodes : velum_init(n)) \/ UNCHANGED vars PROVE Kept
    BY <1>7, StartStep
  <1> QED BY <1>1, <1>2, <1>3, <1>4, <1>5, <1>6, <1>7 DEF Next

LEMMA EveryStepKeeps ==
  ASSUME IInv, [Next]_vars
  PROVE  IInv' /\ \A t \in Tasks : Cause(t) \/ Status(t)' = Status(t)
  <1>1. CASE Kept
    BY <1>1 DEF Kept
  <1>2. ASSUME NEW u \in Tasks, KeptBut(u)
        PROVE  IInv' /\ \A t \in Tasks : Cause(t) \/ Status(t)' = Status(t)
    <2>1. Cause(u) /\ IInv' /\ \A t \in Tasks \ {u} : Status(t)' = Status(t)
      BY <1>2 DEF KeptBut
    <2>2. ASSUME NEW t \in Tasks, t = u PROVE Cause(t)
      BY <2>1, <2>2, Zenon DEF Cause
    <2> QED BY <2>1, <2>2
  <1> QED BY <1>1, <1>2, EveryStep

\* A task is in at most one place, between its requester and its worker.
THEOREM OnePlace == Spec => []IInv
  <1>1. IInv /\ [Next]_vars => IInv'
    BY EveryStepKeeps
  <1> QED BY <1>1, InitHolds, PTL DEF Spec

\* LossHasACause for every set of nodes and tasks: a message is lost only by the
\* crash of its reader or a refused connection, and a running task only by the
\* crash of its worker or for want of a connection to answer by.
THEOREM LossHasACauseHolds == Spec => LossHasACause
  <1>1. IInv /\ [Next]_vars =>
          [\A t \in Tasks : status[t]' = "lost" =>
             /\ status[t] \in {"queued", "answered"} =>
                  \E e \in At("TASK_REQUEST", t) \cup At("TASK_RESULT", t) :
                    \/ e[1] \notin alive'
                    \/ sock[e] = "backlog" /\ sock[e]' = "none"
             /\ status[t] = "running" => worker[t] \notin alive' \/ ~Answerable(t)]_vars
    <2> SUFFICES ASSUME IInv, [Next]_vars, NEW t \in Tasks, status[t]' = "lost"
                 PROVE  /\ status[t] \in {"queued", "answered"} =>
                             \E e \in At("TASK_REQUEST", t) \cup At("TASK_RESULT", t) :
                               \/ e[1] \notin alive'
                               \/ sock[e] = "backlog" /\ sock[e]' = "none"
                        /\ status[t] = "running" => worker[t] \notin alive' \/ ~Answerable(t)
      OBVIOUS
    <2>1. status[t] = Status(t) /\ status[t]' = Status(t)'
      BY DEF status
    <2>2. Cause(t) \/ Status(t)' = Status(t)
      BY EveryStepKeeps
    <2> QED BY <2>1, <2>2 DEF Cause
  <1> QED BY <1>1, OnePlace, PTL DEF Spec, LossHasACause

\* A step of the cluster is a step of Dispatch or changes no status.
LEMMA StepRefines ==
  ASSUME IInv, [Next]_vars
  PROVE  [D!Move]_status
  <1>1. /\ status = [t \in Tasks |-> Status(t)]
        /\ status' = [t \in Tasks |-> Status(t)']
    BY DEF status
  <1>2. IInv'
    BY EveryStepKeeps
  <1>3. status' \in [Tasks -> D!Statuses]
    <2>1. ASSUME NEW t \in Tasks PROVE Status(t)' \in D!Statuses
      BY <1>2, StatusOf DEF Determined, StatusFrom, D!Statuses
    <2> QED BY <1>1, <2>1
  <1>4. CASE \A t \in Tasks : Status(t)' = Status(t)
    BY <1>1, <1>4
  <1>5. CASE \E t \in Tasks : Status(t)' # Status(t)
    <2>1. PICK t \in Tasks : /\ Advances(t) \/ <<Status(t), Status(t)'>> \in D!Loss
                             /\ \A u \in Tasks \ {t} : MayBeLost(u)
      <3>1. CASE Kept
        BY <3>1, <1>5 DEF Kept, MayBeLost
      <3>2. CASE \E u \in Tasks : KeptBut(u)
        <4>1. PICK u \in Tasks : KeptBut(u)
          BY <3>2
        <4>2. Status(u)' # Status(u)
          BY <4>1, <1>5 DEF KeptBut
        <4> QED BY <4>1, <4>2 DEF KeptBut, MayBeLost
      <3> QED BY <3>1, <3>2, EveryStep
    <2>2. <<status[t], status'[t]>> \in D!Progress \cup D!Loss
      BY <1>1, <2>1 DEF Advances
    <2>3. \A u \in Tasks \ {t} : status'[u] = status[u] \/ <<status[u], status'[u]>> \in D!Loss
      BY <1>1, <2>1 DEF MayBeLost
    <2> QED BY <1>3, <2>2, <2>3 DEF D!Move
  <1> QED BY <1>4, <1>5

\* The refinement: however nodes crash, restart and reconnect, a task is sent
\* once, run at most once and answered at most once, after it ran.
THEOREM ClusterImplementsDispatch == Spec => ImplementsDispatch
  <1>1. Init => D!Init
    <2> SUFFICES ASSUME Init PROVE status = [t \in Tasks |-> "unsent"]
      BY DEF D!Init
    <2>1. ASSUME NEW t \in Tasks PROVE Status(t) = "unsent"
      BY InitHolds, StatusOf DEF Determined, StatusFrom, Init
    <2> QED BY <2>1 DEF status
  <1>2. IInv /\ [Next]_vars => [D!Move]_status
    BY StepRefines
  <1> QED BY <1>1, <1>2, OnePlace, PTL DEF Spec, ImplementsDispatch, D!Spec
=============================================================================
