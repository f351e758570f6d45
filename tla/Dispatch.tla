------------------------------ MODULE Dispatch ------------------------------
(***************************************************************************)
(* What a VelumOS cluster promises of a task, and no more: a task is sent  *)
(* once, run at most once and answered at most once; its result is printed *)
(* only after the task has run; and it may be lost at any point on the way *)
(* but never comes back from there.  Many tasks can be lost in one step,   *)
(* as by a crash, but only one at a time makes progress.                   *)
(***************************************************************************)
CONSTANT Tasks
VARIABLE status

Statuses == {"unsent", "queued", "running", "answered", "returned", "lost"}

\* The way of a task whose result arrives.
Progress == {<<"unsent", "queued">>, <<"queued", "running">>,
             <<"running", "answered">>, <<"answered", "returned">>}
Loss == {"unsent", "queued", "running", "answered"} \X {"lost"}

Init == status = [t \in Tasks |-> "unsent"]

Move ==
  /\ status' \in [Tasks -> Statuses]
  /\ \E t \in Tasks :
       /\ <<status[t], status'[t]>> \in Progress \cup Loss
       /\ \A u \in Tasks \ {t} : status'[u] = status[u] \/ <<status[u], status'[u]>> \in Loss

Spec == Init /\ [][Move]_status
=============================================================================
