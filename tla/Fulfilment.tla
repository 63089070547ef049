----------------------------- MODULE Fulfilment -----------------------------
(***************************************************************************)
(* Status changes by staff: admin_update_order_status of admin_orders.py.  *)
(*                                                                         *)
(* The handler is a coroutine with no await between reading the order and  *)
(* committing its new status, so it runs alone in its worker process; two  *)
(* workers interleave between the read and the commit, and the row is read *)
(* without a lock.  The notification that follows is a transaction of its  *)
(* own and is not in this module.                                          *)
(***************************************************************************)
CONSTANTS Order, Worker,     \* the processes of the service
          StatusRequest,     \* status changes asked for; each is handled once
          None

ASSUME OrderNone == None \notin Order
ASSUME WorkerNone == None \notin Worker

VARIABLES status,            \* Order -> orders.status
          change,            \* StatusRequest -> what its handler holds
          reached            \* history: Order -> statuses it has had

fulfilmentVars == <<status, change, reached>>

Lifecycle == INSTANCE OrderLifecycle
Forward == Lifecycle!Forward
Status == Lifecycle!Status

Handled(pc) == [pc |-> pc, worker |-> None, order |-> None, seen |-> "pending", to |-> "pending"]

\* Every order starts here, from checkout.
FulfilmentInit ==
  /\ status = [o \in Order |-> "pending"]
  /\ change = [q \in StatusRequest |-> Handled("new")]
  /\ reached = [o \in Order |-> {"pending"}]

\* The event loop of w runs no other coroutine until the handler awaits.
BugTwoOnALoop(w) == TRUE
LoopFree(w) == \A q \in StatusRequest : change[q].worker # w

\* payload.status not in allowed_next, negated.
BugNoCheck(from, to) == from # to
Allowed(from, to) == to \in Forward[from]

LoadOrder(q, w, o, to) ==
  /\ change[q].pc = "new"
  /\ LoopFree(w)
  /\ IF Allowed(status[o], to)
       THEN change' = [change EXCEPT ![q] = [pc |-> "loaded", worker |-> w, order |-> o,
                                             seen |-> status[o], to |-> to]]
       ELSE change' = [change EXCEPT ![q] = Handled("refused")]
  /\ UNCHANGED <<status, reached>>

WriteStatus(o, s) ==
  /\ status' = [status EXCEPT ![o] = s]
  /\ reached' = [reached EXCEPT ![o] = @ \cup {s}]

\* The UPDATE names the row only: whatever the status is now is replaced.
CommitStatus(q) ==
  /\ change[q].pc = "loaded"
  /\ WriteStatus(change[q].order, change[q].to)
  /\ change' = [change EXCEPT ![q] = Handled("done")]

\* The worker dies, or its connection does, before the commit.
LoseRequest(q) ==
  /\ change[q].pc = "loaded"
  /\ change' = [change EXCEPT ![q] = Handled("failed")]
  /\ UNCHANGED <<status, reached>>

FulfilmentStep ==
  \E q \in StatusRequest :
    \/ \E w \in Worker, o \in Order, to \in Status : LoadOrder(q, w, o, to)
    \/ CommitStatus(q)
    \/ LoseRequest(q)

FulfilmentSpec == FulfilmentInit /\ [][FulfilmentStep]_fulfilmentVars

-----------------------------------------------------------------------------
(* Properties.                                                             *)

Change == [pc : {"new", "loaded", "done", "refused", "failed"}, worker : Worker \cup {None},
           order : Order \cup {None}, seen : Status, to : Status]

\* Statuses are the enum's, the current one is among those the order has
\* had, and a request past its check knows its order and its worker.
FulfilmentTypeOK ==
  /\ status \in [Order -> Status]
  /\ change \in [StatusRequest -> Change]
  /\ reached \in [Order -> SUBSET Status]
  /\ \A o \in Order : status[o] \in reached[o]
  /\ \A q \in StatusRequest : change[q].pc = "loaded" => change[q].order \in Order

\* "letting an order jump straight from 'pending' to 'delivered' skips
\* real-world steps" (admin_orders.py 5-6): every status an order has had is
\* one it could reach from another it had before, even when two workers
\* change it at once and one overwrites the other.
NoStageSkipped ==
  \A o \in Order : \A s \in reached[o] :
    s = "pending" \/ \E p \in reached[o] : s \in Forward[p]

\* With a single worker the handlers are the lifecycle, step for step.
FollowsLifecycle == Lifecycle!Spec

\* "cancellation only possible before shipping" (admin_orders.py 9-10).
CancelledBeforeShipping ==
  [][\A o \in Order : status[o] # "cancelled" /\ status'[o] = "cancelled" =>
       status[o] \in {"pending", "packed"}]_status
=============================================================================
