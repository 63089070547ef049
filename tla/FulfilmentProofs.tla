-------------------------- MODULE FulfilmentProofs --------------------------
(***************************************************************************)
(* Status changes for any number of orders, workers and requests: no order *)
(* skips a stage, and with one worker every change follows the lifecycle.  *)
(*                                                                         *)
(* Both are inductive with the types: a request past its check carries a   *)
(* status the order has had and a successor of it, and statuses an order   *)
(* has had are never forgotten, so a late commit cannot invent a stage.    *)
(***************************************************************************)
EXTENDS Fulfilment, TLAPS

LEMMA ForwardType ==
  /\ \A s \in Status : Forward[s] \subseteq Status
  /\ "pending" \in Status
  BY DEF Status, Forward, Lifecycle!Status, Lifecycle!Forward

LEMMA HandledType ==
  ASSUME NEW pc \in {"new", "loaded", "done", "refused", "failed"}
  PROVE  Handled(pc) \in Change /\ Handled(pc).pc = pc /\ Handled(pc).worker = None
  BY ForwardType DEF Handled, Change

\* What an open request read is a status the order has had, and what it will
\* write may follow it.
OpenChangesValid ==
  \A q \in StatusRequest : change[q].pc = "loaded" =>
    /\ change[q].seen \in reached[change[q].order]
    /\ change[q].to \in Forward[change[q].seen]

StaffInv == FulfilmentTypeOK /\ OpenChangesValid

\* Closing a request, with or without its write, keeps the others'.
LEMMA CloseKeeps ==
  ASSUME StaffInv, NEW q \in StatusRequest, NEW pc \in {"done", "refused", "failed"},
         change' = [change EXCEPT ![q] = Handled(pc)], UNCHANGED <<status, reached>>
  PROVE  StaffInv'
  <1>1. FulfilmentTypeOK'
    BY HandledType DEF StaffInv, FulfilmentTypeOK
  <1>2. OpenChangesValid'
    BY HandledType DEF StaffInv, FulfilmentTypeOK, OpenChangesValid
  <1> QED
    BY <1>1, <1>2 DEF StaffInv

LEMMA LoadKeeps ==
  ASSUME StaffInv, NEW q \in StatusRequest, NEW w \in Worker, NEW o \in Order,
         NEW to \in Status, LoadOrder(q, w, o, to)
  PROVE  StaffInv'
  <1> DEFINE open == [pc |-> "loaded", worker |-> w, order |-> o, seen |-> status[o], to |-> to]
  <1>1. CASE Allowed(status[o], to)
    <2>1. change' = [change EXCEPT ![q] = open] /\ UNCHANGED <<status, reached>>
      BY <1>1 DEF LoadOrder
    <2>2. open \in Change /\ to \in Forward[status[o]] /\ status[o] \in reached[o]
      BY <1>1 DEF Allowed, StaffInv, FulfilmentTypeOK, Change
    <2>3. FulfilmentTypeOK'
      BY <2>1, <2>2 DEF StaffInv, FulfilmentTypeOK
    <2>4. OpenChangesValid'
      BY <2>1, <2>2 DEF StaffInv, FulfilmentTypeOK, OpenChangesValid
    <2> QED
      BY <2>3, <2>4 DEF StaffInv
  <1>2. CASE ~Allowed(status[o], to)
    BY <1>2, CloseKeeps DEF LoadOrder
  <1> QED
    BY <1>1, <1>2

\* Whoever writes a status, no status the order has had is forgotten.
LEMMA WriteKeeps ==
  ASSUME StaffInv, NEW o \in Order, NEW s \in Status, WriteStatus(o, s), UNCHANGED change
  PROVE  StaffInv'
  <1>1. FulfilmentTypeOK'
    BY DEF WriteStatus, StaffInv, FulfilmentTypeOK
  <1>2. OpenChangesValid'
    BY DEF WriteStatus, StaffInv, FulfilmentTypeOK, OpenChangesValid, Change
  <1> QED
    BY <1>1, <1>2 DEF StaffInv

\* What a commit writes follows a status the order has had.
LEMMA CommitWrites ==
  ASSUME StaffInv, NEW q \in StatusRequest, CommitStatus(q)
  PROVE  \E o \in Order, s \in Status :
           /\ \E p \in reached[o] : s \in Forward[p]
           /\ status' = [status EXCEPT ![o] = s]
           /\ reached' = [reached EXCEPT ![o] = reached[o] \cup {s}]
  <1> DEFINE o == change[q].order
             s == change[q].to
  <1>1. o \in Order /\ s \in Status /\ change[q].seen \in reached[o] /\ s \in Forward[change[q].seen]
    BY DEF CommitStatus, StaffInv, FulfilmentTypeOK, OpenChangesValid, Change
  <1>2. /\ status' = [status EXCEPT ![o] = s]
        /\ reached' = [reached EXCEPT ![o] = reached[o] \cup {s}]
    BY DEF CommitStatus, WriteStatus
  <1> QED
    BY <1>1, <1>2

LEMMA CommitKeeps ==
  ASSUME StaffInv, NEW q \in StatusRequest, CommitStatus(q)
  PROVE  StaffInv'
  <1>1. PICK o \in Order, s \in Status :
          /\ status' = [status EXCEPT ![o] = s]
          /\ reached' = [reached EXCEPT ![o] = reached[o] \cup {s}]
    BY CommitWrites
  <1>2. change' = [change EXCEPT ![q] = Handled("done")]
    BY DEF CommitStatus
  <1>3. FulfilmentTypeOK'
    BY <1>1, <1>2, HandledType DEF StaffInv, FulfilmentTypeOK
  <1>4. OpenChangesValid'
    BY <1>1, <1>2, HandledType DEF StaffInv, FulfilmentTypeOK, OpenChangesValid, Change
  <1> QED
    BY <1>3, <1>4 DEF StaffInv

LEMMA StaffKeeps == StaffInv /\ FulfilmentStep => StaffInv'
  BY LoadKeeps, CommitKeeps, CloseKeeps DEF FulfilmentStep, LoseRequest

LEMMA StaffInit == FulfilmentInit => StaffInv
  <1> SUFFICES ASSUME FulfilmentInit PROVE StaffInv
    OBVIOUS
  <1>1. FulfilmentTypeOK
    BY ForwardType, HandledType DEF FulfilmentInit, FulfilmentTypeOK
  <1>2. OpenChangesValid
    BY HandledType DEF FulfilmentInit, OpenChangesValid
  <1> QED
    BY <1>1, <1>2 DEF StaffInv

FInv == StaffInv /\ NoStageSkipped

LEMMA FInit == FulfilmentInit => FInv
  BY StaffInit DEF FulfilmentInit, FInv, NoStageSkipped

LEMMA FNext == FInv /\ [FulfilmentStep]_fulfilmentVars => FInv'
  <1> SUFFICES ASSUME FInv, [FulfilmentStep]_fulfilmentVars PROVE FInv'
    OBVIOUS
  <1>1. CASE UNCHANGED fulfilmentVars
    BY <1>1 DEF fulfilmentVars, FInv, StaffInv, FulfilmentTypeOK, OpenChangesValid, NoStageSkipped
  <1>2. ASSUME NEW q \in StatusRequest, CommitStatus(q) PROVE NoStageSkipped'
    BY <1>2, CommitWrites DEF FInv, StaffInv, FulfilmentTypeOK, NoStageSkipped
  <1>3. ASSUME FulfilmentStep PROVE NoStageSkipped'
    BY <1>2, <1>3 DEF FulfilmentStep, LoadOrder, LoseRequest, FInv, NoStageSkipped
  <1> QED
    BY <1>1, <1>3, StaffKeeps DEF FInv

\* No order skips a stage, however many workers change it at once
\* (admin_orders.py 4-8, 58-66).
THEOREM StagesVisited == FulfilmentSpec => []NoStageSkipped
  <1>1. FInv => NoStageSkipped
    BY DEF FInv
  <1> QED
    BY <1>1, FInit, FNext, PTL DEF FulfilmentSpec

\* With one worker, what an open request read is still the order's status.
OneAtATime ==
  /\ \A q \in StatusRequest : change[q].pc = "loaded" =>
       change[q].worker \in Worker /\ change[q].seen = status[change[q].order]
  /\ \A p, q \in StatusRequest :
       change[p].pc = "loaded" /\ change[q].pc = "loaded" => p = q

LEMMA AloneInit == FulfilmentInit => OneAtATime
  BY HandledType DEF FulfilmentInit, OneAtATime

LEMMA AloneNext ==
  ASSUME \A v, w \in Worker : v = w
  PROVE  FInv /\ OneAtATime /\ [FulfilmentStep]_fulfilmentVars => OneAtATime'
  <1> SUFFICES ASSUME FInv, OneAtATime, [FulfilmentStep]_fulfilmentVars PROVE OneAtATime'
    OBVIOUS
  <1>1. ASSUME NEW q \in StatusRequest, NEW w \in Worker, NEW o \in Order, NEW to \in Status,
               LoadOrder(q, w, o, to)
        PROVE  OneAtATime'
    <2>1. \A p \in StatusRequest : change[p].pc # "loaded"
      BY <1>1 DEF LoadOrder, LoopFree, OneAtATime
    <2> QED
      BY <1>1, <2>1, HandledType DEF LoadOrder, OneAtATime, FInv, StaffInv, FulfilmentTypeOK
  <1>2. ASSUME NEW q \in StatusRequest, CommitStatus(q) PROVE OneAtATime'
    BY <1>2, HandledType DEF CommitStatus, WriteStatus, OneAtATime, FInv, StaffInv, FulfilmentTypeOK
  <1>3. ASSUME NEW q \in StatusRequest, LoseRequest(q) PROVE OneAtATime'
    BY <1>3, HandledType DEF LoseRequest, OneAtATime, FInv, StaffInv, FulfilmentTypeOK
  <1>4. CASE UNCHANGED fulfilmentVars
    BY <1>4 DEF fulfilmentVars, OneAtATime
  <1> QED
    BY <1>1, <1>2, <1>3, <1>4 DEF FulfilmentStep

LEMMA AloneAdvances ==
  FInv /\ OneAtATime /\ [FulfilmentStep]_fulfilmentVars => [Lifecycle!Next]_status
  <1> SUFFICES ASSUME FInv, OneAtATime, [FulfilmentStep]_fulfilmentVars
               PROVE  [Lifecycle!Next]_status
    OBVIOUS
  <1>1. ASSUME NEW q \in StatusRequest, CommitStatus(q) PROVE Lifecycle!Next
    <2>1. /\ change[q].order \in Order /\ change[q].seen = status[change[q].order]
          /\ change[q].to \in Forward[change[q].seen]
      BY <1>1 DEF CommitStatus, OneAtATime, FInv, StaffInv, FulfilmentTypeOK, OpenChangesValid
    <2> QED
      BY <1>1, <2>1 DEF CommitStatus, WriteStatus, Forward, Lifecycle!Next, Lifecycle!Advance
  <1> QED
    BY <1>1 DEF FulfilmentStep, LoadOrder, LoseRequest, fulfilmentVars

\* One worker process implements the lifecycle of _FORWARD_TRANSITIONS.
THEOREM OneWorkerFollows ==
  ASSUME \A v, w \in Worker : v = w
  PROVE  FulfilmentSpec => FollowsLifecycle
  <1>1. FulfilmentInit => Lifecycle!Init
    BY DEF FulfilmentInit, Lifecycle!Init
  <1> QED
    BY <1>1, FInit, FNext, AloneInit, AloneNext, AloneAdvances, PTL
    DEF FulfilmentSpec, FollowsLifecycle, Lifecycle!Spec
=============================================================================
